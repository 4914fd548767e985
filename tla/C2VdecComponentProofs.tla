----------------------- MODULE C2VdecComponentProofs -----------------------
(***************************************************************************)
(* Proofs about C2VdecComponent for any number of works, any decoder and   *)
(* any number of calls, errors and timeouts:                               *)
(*   - TypeCorrect: types, for every client;                               *)
(*   - StopCorrect: stop() leaves no work in the component of a client     *)
(*     that makes one call at a time;                                      *)
(*   - NoSpuriousErrorCorrect, NoWorkLostCorrect, InputKeptCorrect: what   *)
(*     that client may rely on while its decoder makes no error;           *)
(*   - ContractCorrect: the component implements WorkContract.             *)
(***************************************************************************)
EXTENDS C2VdecComponent, FiniteSetTheorems, TLAPS

-----------------------------------------------------------------------------
(* The task queue.                                                          *)

\* A posted task keeps the queue one of tasks.
LEMMA PostType ==
    ASSUME tasks \in Seq(TaskSet), NEW t \in TaskSet, Post(t)
    PROVE  tasks' \in Seq(TaskSet)
  BY DEF Post

\* A handler that posts nothing leaves the rest of the queue.
LEMMA FollowNothing ==
    ASSUME tasks \in Seq(TaskSet), tasks # <<>>, Follow(<<>>)
    PROVE  tasks' = Tail(tasks) /\ tasks' \in Seq(TaskSet)
  BY DEF Follow

\* A handler that posts one task leaves it behind the rest.
LEMMA FollowOne ==
    ASSUME tasks \in Seq(TaskSet), tasks # <<>>, NEW t \in TaskSet, Follow(<<t>>)
    PROVE  tasks' = Append(Tail(tasks), t) /\ tasks' \in Seq(TaskSet)
  BY DEF Follow

\* The task a handler takes is a task.
LEMMA HeadType ==
    ASSUME tasks \in Seq(TaskSet), tasks # <<>>
    PROVE  Head(tasks) \in TaskSet
  OBVIOUS

\* A task for a work names a work.
LEMMA WorkOfHead ==
    ASSUME tasks \in Seq(TaskSet), tasks # <<>>, Head(tasks).op \in WorkOp
    PROVE  Head(tasks).w \in Works
  BY HeadType DEF TaskSet, WorkOp, Op, Guarded

\* Task and TaskFor build tasks.
LEMMA TaskTypes ==
    /\ \A op \in Op \ WorkOp : Task(op) \in TaskSet
    /\ \A op \in WorkOp : \A w \in Works : TaskFor(op, w) \in TaskSet
  BY DEF Task, TaskFor, TaskSet

\* Which handlers are for a work.
LEMMA OpsDiffer ==
    /\ {"onDequeueWork", "onDrainWithEos", "onDrainNoEos", "onFlush", "onStart", "onStop",
        "onDestroy", "sendOutputBufferToWorkIfAnyTask", "onReportNoOutFrameFinished",
        "onReportError", "onDrainDone", "onFlushOrStopDone"} \subseteq Op \ WorkOp
    /\ WorkOp = {"onQueueWork", "onInputBufferDone", "onOutputBufferDone",
                 "onErrorFrame", "onNoOutFrameNotify"}
  BY DEF Op, WorkOp, Guarded
-----------------------------------------------------------------------------
(* Types.                                                                   *)

\* A new decoder has a type.
LEMMA IdleHalType == IdleHal \in HalSet
  BY DEF IdleHal, HalSet, Outcome

\* The component as created.
LEMMA InitType == Init => TypeOK
<1> SUFFICES ASSUME Init PROVE TypeOK
  OBVIOUS
<1>1. out \in OutSet
  BY DEF Init, OutSet
<1>2. hal \in HalSet
  BY IdleHalType DEF Init
<1>3. calls \in [Call -> Nat]
  BY DEF Init
<1>4. loc \in [Works -> Loc] /\ mDrainMode \in [Works -> DrainMode \cup {"none"}]
  BY DEF Init, Loc
<1>5. tasks \in Seq(TaskSet)
  BY DEF Init
<1>6. /\ mState \in State
      /\ mComponentState \in ComponentState
      /\ step \in Step
  BY DEF Init, State, ComponentState, Step
<1> QED
  BY <1>1, <1>2, <1>3, <1>4, <1>5, <1>6 DEF Init, TypeOK

\* The client's calls keep the types.
LEMMA ClientTypes ==
    ASSUME TypeOK, Client
    PROVE  TypeOK'
<1> USE DEF TypeOK, status, thread, work, client
<1>1. ASSUME NEW w \in Works, queue_nb(w) PROVE TypeOK'
  <2>1. tasks' \in Seq(TaskSet)
    BY <1>1, PostType, TaskTypes, OpsDiffer DEF queue_nb
  <2> QED BY <1>1, <2>1 DEF queue_nb, Loc, Held
<1>2. ASSUME NEW mode \in DrainMode, drain_nb(mode) PROVE TypeOK'
  <2>1. tasks' \in Seq(TaskSet)
    BY <1>2, PostType, TaskTypes, OpsDiffer DEF drain_nb
  <2> QED BY <1>2, <2>1 DEF drain_nb, Count, Call
<1>3. CASE flush_sm
  <2>1. tasks' \in Seq(TaskSet)
    BY <1>3, PostType, TaskTypes, OpsDiffer DEF flush_sm
  <2> QED BY <1>3, <2>1 DEF flush_sm, Count, Call
<1>4. CASE FlushWait
  BY <1>4 DEF FlushWait
<1>5. CASE FlushTimeout
  <2>1. calls' \in [Call -> Nat]
    BY <1>5 DEF FlushTimeout, Count, Call
  <2> QED BY <1>5, <2>1 DEF FlushTimeout, SetState, ComponentState
<1>6. CASE FlushReturn
  <2>1. tasks' \in Seq(TaskSet)
    BY <1>6, PostType, TaskTypes, OpsDiffer DEF FlushReturn
  <2> QED BY <1>6, <2>1 DEF FlushReturn, Moved, Loc, Returned
<1>7. CASE start
  <2>1. tasks' \in Seq(TaskSet)
    BY <1>7, PostType, TaskTypes, OpsDiffer DEF start
  <2> QED BY <1>7, <2>1 DEF start, Count, Call
<1>8. CASE StartReturn
  BY <1>8 DEF StartReturn, State
<1>9. CASE stop
  <2>1. tasks' \in Seq(TaskSet)
    BY <1>9, PostType, TaskTypes, OpsDiffer DEF stop
  <2> QED BY <1>9, <2>1 DEF stop
<1>10. CASE StopReturn
  BY <1>10 DEF StopReturn, State
<1>11. CASE release
  <2>1. tasks' \in Seq(TaskSet)
    BY <1>11, PostType, TaskTypes, OpsDiffer DEF release
  <2> QED BY <1>11, <2>1 DEF release
<1> QED
  BY <1>1, <1>2, <1>3, <1>4, <1>5, <1>6, <1>7, <1>8, <1>9, <1>10, <1>11 DEF Client

\* The decoder's callbacks keep the types.
LEMMA DecoderTypes ==
    ASSUME TypeOK, Decoder
    PROVE  TypeOK'
<1> USE DEF TypeOK
<1> DEFINE Rest == UNCHANGED <<mState, mComponentState, mCompHasError, step, loc, mDrainMode,
                       inputHeld, ready, out, mHasQueuedWork, ctl, flusher, clientEos, timedOut>>
<1>1. ASSUME NEW w \in Works, NotifyEndOfBitstreamBuffer(w) PROVE TypeOK'
  <2>1. tasks' \in Seq(TaskSet)
    BY <1>1, PostType, TaskTypes, OpsDiffer DEF NotifyEndOfBitstreamBuffer
  <2>2. hal' \in HalSet
    BY <1>1 DEF NotifyEndOfBitstreamBuffer, HalSet
  <2>3. Rest /\ UNCHANGED calls
    BY <1>1 DEF NotifyEndOfBitstreamBuffer, HalOnly, status, work
  <2> QED BY <2>1, <2>2, <2>3
<1>2. ASSUME NEW w \in Works, PictureReady(w) PROVE TypeOK'
  <2>1. tasks' \in Seq(TaskSet)
    BY <1>2, PostType, TaskTypes, OpsDiffer DEF PictureReady
  <2>2. hal' \in HalSet
    BY <1>2 DEF PictureReady, HalSet, Outcome
  <2>3. Rest /\ UNCHANGED calls
    BY <1>2 DEF PictureReady, HalOnly, status, work
  <2> QED BY <2>1, <2>2, <2>3
<1>3. ASSUME NEW w \in Works, NotifyEvent(w) PROVE TypeOK'
  <2>1. tasks' \in Seq(TaskSet)
    BY <1>3, PostType, TaskTypes, OpsDiffer DEF NotifyEvent
  <2>2. hal' \in HalSet
    BY <1>3 DEF NotifyEvent, HalSet, Outcome
  <2>3. Rest /\ UNCHANGED calls
    BY <1>3 DEF NotifyEvent, HalOnly, status, work
  <2> QED BY <2>1, <2>2, <2>3
<1>4. CASE NotifyFlushDone
  <2>1. tasks' \in Seq(TaskSet)
    BY <1>4, PostType, TaskTypes, OpsDiffer DEF NotifyFlushDone
  <2>2. hal' \in HalSet
    BY <1>4 DEF NotifyFlushDone, HalSet
  <2>3. Rest /\ UNCHANGED calls
    BY <1>4 DEF NotifyFlushDone, HalOnly, status, work
  <2> QED BY <2>1, <2>2, <2>3
<1>5. CASE NotifyFlushOrStopDone
  <2>1. tasks' \in Seq(TaskSet)
    BY <1>5, PostType, TaskTypes, OpsDiffer DEF NotifyFlushOrStopDone
  <2>2. hal' \in HalSet
    <3>1. hal.resets - 1 \in Nat
      BY <1>5 DEF NotifyFlushOrStopDone, HalSet
    <3>2. hal' = [in |-> {}, owes |-> [w \in Works |-> "nothing"],
                  eos |-> FALSE, resets |-> hal.resets - 1]
      BY <1>5 DEF NotifyFlushOrStopDone, IdleHal
    <3> QED BY <3>1, <3>2 DEF HalSet, Outcome
  <2>3. Rest /\ UNCHANGED calls
    BY <1>5 DEF NotifyFlushOrStopDone, HalOnly, status, work
  <2> QED BY <2>1, <2>2, <2>3
<1>6. CASE NotifyError
  <2>1. tasks' \in Seq(TaskSet)
    BY <1>6, PostType, TaskTypes, OpsDiffer DEF NotifyError
  <2>2. calls' \in [Call -> Nat]
    BY <1>6 DEF NotifyError, Count, Call
  <2>3. Rest /\ UNCHANGED hal
    BY <1>6 DEF NotifyError, HalOnly, status, work
  <2> QED BY <2>1, <2>2, <2>3
<1> QED
  BY <1>1, <1>2, <1>3, <1>4, <1>5, <1>6 DEF Decoder

\* Works moved to a place are in places.
LEMMA MovedType ==
    ASSUME TypeOK, NEW S, NEW place \in Loc
    PROVE  Moved(S, place) \in [Works -> Loc]
  BY DEF Moved, TypeOK

\* So is one work.
LEMMA LocOfOne ==
    ASSUME TypeOK, NEW w \in Works, NEW place \in Loc
    PROVE  [loc EXCEPT ![w] = place] \in [Works -> Loc]
  BY DEF TypeOK

\* The places handlers name.
LEMMA PlaceNames ==
    {"queue", "pending", "abandoned", "flushList", "done", "eos", "notFound", "destroyed"} \subseteq Loc
  BY DEF Loc, Held, Returned, Reported

\* What a handler that runs knows of its task.
LEMMA TakeType ==
    ASSUME TypeOK, NEW op, Take(op)
    PROVE  /\ tasks \in Seq(TaskSet) /\ tasks # <<>>
           /\ op \in WorkOp => Head(tasks).w \in Works
           /\ step = "idle"
  BY WorkOfHead DEF Take, TypeOK

\* reportError() changes the state, and only to ERROR.
LEMMA ErrorType ==
    ASSUME TypeOK, reportError
    PROVE  /\ mState' \in State
           /\ mComponentState' = mComponentState
           /\ mCompHasError' \in BOOLEAN
  BY DEF TypeOK, reportError, status, State

\* updateComponentState() sets a state.
LEMMA StateType ==
    ASSUME NEW s \in ComponentState, SetState(s)
    PROVE  mComponentState' \in ComponentState /\ mCompHasError' \in BOOLEAN
  BY DEF SetState

\* The states, for the provers.
LEMMA StateNames ==
    ComponentState = {"UNINITIALIZED", "STARTING", "STARTED", "DRAINING",
                      "FLUSHING", "STOPPING", "DESTROYED"}
  BY DEF ComponentState

\* One field of the output changes at a time.
LEMMA OutFields ==
    ASSUME NEW o \in OutSet
    PROVE  /\ \A b \in Seq(Works) : [o EXCEPT !.buffers = b] \in OutSet
           /\ \A b \in Seq(Works) : [o EXCEPT !.noOut = b] \in OutSet
           /\ \A S \in SUBSET Works : [o EXCEPT !.sent = S] \in OutSet
           /\ \A e \in BOOLEAN : [o EXCEPT !.eos = e] \in OutSet
           /\ o.buffers \in Seq(Works) /\ o.noOut \in Seq(Works)
           /\ o.sent \subseteq Works
           /\ o.clones \in Nat /\ o.errorFrames \in Nat
  BY DEF OutSet

\* No buffers, and no works.
LEMMA NoBuffers == <<>> \in Seq(Works) /\ {} \in SUBSET Works
  OBVIOUS

\* onStopDone() keeps the types.
LEMMA StopDoneType ==
    ASSUME TypeOK, NEW S, onStopDone(S)
    PROVE  /\ loc' \in [Works -> Loc]
           /\ out' \in OutSet
           /\ mHasQueuedWork' \in BOOLEAN
           /\ mComponentState' \in ComponentState
           /\ mCompHasError' \in BOOLEAN
           /\ ctl' = "stopped"
<1>1. loc' \in [Works -> Loc]
  BY MovedType, PlaceNames DEF onStopDone, reportAbandonedWorks
<1>2. out' \in OutSet
  <2> DEFINE o1 == [out EXCEPT !.eos = FALSE]
             o2 == [o1 EXCEPT !.buffers = <<>>]
             o3 == [o2 EXCEPT !.noOut = <<>>]
  <2>1. out \in OutSet
    BY DEF TypeOK
  <2>2. o1 \in OutSet
    BY <2>1, OutFields
  <2>3. o2 \in OutSet
    BY <2>2, OutFields, NoBuffers
  <2>4. o3 \in OutSet
    BY <2>3, OutFields, NoBuffers
  <2>5. [o3 EXCEPT !.sent = {}] \in OutSet
    BY <2>4, OutFields, NoBuffers
  <2>6. out' = [o3 EXCEPT !.sent = {}]
    BY DEF onStopDone
  <2> QED BY <2>5, <2>6
<1> QED
  BY <1>1, <1>2, StateType, StateNames DEF onStopDone

\* onFlushDone() keeps the types.
LEMMA FlushDoneType ==
    ASSUME TypeOK, onFlushDone
    PROVE  /\ loc' \in [Works -> Loc]
           /\ out' \in OutSet
           /\ mComponentState' \in ComponentState
           /\ mCompHasError' \in BOOLEAN
           /\ flusher' \in {"idle", "posted", "waiting", "signalled"}
<1>1. loc' \in [Works -> Loc]
  BY PlaceNames DEF onFlushDone, TypeOK
<1>2. out' \in OutSet
  <2> DEFINE o1 == [out EXCEPT !.buffers = <<>>]
  <2>1. out \in OutSet
    BY DEF TypeOK
  <2>2. o1 \in OutSet
    BY <2>1, OutFields, NoBuffers
  <2>3. [o1 EXCEPT !.sent = {}] \in OutSet
    BY <2>2, OutFields, NoBuffers
  <2>4. out' = [o1 EXCEPT !.sent = {}]
    BY DEF onFlushDone
  <2> QED BY <2>3, <2>4
<1>3. flusher' \in {"idle", "posted", "waiting", "signalled"}
  BY DEF onFlushDone, TypeOK
<1> QED
  BY <1>1, <1>2, <1>3, StateType, StateNames DEF onFlushDone

\* reportEOSWork() keeps the types.
LEMMA EosReportType ==
    ASSUME TypeOK, reportEOSWork
    PROVE  /\ loc' \in [Works -> Loc]
           /\ out' \in OutSet
           /\ clientEos' \in {"none", "told", "given"}
           /\ mState' \in State
           /\ mComponentState' = mComponentState
           /\ mCompHasError' \in BOOLEAN
<1>1. CASE In("pending") = {}
  BY <1>1, ErrorType DEF reportEOSWork, TypeOK
<1>2. CASE In("pending") # {}
  <2>1. loc' \in [Works -> Loc]
    BY <1>2, PlaceNames DEF reportEOSWork, TypeOK
  <2>2. out' \in OutSet
    BY <1>2 DEF reportEOSWork, OutSet, TypeOK
  <2>3. clientEos' \in {"none", "told", "given"}
    BY <1>2 DEF reportEOSWork, TypeOK
  <2> QED BY <1>2, <2>1, <2>2, <2>3 DEF reportEOSWork, status, TypeOK
<1> QED
  BY <1>1, <1>2

\* A handler's own posts keep the queue one of tasks.
LEMMA FollowTypes ==
    ASSUME tasks \in Seq(TaskSet), tasks # <<>>, NEW op \in Op \ WorkOp
    PROVE  /\ Follow(<<>>) => tasks' \in Seq(TaskSet)
           /\ Follow(<<Task(op)>>) => tasks' \in Seq(TaskSet)
  BY FollowNothing, FollowOne, TaskTypes

\* Each handler keeps the types: onStart(),
LEMMA StartTypes ==
    ASSUME TypeOK, NEW outcome \in StartOutcomes, onStart(outcome)
    PROVE  TypeOK'
<1>1. tasks' \in Seq(TaskSet)
  BY TakeType, FollowNothing DEF onStart, Run
<1>2. mComponentState' \in ComponentState /\ mCompHasError' \in BOOLEAN
  BY StateType, StateNames DEF onStart
<1>3. ctl' \in {"idle", "starting", "started", "startFailed", "stopping", "stopped",
                "releasing", "released"}
  <2>1. outcome \in {"success", "initFailed", "noProfile"}
    BY CallAssumption DEF StartOutcome
  <2> QED BY <2>1 DEF onStart, TypeOK
<1>4. hal' \in HalSet
  BY IdleHalType DEF onStart
<1> QED
  BY <1>1, <1>2, <1>3, <1>4 DEF onStart, TypeOK, work

\* a guarded handler of a dead component,
LEMMA SkipTypes ==
    ASSUME TypeOK, Skip
    PROVE  TypeOK'
<1>1. tasks' \in Seq(TaskSet) /\ (Head(tasks).op = "onQueueWork" => Head(tasks).w \in Works)
  BY TakeType, FollowNothing DEF Skip, Take, WorkOp
<1>2. loc' \in [Works -> Loc]
  BY <1>1, LocOfOne, PlaceNames DEF Skip, TypeOK
<1> QED
  BY <1>1, <1>2 DEF Skip, TypeOK, status, client

\* onQueueWork(),
LEMMA QueueTypes ==
    ASSUME TypeOK, onQueueWork
    PROVE  TypeOK'
<1>1. Run("onQueueWork") /\ Head(tasks).w \in Works
  BY TakeType, OpsDiffer DEF onQueueWork, Run
<1>2. tasks' \in Seq(TaskSet)
  BY <1>1, TakeType, FollowTypes, OpsDiffer DEF onQueueWork, Run
<1>3. loc' \in [Works -> Loc]
  BY <1>1, LocOfOne, PlaceNames DEF onQueueWork
<1>4. mDrainMode' \in [Works -> DrainMode \cup {"none"}]
  BY <1>1 DEF onQueueWork, TypeOK, DrainMode
<1> QED
  BY <1>2, <1>3, <1>4 DEF onQueueWork, TypeOK, status, client

\* (the decoder's choice is an outcome)
LEMMA HalOutcomeTypes == \A w \in Works : OutcomesOf(w) \subseteq Outcome
  BY HalAssumption DEF OutcomesOf, Outcome

\* onDequeueWork(),
LEMMA DequeueTypes ==
    ASSUME TypeOK, onDequeueWork
    PROVE  TypeOK'
<1>1. tasks \in Seq(TaskSet) /\ tasks # <<>>
  BY TakeType DEF onDequeueWork, Run
<1>2. ASSUME NEW w \in In("queue"), NEW outcome \in OutcomesOf(w), Dequeue(w, outcome)
      PROVE  /\ tasks' \in Seq(TaskSet)
             /\ loc' \in [Works -> Loc]
             /\ inputHeld' \subseteq Works
             /\ hal' \in HalSet
             /\ out' \in OutSet
             /\ mComponentState' \in ComponentState
  <2>1. w \in Works /\ outcome \in Outcome
    BY <1>2, HalOutcomeTypes DEF In
  <2>2. tasks' \in Seq(TaskSet)
    BY <1>1, <1>2, FollowTypes, OpsDiffer DEF Dequeue
  <2>3. loc' \in [Works -> Loc]
    <3>1. \E place \in {"done", "pending"} : loc' = [loc EXCEPT ![w] = place]
      BY <1>2 DEF Dequeue
    <3> QED BY <2>1, <3>1, LocOfOne, PlaceNames
  <2>4. inputHeld' \subseteq Works
    BY <1>2, <2>1 DEF Dequeue, TypeOK
  <2>5. hal' \in HalSet
    BY <1>2, <2>1 DEF Dequeue, TypeOK, HalSet
  <2>6. out' \in OutSet
    <3>1. \E e \in BOOLEAN : out' = [out EXCEPT !.eos = e]
      <4>1. out.eos \in BOOLEAN
        BY DEF TypeOK, OutSet
      <4> QED BY <1>2, <4>1 DEF Dequeue
    <3> QED BY <3>1, OutFields DEF TypeOK
  <2>7. mComponentState' \in ComponentState
    BY <1>2, StateNames DEF Dequeue, TypeOK
  <2> QED BY <2>2, <2>3, <2>4, <2>5, <2>6, <2>7
<1>3. CASE mComponentState = "STARTED" /\ In("queue") # {}
  <2>1. PICK w \in In("queue") : \E outcome \in OutcomesOf(w) : Dequeue(w, outcome)
    BY <1>3 DEF onDequeueWork
  <2> QED BY <1>2, <2>1 DEF onDequeueWork, TypeOK, client
<1>4. CASE ~(mComponentState = "STARTED" /\ In("queue") # {})
  BY <1>1, <1>4, FollowNothing DEF onDequeueWork, TypeOK, client
<1> QED
  BY <1>3, <1>4

\* onInputBufferDone(),
LEMMA InputTypes ==
    ASSUME TypeOK, onInputBufferDone
    PROVE  TypeOK'
<1> DEFINE w == Head(tasks).w
<1>1. tasks \in Seq(TaskSet) /\ tasks # <<>> /\ w \in Works
  BY TakeType, OpsDiffer DEF onInputBufferDone, Run
<1>2. tasks' \in Seq(TaskSet)
  BY <1>1, FollowTypes, OpsDiffer DEF onInputBufferDone
<1>3. loc' \in [Works -> Loc]
  <2>1. loc' = loc \/ loc' = [loc EXCEPT ![w] = "done"]
    BY DEF onInputBufferDone, reportWorkIfFinished
  <2> QED BY <1>1, <2>1, LocOfOne, PlaceNames DEF TypeOK
<1>4. inputHeld' \subseteq Works
  BY DEF onInputBufferDone, TypeOK
<1>5. mState' \in State /\ mComponentState' \in ComponentState /\ mCompHasError' \in BOOLEAN
  BY ErrorType DEF onInputBufferDone, TypeOK, status
<1> QED
  BY <1>2, <1>3, <1>4, <1>5 DEF onInputBufferDone, TypeOK, client

\* onOutputBufferDone(),
LEMMA OutputTypes ==
    ASSUME TypeOK, onOutputBufferDone
    PROVE  TypeOK'
<1> DEFINE w == Head(tasks).w
<1>1. w \in Works
  BY TakeType, OpsDiffer DEF onOutputBufferDone, Run
<1>2. tasks' \in Seq(TaskSet)
  BY TakeType, FollowTypes, OpsDiffer DEF onOutputBufferDone, Run
<1>3. out' \in OutSet
  <2>1. \/ out' = [out EXCEPT !.last = w]
        \/ out' = out
        \/ out' = [out EXCEPT !.sent = @ \cup {w}, !.last = w, !.errorFrames = 0,
                              !.buffers = Append(@, w)]
    BY DEF onOutputBufferDone
  <2>2. out \in OutSet /\ Append(out.buffers, w) \in Seq(Works)
    BY <1>1, OutFields DEF TypeOK
  <2>3. [out EXCEPT !.last = w] \in OutSet
    BY <1>1, <2>2 DEF OutSet
  <2> DEFINE o1 == [out EXCEPT !.sent = @ \cup {w}, !.last = w, !.errorFrames = 0]
  <2>4. o1 \in OutSet
    BY <1>1, <2>2 DEF OutSet
  <2>5. [o1 EXCEPT !.buffers = Append(out.buffers, w)] \in OutSet
    BY <2>2, <2>4, OutFields
  <2>6. [out EXCEPT !.sent = @ \cup {w}, !.last = w, !.errorFrames = 0,
                   !.buffers = Append(@, w)] = [o1 EXCEPT !.buffers = Append(out.buffers, w)]
    BY <2>2 DEF OutSet
  <2> QED BY <2>1, <2>2, <2>3, <2>5, <2>6
<1>4. step' \in Step
  BY DEF onOutputBufferDone, TypeOK, Step
<1> QED
  BY <1>2, <1>3, <1>4 DEF onOutputBufferDone, TypeOK, status, work, client

\* sendOutputBufferToWorkIfAny(),
LEMMA SendTypes ==
    ASSUME TypeOK, sendOutputBufferToWorkIfAny
    PROVE  TypeOK'
<1> DEFINE w == Head(out.buffers)
<1>1. out \in OutSet /\ out.buffers # <<>>
  BY DEF TypeOK, sendOutputBufferToWorkIfAny
<1>2. w \in Works /\ Tail(out.buffers) \in Seq(Works)
  BY <1>1 DEF OutSet
<1>3. out' \in OutSet
  <2>1. \/ out' = out
        \/ out' = [out EXCEPT !.cloneable = TRUE]
        \/ out' = [out EXCEPT !.buffers = Tail(@), !.cloneable = TRUE]
        \/ out' = [out EXCEPT !.buffers = Tail(@), !.clones = @ + 1]
        \/ out' = [out EXCEPT !.buffers = Tail(@)]
    BY DEF sendOutputBufferToWorkIfAny
  <2>2. [out EXCEPT !.cloneable = TRUE] \in OutSet
    BY <1>1 DEF OutSet
  <2>3. [out EXCEPT !.buffers = Tail(@), !.cloneable = TRUE] \in OutSet
    BY <1>1, <1>2 DEF OutSet
  <2>4. [out EXCEPT !.buffers = Tail(@), !.clones = @ + 1] \in OutSet
    <3>1. out.clones + 1 \in Nat
      BY <1>1, OutFields
    <3> QED BY <1>1, <1>2, <3>1 DEF OutSet
  <2>5. [out EXCEPT !.buffers = Tail(@)] \in OutSet
    BY <1>1, <1>2 DEF OutSet
  <2> QED BY <1>1, <2>1, <2>2, <2>3, <2>4, <2>5
<1>4. loc' \in [Works -> Loc]
  <2>1. loc' = loc \/ loc' = [loc EXCEPT ![w] = "done"]
    BY DEF sendOutputBufferToWorkIfAny
  <2> QED BY <1>2, <2>1, LocOfOne, PlaceNames DEF TypeOK
<1>5. ready' \subseteq Works
  BY <1>2 DEF sendOutputBufferToWorkIfAny, TypeOK
<1>6. step' \in Step
  BY DEF sendOutputBufferToWorkIfAny, TypeOK, Step
<1> QED
  BY <1>3, <1>4, <1>5, <1>6 DEF sendOutputBufferToWorkIfAny, TypeOK, status, client

\* onDrain(),
LEMMA DrainTypes ==
    ASSUME TypeOK, NEW mode \in DrainMode, onDrain(mode)
    PROVE  TypeOK'
<1>1. tasks' \in Seq(TaskSet)
  BY TakeType, FollowTypes, OpsDiffer DEF onDrain, Run
<1>2. mDrainMode' \in [Works -> DrainMode \cup {"none"}]
  BY DEF onDrain, TypeOK
<1>3. mComponentState' \in ComponentState
  BY StateNames DEF onDrain, TypeOK
<1>4. hal' \in HalSet
  BY DEF onDrain, TypeOK, HalSet
<1>5. out' \in OutSet
  <2>1. out' = out \/ \E e \in BOOLEAN : out' = [out EXCEPT !.eos = e]
    BY DEF onDrain
  <2> QED BY <2>1, OutFields DEF TypeOK
<1> QED
  BY <1>1, <1>2, <1>3, <1>4, <1>5 DEF onDrain, TypeOK, client

\* onDrainDone(),
LEMMA DrainDoneTypes ==
    ASSUME TypeOK, onDrainDone
    PROVE  TypeOK'
<1>1. tasks' \in Seq(TaskSet)
  BY TakeType, FollowTypes, OpsDiffer DEF onDrainDone, Run
<1>2. step' \in Step
  BY DEF onDrainDone, DrainEnds, TypeOK, Step
<1>3. CASE DrainMayEnd
  BY <1>1, <1>2, <1>3, StateNames DEF onDrainDone, TypeOK, DrainMayEnd, DrainEnds
<1>4. CASE ~DrainMayEnd /\ mComponentState = "STOPPING"
  BY <1>1, <1>2, <1>4, EosReportType DEF onDrainDone, TypeOK, status
<1>5. CASE ~DrainMayEnd /\ mComponentState # "STOPPING"
  BY <1>1, <1>2, <1>5, ErrorType DEF onDrainDone, TypeOK
<1> QED
  BY <1>3, <1>4, <1>5

\* and its end after the pending buffers,
LEMMA DrainTailTypes ==
    ASSUME TypeOK, DrainDoneTail
    PROVE  TypeOK'
<1>1. tasks' \in Seq(TaskSet)
  BY PostType, TaskTypes, OpsDiffer DEF DrainDoneTail, TypeOK
<1>2. step' \in Step
  BY DEF DrainDoneTail, Step
<1>3. CASE out.eos
  BY <1>1, <1>2, <1>3, EosReportType DEF DrainDoneTail, TypeOK
<1>4. CASE ~out.eos
  BY <1>1, <1>2, <1>4 DEF DrainDoneTail, TypeOK, status
<1> QED
  BY <1>3, <1>4

\* onFlush(),
LEMMA FlushTypes ==
    ASSUME TypeOK, onFlush
    PROVE  TypeOK'
<1>1. tasks' \in Seq(TaskSet)
  BY TakeType, FollowTypes, OpsDiffer DEF onFlush, Run
<1>2. hal' \in HalSet /\ out' \in OutSet
  <2>1. out \in OutSet => [out EXCEPT !.last = 0] \in OutSet
    BY DEF OutSet
  <2>2. hal \in HalSet => [hal EXCEPT !.resets = @ + 1] \in HalSet
    BY DEF HalSet
  <2> QED BY <2>1, <2>2 DEF onFlush, TypeOK
<1>3. mComponentState' \in ComponentState /\ mCompHasError' \in BOOLEAN
  BY StateType, StateNames DEF onFlush, TypeOK
<1> QED
  BY <1>1, <1>2, <1>3 DEF onFlush, TypeOK, work, client

\* onStop(),
LEMMA StopTypes ==
    ASSUME TypeOK, onStop
    PROVE  TypeOK'
<1>1. tasks' \in Seq(TaskSet)
  BY TakeType, FollowTypes, OpsDiffer DEF onStop, Run
<1>2. CASE mComponentState = "UNINITIALIZED"
  BY <1>1, <1>2 DEF onStop, TypeOK
<1>3. CASE mComponentState # "UNINITIALIZED" /\ mCompHasError
  <2>1. onStopDone(In("queue") \cup In("pending") \cup In("abandoned")) /\ UNCHANGED hal
    BY <1>3 DEF onStop
  <2> QED BY <1>1, <2>1, StopDoneType DEF onStop, TypeOK
<1>4. CASE mComponentState # "UNINITIALIZED" /\ ~mCompHasError
  <2>1. hal' \in HalSet
    BY <1>4 DEF onStop, TypeOK, HalSet
  <2>2. loc' \in [Works -> Loc]
    BY <1>4, MovedType, PlaceNames DEF onStop
  <2> QED BY <1>1, <1>4, <2>1, <2>2, StateNames DEF onStop, TypeOK
<1> QED
  BY <1>2, <1>3, <1>4

\* onFlushOrStopDone(),
LEMMA ResetDoneTypes ==
    ASSUME TypeOK, onFlushOrStopDone
    PROVE  TypeOK'
<1>1. tasks' \in Seq(TaskSet)
  BY TakeType, FollowTypes, OpsDiffer DEF onFlushOrStopDone, Run
<1>2. step' \in Step
  BY DEF onFlushOrStopDone, TypeOK, Step
<1>3. CASE mComponentState = "UNINITIALIZED"
  BY <1>1, <1>3 DEF onFlushOrStopDone, TypeOK, status
<1>4. CASE mComponentState = "FLUSHING" /\ mCompHasError
  BY <1>1, <1>2, <1>4 DEF onFlushOrStopDone, TypeOK
<1>5. CASE mComponentState = "FLUSHING" /\ ~mCompHasError
  <2>1. onFlushDone /\ UNCHANGED <<mState, mHasQueuedWork, ctl>>
    BY <1>5 DEF onFlushOrStopDone
  <2> QED BY <1>1, <1>2, <2>1, FlushDoneType DEF onFlushOrStopDone, TypeOK
<1>6. CASE mComponentState = "STOPPING"
  <2>1. onStopDone(In("pending") \cup In("abandoned")) /\ UNCHANGED <<mState, flusher>>
    BY <1>6 DEF onFlushOrStopDone
  <2> QED BY <1>1, <1>2, <2>1, StopDoneType DEF onFlushOrStopDone, TypeOK
<1>7. CASE mComponentState \notin {"UNINITIALIZED", "FLUSHING", "STOPPING"}
  BY <1>1, <1>2, <1>7, ErrorType DEF onFlushOrStopDone, TypeOK
<1> QED
  BY <1>3, <1>4, <1>5, <1>6, <1>7

\* onErrorFrameWorksAndReportIfFinised(),
LEMMA ErrorFrameTypes ==
    ASSUME TypeOK, onErrorFrame
    PROVE  TypeOK'
<1> DEFINE w == Head(tasks).w
<1>1. w \in Works
  BY TakeType, OpsDiffer DEF onErrorFrame, Run
<1>2. tasks' \in Seq(TaskSet)
  BY TakeType, FollowTypes, OpsDiffer DEF onErrorFrame, Run
<1>3. loc' \in [Works -> Loc]
  <2>1. loc' = loc \/ loc' = [loc EXCEPT ![w] = "done"]
    BY DEF onErrorFrame, reportWorkIfFinished
  <2> QED BY <1>1, <2>1, LocOfOne, PlaceNames DEF TypeOK
<1>4. ready' \subseteq Works
  BY <1>1 DEF onErrorFrame, TypeOK
<1>5. out' \in OutSet
  <2>1. \/ out' = out
        \/ out' = [out EXCEPT !.errorFrames = 0]
        \/ out' = [out EXCEPT !.errorFrames = @ + 1]
    BY DEF onErrorFrame
  <2>2. out \in OutSet
    BY DEF TypeOK
  <2>3. [out EXCEPT !.errorFrames = 0] \in OutSet
    BY <2>2 DEF OutSet
  <2>4. [out EXCEPT !.errorFrames = @ + 1] \in OutSet
    <3>1. out.errorFrames + 1 \in Nat
      BY <2>2, OutFields
    <3> QED BY <2>2, <3>1 DEF OutSet
  <2> QED BY <2>1, <2>2, <2>3, <2>4
<1>6. mState' \in State /\ mComponentState' \in ComponentState /\ mCompHasError' \in BOOLEAN
  BY ErrorType DEF onErrorFrame, TypeOK, status
<1> QED
  BY <1>2, <1>3, <1>4, <1>5, <1>6 DEF onErrorFrame, TypeOK, client

\* onReportNoOutFrameFinished(),
LEMMA NoOutTypes ==
    ASSUME TypeOK, ReportNoOutFrame
    PROVE  TypeOK'
<1> DEFINE w == Head(out.noOut)
<1>1. CASE out.noOut = <<>>
  BY <1>1 DEF ReportNoOutFrame, TypeOK, Step, status, client
<1>2. CASE out.noOut # <<>>
  <2>1. out \in OutSet /\ w \in Works /\ Tail(out.noOut) \in Seq(Works)
    BY <1>2, OutFields DEF TypeOK
  <2>2. out' \in OutSet
    <3>1. out' = out \/ out' = [out EXCEPT !.noOut = Tail(out.noOut)]
      BY <1>2 DEF ReportNoOutFrame
    <3> QED BY <2>1, <3>1, OutFields
  <2>3. loc' \in [Works -> Loc]
    <3>1. loc' = loc \/ loc' = [loc EXCEPT ![w] = "done"]
      BY <1>2 DEF ReportNoOutFrame
    <3> QED BY <2>1, <3>1, LocOfOne, PlaceNames DEF TypeOK
  <2>4. mState' \in State /\ mComponentState' \in ComponentState /\ mCompHasError' \in BOOLEAN
    <3>1. reportError \/ UNCHANGED status
      BY <1>2 DEF ReportNoOutFrame
    <3> QED BY <3>1, ErrorType DEF TypeOK, status
  <2>5. step' \in Step
    BY <1>2 DEF ReportNoOutFrame, TypeOK, Step
  <2> QED BY <2>2, <2>3, <2>4, <2>5 DEF ReportNoOutFrame, TypeOK, client
<1> QED
  BY <1>1, <1>2

\* and the others.
LEMMA OtherTypes ==
    ASSUME TypeOK,
           \/ sendOutputBufferToWorkIfAnyTask \/ NothingToSend \/ resetInputAndOutputBufInfo
           \/ onNoOutFrameNotify \/ onReportNoOutFrameFinished \/ onReportError \/ onDestroy
    PROVE  TypeOK'
<1>1. CASE sendOutputBufferToWorkIfAnyTask
  <2>1. tasks' \in Seq(TaskSet)
    BY <1>1, TakeType, FollowTypes, OpsDiffer DEF sendOutputBufferToWorkIfAnyTask, Run
  <2> QED BY <1>1, <2>1 DEF sendOutputBufferToWorkIfAnyTask, TypeOK, Step, status, work, client
<1>2. CASE NothingToSend
  BY <1>2 DEF NothingToSend, TypeOK, Step, status, work, client
<1>3. CASE resetInputAndOutputBufInfo
  <2>1. out' \in OutSet
    <3>1. out \in OutSet => [out EXCEPT !.errorFrames = 0] \in OutSet
      BY DEF OutSet
    <3> QED BY <1>3, <3>1 DEF resetInputAndOutputBufInfo, TypeOK
  <2> QED BY <1>3, <2>1 DEF resetInputAndOutputBufInfo, TypeOK, Step, status, work, client
<1>4. CASE onNoOutFrameNotify
  <2>1. tasks' \in Seq(TaskSet) /\ Head(tasks).w \in Works
    BY <1>4, TakeType, FollowTypes, OpsDiffer DEF onNoOutFrameNotify, Run
  <2>2. out' \in OutSet
    <3>1. out \in OutSet /\ Append(out.noOut, Head(tasks).w) \in Seq(Works)
      BY <2>1, OutFields DEF TypeOK
    <3> QED BY <1>4, <3>1, OutFields DEF onNoOutFrameNotify
  <2> QED BY <1>4, <2>1, <2>2 DEF onNoOutFrameNotify, TypeOK, status, work, client
<1>5. CASE onReportNoOutFrameFinished
  <2>1. tasks' \in Seq(TaskSet)
    BY <1>5, TakeType, FollowTypes, OpsDiffer DEF onReportNoOutFrameFinished, Run
  <2> QED BY <1>5, <2>1 DEF onReportNoOutFrameFinished, TypeOK, Step, status, work, client
<1>6. CASE onReportError
  <2>1. tasks' \in Seq(TaskSet)
    BY <1>6, TakeType, FollowTypes, OpsDiffer DEF onReportError, Run
  <2> QED BY <1>6, <2>1, ErrorType DEF onReportError, TypeOK, work, client
<1>7. CASE onDestroy
  <2>1. loc' \in [Works -> Loc]
    BY <1>7, MovedType, PlaceNames DEF onDestroy
  <2>2. out' \in OutSet
    <3> DEFINE o1 == [out EXCEPT !.buffers = <<>>]
               o2 == [o1 EXCEPT !.sent = {}]
    <3>1. o1 \in OutSet
      BY OutFields, NoBuffers DEF TypeOK
    <3>2. o2 \in OutSet
      BY <3>1, OutFields, NoBuffers
    <3>3. [o2 EXCEPT !.noOut = <<>>] \in OutSet
      BY <3>2, OutFields, NoBuffers
    <3>4. out' = [o2 EXCEPT !.noOut = <<>>]
      BY <1>7 DEF onDestroy
    <3> QED BY <3>3, <3>4
  <2>3. mComponentState' \in ComponentState /\ mCompHasError' \in BOOLEAN
    BY <1>7, StateType, StateNames DEF onDestroy
  <2>4. tasks' \in Seq(TaskSet)
    BY <1>7 DEF onDestroy
  <2>5. hal' \in HalSet
    BY <1>7, IdleHalType DEF onDestroy
  <2> QED BY <1>7, <2>1, <2>2, <2>3, <2>4, <2>5 DEF onDestroy, TypeOK
<1> QED
  BY <1>1, <1>2, <1>3, <1>4, <1>5, <1>6, <1>7

\* TypeOK is inductive.
LEMMA NextType == TypeOK /\ [Next]_vars => TypeOK'
<1> SUFFICES ASSUME TypeOK, [Next]_vars PROVE TypeOK'
  OBVIOUS
<1>1. CASE Client
  BY <1>1, ClientTypes
<1>2. CASE Handler
  BY <1>2, SkipTypes, QueueTypes, DequeueTypes, InputTypes, OutputTypes, SendTypes, StartTypes,
     DrainTypes, DrainDoneTypes, DrainTailTypes, FlushTypes, StopTypes, ResetDoneTypes,
     ErrorFrameTypes, NoOutTypes, OtherTypes
  DEF Handler
<1>3. CASE Decoder
  BY <1>3, DecoderTypes
<1>4. CASE UNCHANGED vars
  BY <1>4 DEF vars, status, thread, work, client, TypeOK
<1> QED
  BY <1>1, <1>2, <1>3, <1>4 DEF Next

\* Every variable keeps its type, whatever the client, the decoder and mThread
\* do: no work is in two places, and every task of a work has its work.
THEOREM TypeCorrect == Spec => []TypeOK
<1>1. Init => TypeOK
  BY InitType
<1>2. TypeOK /\ [Next]_vars => TypeOK'
  BY NextType
<1> QED
  BY <1>1, <1>2, PTL DEF Spec
-----------------------------------------------------------------------------
(* stop() leaves no work in the component, if the client makes one call at a *)
(* time.  The works still posted are the danger: nothing reports them.  They *)
(* are all before onStop in the task queue, because no call can post a work  *)
(* while stop() waits, so that mQueue is complete when onStop empties it.    *)

\* No task of s is for one of ops; no task after one for op is.
No(s, ops) == \A i \in 1..Len(s) : s[i].op \notin ops
After(s, op, ops) == \A i, j \in 1..Len(s) : i < j /\ s[i].op = op => s[j].op \notin ops
Carries(s, w) == \E i \in 1..Len(s) : s[i] = TaskFor("onQueueWork", w)

StopOrWork == {"onStop", "onQueueWork"}
InComponent == {"posted", "queue", "pending", "abandoned"}

PostedCarried   == \A w \in Works : loc[w] = "posted" => Carries(tasks, w)
StopLast        == After(tasks, "onStop", StopOrWork)
StopOfStopping  == ctl # "stopping" => No(tasks, {"onStop"})
StartOnce       == After(tasks, "onStart", {"onStart"})
StartOfStarting == ctl # "starting" => No(tasks, {"onStart"})
StoppingIsAlone ==
    mComponentState = "STOPPING" =>
        /\ ctl = "stopping"
        /\ No(tasks, StopOrWork)
        /\ \A w \in Works : loc[w] # "queue"
StoppedIsEmpty ==
    mComponentState = "UNINITIALIZED" =>
        /\ \A w \in Works : loc[w] \notin InComponent
        /\ ctl = "stopped" \/ (mState = "LOADED" /\ ctl # "started")

StopInv ==
    /\ PostedCarried
    /\ StopLast /\ StopOfStopping
    /\ StartOnce /\ StartOfStarting
    /\ StoppingIsAlone
    /\ StoppedIsEmpty

\* Taking a task adds none.
LEMMA NoTail ==
    ASSUME NEW s \in Seq(TaskSet), s # <<>>, NEW ops, No(s, ops)
    PROVE  No(Tail(s), ops)
  BY DEF No

\* Nor does posting another kind of task.
LEMMA NoAppend ==
    ASSUME NEW s \in Seq(TaskSet), NEW t \in TaskSet, NEW ops, No(s, ops), t.op \notin ops
    PROVE  No(Append(s, t), ops)
  BY DEF No

\* Taking the first task keeps the order of the others.
LEMMA AfterTail ==
    ASSUME NEW s \in Seq(TaskSet), s # <<>>, NEW op, NEW ops, After(s, op, ops)
    PROVE  After(Tail(s), op, ops)
  BY DEF After

\* Once the task for op is taken, none of ops is left.
LEMMA AfterHead ==
    ASSUME NEW s \in Seq(TaskSet), s # <<>>, NEW ops, After(s, Head(s).op, ops)
    PROVE  No(Tail(s), ops)
  BY DEF After, No

\* A task that may come after op may be posted.
LEMMA AfterAppend ==
    ASSUME NEW s \in Seq(TaskSet), NEW t \in TaskSet, NEW op, NEW ops,
           After(s, op, ops), t.op \notin ops
    PROVE  After(Append(s, t), op, ops)
  BY DEF After

\* Any task may be posted while there is none for op.
LEMMA AfterFirst ==
    ASSUME NEW s \in Seq(TaskSet), NEW t \in TaskSet, NEW op, NEW ops, No(s, {op})
    PROVE  After(Append(s, t), op, ops)
  BY DEF After, No

\* A posted work stays posted until its own task is taken.
LEMMA CarriesTail ==
    ASSUME NEW s \in Seq(TaskSet), s # <<>>, NEW w, Carries(s, w),
           Head(s) # TaskFor("onQueueWork", w)
    PROVE  Carries(Tail(s), w)
<1>1. PICK i \in 1..Len(s) : s[i] = TaskFor("onQueueWork", w)
  BY DEF Carries
<1>2. i # 1
  BY <1>1
<1>3. i - 1 \in 1..Len(Tail(s)) /\ Tail(s)[i - 1] = s[i]
  BY <1>2
<1> QED
  BY <1>1, <1>3 DEF Carries

\* Posting keeps the posted works.
LEMMA CarriesAppend ==
    ASSUME NEW s \in Seq(TaskSet), NEW t \in TaskSet, NEW w, Carries(s, w)
    PROVE  Carries(Append(s, t), w)
<1>1. PICK i \in 1..Len(s) : s[i] = TaskFor("onQueueWork", w)
  BY DEF Carries
<1>2. i \in 1..Len(Append(s, t)) /\ Append(s, t)[i] = s[i]
  OBVIOUS
<1> QED
  BY <1>1, <1>2 DEF Carries

\* queue_nb() posts its work.
LEMMA CarriesNew ==
    ASSUME NEW s \in Seq(TaskSet), NEW w \in Works
    PROVE  Carries(Append(s, TaskFor("onQueueWork", w)), w)
<1> DEFINE t == TaskFor("onQueueWork", w)
<1>1. t \in TaskSet
  BY TaskTypes, OpsDiffer
<1>2. Len(s) + 1 \in 1..Len(Append(s, t)) /\ Append(s, t)[Len(s) + 1] = t
  BY <1>1
<1> QED
  BY <1>2 DEF Carries

Harmless == Op \ {"onStop", "onQueueWork", "onStart"}

\* What a step does that is none of the steps StopInv is about.
QueueKept ==
    /\ \A ops \in {{"onStop"}, {"onStart"}, StopOrWork} : No(tasks, ops) => No(tasks', ops)
    /\ StopLast => StopLast'
    /\ StartOnce => StartOnce'
    /\ \A w \in Works : Carries(tasks, w) => Carries(tasks', w)
WorksKept ==
    \A w \in Works : /\ loc'[w] = "posted" => loc[w] = "posted"
                     /\ loc'[w] = "queue" => loc[w] = "queue"
                     /\ loc'[w] \in InComponent => loc[w] \in InComponent
StateKept ==
    /\ mComponentState' = "STOPPING" => mComponentState = "STOPPING"
    /\ mComponentState' = "UNINITIALIZED" => mComponentState = "UNINITIALIZED" /\ mState' = mState

\* Such a step keeps StopInv.
LEMMA KeptSteps ==
    ASSUME StopInv, QueueKept, WorksKept, StateKept, ctl' = ctl
    PROVE  StopInv'
<1>1. PostedCarried'
  BY DEF StopInv, PostedCarried, QueueKept, WorksKept
<1>2. StopLast' /\ StartOnce'
  BY DEF StopInv, QueueKept
<1>3. StopOfStopping'
  BY DEF StopInv, StopOfStopping, QueueKept
<1>4. StartOfStarting'
  BY DEF StopInv, StartOfStarting, QueueKept
<1>5. StoppingIsAlone'
  BY DEF StopInv, StoppingIsAlone, QueueKept, WorksKept, StateKept
<1>6. StoppedIsEmpty'
  BY DEF StopInv, StoppedIsEmpty, WorksKept, StateKept
<1> QED
  BY <1>1, <1>2, <1>3, <1>4, <1>5, <1>6 DEF StopInv

\* A step that leaves the queue alone,
LEMMA SameQueue ==
    ASSUME tasks' = tasks
    PROVE  QueueKept
  BY DEF QueueKept, StopLast, StartOnce

\* that posts a harmless task,
LEMMA PostKeeps ==
    ASSUME TypeOK, NEW t \in TaskSet, t.op \in Harmless, Post(t)
    PROVE  QueueKept
<1>1. tasks \in Seq(TaskSet) /\ tasks' = Append(tasks, t)
  BY DEF TypeOK, Post
<1>2. t.op \notin {"onStop"} /\ t.op \notin {"onStart"} /\ t.op \notin StopOrWork
  BY DEF Harmless, StopOrWork
<1>3. \A ops \in {{"onStop"}, {"onStart"}, StopOrWork} : No(tasks, ops) => No(tasks', ops)
  BY <1>1, <1>2, NoAppend
<1>4. (StopLast => StopLast') /\ (StartOnce => StartOnce')
  BY <1>1, <1>2, AfterAppend DEF StopLast, StartOnce
<1>5. \A w \in Works : Carries(tasks, w) => Carries(tasks', w)
  BY <1>1, CarriesAppend
<1> QED
  BY <1>3, <1>4, <1>5 DEF QueueKept

\* what a handler does to the queue, whatever task it has taken:
LEMMA FollowQueue ==
    ASSUME TypeOK, tasks # <<>>, NEW next \in (Op \ WorkOp) \cap Harmless,
           Follow(<<>>) \/ Follow(<<Task(next)>>)
    PROVE  /\ \A ops \in {{"onStop"}, {"onStart"}, StopOrWork} : No(tasks, ops) => No(tasks', ops)
           /\ StopLast => StopLast'
           /\ StartOnce => StartOnce'
           /\ \A w \in Works : Carries(tasks, w) /\ Head(tasks) # TaskFor("onQueueWork", w)
                                  => Carries(tasks', w)
<1>1. tasks \in Seq(TaskSet)
  BY DEF TypeOK
<1> DEFINE rest == Tail(tasks)
           t == Task(next)
<1>2. /\ rest \in Seq(TaskSet)
      /\ t \in TaskSet
      /\ t.op \notin {"onStop"} /\ t.op \notin {"onStart"} /\ t.op \notin StopOrWork
  BY <1>1, TaskTypes DEF Harmless, StopOrWork, Task
<1>3. tasks' = rest \/ tasks' = Append(rest, t)
  BY <1>1, <1>2, FollowNothing, FollowOne
<1> HIDE DEF rest, t
<1>4. \A ops \in {{"onStop"}, {"onStart"}, StopOrWork} : No(tasks, ops) => No(tasks', ops)
  <2> SUFFICES ASSUME NEW ops \in {{"onStop"}, {"onStart"}, StopOrWork}, No(tasks, ops)
               PROVE  No(tasks', ops)
    OBVIOUS
  <2>1. No(rest, ops)
    BY <1>1, NoTail DEF rest
  <2>2. No(Append(rest, t), ops)
    BY <1>2, <2>1, NoAppend
  <2> QED BY <1>3, <2>1, <2>2
<1>5. ASSUME NEW o, NEW ops, After(tasks, o, ops), t.op \notin ops PROVE After(tasks', o, ops)
  <2>1. After(rest, o, ops)
    BY <1>1, <1>5, AfterTail DEF rest
  <2>2. After(Append(rest, t), o, ops)
    BY <1>2, <1>5, <2>1, AfterAppend
  <2> QED BY <1>3, <2>1, <2>2
<1>6. (StopLast => StopLast') /\ (StartOnce => StartOnce')
  BY <1>2, <1>5 DEF StopLast, StartOnce
<1>7. ASSUME NEW w \in Works, Carries(tasks, w), Head(tasks) # TaskFor("onQueueWork", w)
      PROVE  Carries(tasks', w)
  <2>1. Carries(rest, w)
    BY <1>1, <1>7, CarriesTail DEF rest
  <2>2. Carries(Append(rest, t), w)
    BY <1>2, <2>1, CarriesAppend
  <2> QED BY <1>3, <2>1, <2>2
<1> QED
  BY <1>4, <1>6, <1>7

\* and a handler of anything but onQueueWork.
LEMMA FollowKeeps ==
    ASSUME TypeOK, NEW op \in Op, op # "onQueueWork", Take(op),
           NEW next \in (Op \ WorkOp) \cap Harmless,
           Follow(<<>>) \/ Follow(<<Task(next)>>)
    PROVE  QueueKept
<1>1. tasks # <<>> /\ \A w : Head(tasks) # TaskFor("onQueueWork", w)
  BY DEF Take, TaskFor
<1> QED
  BY <1>1, FollowQueue DEF QueueKept

\* The harmless tasks.
LEMMA HarmlessOps ==
    /\ {"onDequeueWork", "onDrainWithEos", "onDrainNoEos", "onFlush", "onDestroy",
        "sendOutputBufferToWorkIfAnyTask", "onReportNoOutFrameFinished",
        "onReportError", "onDrainDone", "onFlushOrStopDone"} \subseteq (Op \ WorkOp) \cap Harmless
    /\ {"onInputBufferDone", "onOutputBufferDone", "onErrorFrame",
        "onNoOutFrameNotify"} \subseteq WorkOp \cap Harmless
    /\ WorkOp \subseteq Op
  BY DEF Op, WorkOp, Guarded, Harmless

\* What leaves the works or the state alone, and what sets another state.
LEMMA Kept ==
    /\ UNCHANGED loc => WorksKept
    /\ UNCHANGED <<mState, mComponentState>> => StateKept
    /\ reportError => StateKept
    /\ \A s \in ComponentState \ {"STOPPING", "UNINITIALIZED"} : SetState(s) => StateKept
<1>1. UNCHANGED loc => WorksKept
  BY DEF WorksKept
<1>2. UNCHANGED <<mState, mComponentState>> => StateKept
  BY DEF StateKept
<1>3. reportError => StateKept
  BY DEF reportError, StateKept, status
<1>4. \A s \in ComponentState \ {"STOPPING", "UNINITIALIZED"} : SetState(s) => StateKept
  BY DEF SetState, StateKept
<1> QED
  BY <1>1, <1>2, <1>3, <1>4

\* A work in the component goes to one of its later places, or leaves.
LEMMA WorkMoved ==
    ASSUME TypeOK, NEW w \in Works, NEW place, place \notin {"posted", "queue"},
           loc[w] \in InComponent, loc' = [loc EXCEPT ![w] = place]
    PROVE  WorksKept
  BY DEF TypeOK, WorksKept, InComponent

\* reportEOSWork() takes works out, and keeps the state or reports an error.
LEMMA EosReportKeeps ==
    ASSUME TypeOK, reportEOSWork
    PROVE  WorksKept /\ StateKept
<1>1. CASE In("pending") = {}
  BY <1>1, Kept DEF reportEOSWork
<1>2. CASE In("pending") # {}
  <2>1. WorksKept
    BY <1>2 DEF reportEOSWork, WorksKept, InComponent, In
  <2> QED BY <1>2, <2>1, Kept DEF reportEOSWork, status
<1> QED
  BY <1>1, <1>2

\* The client's calls keep StopInv: none is made while another waits.
LEMMA ClientStops ==
    ASSUME SerialClient, TypeOK, StopInv, Client
    PROVE  StopInv'
<1> USE HarmlessOps, Kept DEF status, thread, work, client
<1>1. ASSUME NEW w \in Works, queue_nb(w) PROVE StopInv'
  <2> DEFINE t == TaskFor("onQueueWork", w)
  <2>1. /\ tasks \in Seq(TaskSet) /\ t \in TaskSet
        /\ tasks' = Append(tasks, t) /\ t.op = "onQueueWork"
        /\ ctl = "idle" /\ mState = "RUNNING"
        /\ UNCHANGED <<ctl, mState, mComponentState>>
    BY <1>1, TaskTypes, OpsDiffer DEF queue_nb, MayQueue, Post, TypeOK, TaskFor
  <2>2. No(tasks, {"onStop"}) /\ No(tasks, {"onStart"})
    BY <2>1 DEF StopInv, StopOfStopping, StartOfStarting
  <2>3. No(tasks', {"onStop"}) /\ No(tasks', {"onStart"})
    BY <2>1, <2>2, NoAppend
  <2>4. StopLast' /\ StartOnce'
    BY <2>1, <2>2, AfterFirst DEF StopLast, StartOnce
  <2>5. PostedCarried'
    <3>1. ASSUME NEW v \in Works, v # w, loc'[v] = "posted" PROVE Carries(tasks', v)
      BY <1>1, <2>1, <3>1, CarriesAppend DEF queue_nb, StopInv, PostedCarried, TypeOK
    <3>2. Carries(tasks', w)
      BY <2>1, CarriesNew
    <3> QED BY <3>1, <3>2 DEF PostedCarried
  <2>6. mComponentState \notin {"STOPPING", "UNINITIALIZED"}
    BY <2>1 DEF StopInv, StoppingIsAlone, StoppedIsEmpty
  <2> QED
    BY <2>1, <2>3, <2>4, <2>5, <2>6
    DEF StopInv, StopOfStopping, StartOfStarting, StoppingIsAlone, StoppedIsEmpty
<1>2. ASSUME NEW mode \in DrainMode, drain_nb(mode) PROVE StopInv'
  <2>1. QueueKept
    BY <1>2, PostKeeps, TaskTypes DEF drain_nb, Task
  <2> QED BY <1>2, <2>1, KeptSteps DEF drain_nb
<1>3. CASE flush_sm
  <2>1. QueueKept
    BY <1>3, PostKeeps, TaskTypes DEF flush_sm, Task
  <2> QED BY <1>3, <2>1, KeptSteps DEF flush_sm
<1>4. CASE FlushWait
  BY <1>4, SameQueue, KeptSteps DEF FlushWait
<1>5. CASE FlushTimeout
  <2>1. QueueKept /\ WorksKept /\ StateKept
    BY <1>5, SameQueue, StateNames DEF FlushTimeout
  <2> QED BY <1>5, <2>1, KeptSteps DEF FlushTimeout
<1>6. CASE FlushReturn
  <2>1. QueueKept
    BY <1>6, PostKeeps, TaskTypes DEF FlushReturn, Task
  <2>2. WorksKept
    BY <1>6 DEF FlushReturn, Moved, WorksKept, InComponent, In
  <2> QED BY <1>6, <2>1, <2>2, KeptSteps DEF FlushReturn
<1>7. CASE start
  <2> DEFINE t == Task("onStart")
  <2>1. /\ tasks \in Seq(TaskSet) /\ t \in TaskSet
        /\ tasks' = Append(tasks, t) /\ t.op = "onStart"
        /\ ctl = "idle" /\ ctl' = "starting" /\ mState = "LOADED"
        /\ UNCHANGED <<loc, mState, mComponentState>>
    BY <1>7, TaskTypes, OpsDiffer DEF start, Post, TypeOK, Task
  <2>2. No(tasks, {"onStop"}) /\ No(tasks, {"onStart"})
    BY <2>1 DEF StopInv, StopOfStopping, StartOfStarting
  <2>3. No(tasks', {"onStop"})
    BY <2>1, <2>2, NoAppend
  <2>4. StopLast' /\ StartOnce'
    BY <2>1, <2>2, AfterFirst DEF StopLast, StartOnce
  <2>5. PostedCarried'
    BY <2>1, CarriesAppend DEF StopInv, PostedCarried
  <2> QED
    BY <2>1, <2>3, <2>4, <2>5
    DEF StopInv, StopOfStopping, StartOfStarting, StoppingIsAlone, StoppedIsEmpty
<1>8. CASE StartReturn
  <2>1. UNCHANGED <<tasks, loc, mComponentState>>
    BY <1>8 DEF StartReturn
  <2> QED
    BY <1>8, <2>1
    DEF StartReturn, StopInv, PostedCarried, StopLast, StartOnce, StopOfStopping,
        StartOfStarting, StoppingIsAlone, StoppedIsEmpty
<1>9. CASE stop
  <2> DEFINE t == Task("onStop")
  <2>1. /\ tasks \in Seq(TaskSet) /\ t \in TaskSet
        /\ tasks' = Append(tasks, t) /\ t.op = "onStop"
        /\ ctl = "idle" /\ ctl' = "stopping" /\ mState # "LOADED"
        /\ UNCHANGED <<loc, mState, mComponentState>>
    BY <1>9, TaskTypes, OpsDiffer DEF stop, Post, TypeOK, Task
  <2>2. No(tasks, {"onStop"}) /\ No(tasks, {"onStart"})
    BY <2>1 DEF StopInv, StopOfStopping, StartOfStarting
  <2>3. No(tasks', {"onStart"})
    BY <2>1, <2>2, NoAppend
  <2>4. StopLast' /\ StartOnce'
    BY <2>1, <2>2, AfterFirst DEF StopLast, StartOnce
  <2>5. PostedCarried'
    BY <2>1, CarriesAppend DEF StopInv, PostedCarried
  <2>6. mComponentState \notin {"STOPPING", "UNINITIALIZED"}
    BY <2>1 DEF StopInv, StoppingIsAlone, StoppedIsEmpty
  <2> QED
    BY <2>1, <2>3, <2>4, <2>5, <2>6
    DEF StopInv, StopOfStopping, StartOfStarting, StoppingIsAlone, StoppedIsEmpty
<1>10. CASE StopReturn
  <2>1. UNCHANGED <<tasks, loc, mComponentState>>
    BY <1>10 DEF StopReturn
  <2> QED
    BY <1>10, <2>1
    DEF StopReturn, StopInv, PostedCarried, StopLast, StartOnce, StopOfStopping,
        StartOfStarting, StoppingIsAlone, StoppedIsEmpty
<1>11. CASE release
  <2>1. QueueKept
    BY <1>11, PostKeeps, TaskTypes DEF release, Task
  <2>2. ctl = "idle" /\ ctl' = "releasing" /\ UNCHANGED <<loc, mState, mComponentState>>
    BY <1>11 DEF release
  <2> QED
    BY <2>1, <2>2
    DEF StopInv, QueueKept, PostedCarried, StopOfStopping, StartOfStarting,
        StoppingIsAlone, StoppedIsEmpty
<1> QED
  BY <1>1, <1>2, <1>3, <1>4, <1>5, <1>6, <1>7, <1>8, <1>9, <1>10, <1>11 DEF Client

\* The decoder's callbacks post harmless tasks.
LEMMA DecoderStops ==
    ASSUME TypeOK, StopInv, Decoder
    PROVE  StopInv'
<1>1. UNCHANGED <<loc, mState, mComponentState, ctl>>
  BY DEF Decoder, HalOnly, status, work, NotifyEndOfBitstreamBuffer, PictureReady, NotifyEvent,
         NotifyFlushDone, NotifyFlushOrStopDone, NotifyError
<1>2. \E t \in TaskSet : t.op \in Harmless /\ Post(t)
  <2>1. \A w \in Works : \A op \in WorkOp \cap Harmless :
            TaskFor(op, w) \in TaskSet /\ TaskFor(op, w).op \in Harmless
    BY TaskTypes DEF TaskFor
  <2>2. \A op \in (Op \ WorkOp) \cap Harmless : Task(op) \in TaskSet /\ Task(op).op \in Harmless
    BY TaskTypes DEF Task
  <2>3. ASSUME NEW w \in Works,
               NotifyEndOfBitstreamBuffer(w) \/ PictureReady(w) \/ NotifyEvent(w)
        PROVE  \E op \in WorkOp \cap Harmless : Post(TaskFor(op, w))
    BY <2>3, HarmlessOps DEF NotifyEndOfBitstreamBuffer, PictureReady, NotifyEvent
  <2>4. ASSUME NotifyFlushDone \/ NotifyFlushOrStopDone \/ NotifyError
        PROVE  \E op \in (Op \ WorkOp) \cap Harmless : Post(Task(op))
    BY <2>4, HarmlessOps DEF NotifyFlushDone, NotifyFlushOrStopDone, NotifyError
  <2> QED BY <2>1, <2>2, <2>3, <2>4 DEF Decoder
<1> QED
  BY <1>1, <1>2, PostKeeps, KeptSteps, Kept

\* The handlers that neither take works in nor let stop() return.
LEMMA OrdinaryHandlersStop ==
    ASSUME TypeOK, StopInv,
           \/ onDequeueWork \/ onInputBufferDone \/ onOutputBufferDone
           \/ sendOutputBufferToWorkIfAnyTask \/ sendOutputBufferToWorkIfAny \/ NothingToSend
           \/ onDrainDone \/ DrainDoneTail \/ onFlush \/ resetInputAndOutputBufInfo
           \/ onErrorFrame \/ onNoOutFrameNotify \/ onReportNoOutFrameFinished
           \/ ReportNoOutFrame \/ onReportError
           \/ \E mode \in DrainMode : onDrain(mode)
    PROVE  StopInv'
<1> USE HarmlessOps, Kept, KeptSteps DEF status, thread, work, client
<1>1. CASE onDequeueWork
  <2>1. ASSUME NEW w \in In("queue"), NEW outcome \in OutcomesOf(w), Dequeue(w, outcome)
        PROVE  /\ Follow(<<>>) \/ Follow(<<Task("onDequeueWork")>>)
               /\ WorksKept
               /\ mComponentState' = "DRAINING" \/ UNCHANGED mComponentState
    <3>1. w \in Works /\ loc[w] \in InComponent
      BY DEF In, InComponent
    <3>2. \E place \in {"done", "pending"} : loc' = [loc EXCEPT ![w] = place]
      BY <2>1 DEF Dequeue
    <3>3. WorksKept
      BY <3>1, <3>2, WorkMoved
    <3> QED BY <2>1, <3>3 DEF Dequeue
  <2>2. CASE mComponentState = "STARTED" /\ In("queue") # {}
    <3>1. PICK w \in In("queue") : \E outcome \in OutcomesOf(w) : Dequeue(w, outcome)
      BY <1>1, <2>2 DEF onDequeueWork
    <3>2. /\ Follow(<<>>) \/ Follow(<<Task("onDequeueWork")>>)
          /\ WorksKept /\ (mComponentState' = "DRAINING" \/ UNCHANGED mComponentState)
      BY <2>1, <3>1
    <3>3. QueueKept
      BY <1>1, <3>2, FollowKeeps DEF onDequeueWork, Run
    <3>4. StateKept /\ ctl' = ctl
      BY <1>1, <3>2 DEF onDequeueWork, StateKept
    <3> QED BY <3>2, <3>3, <3>4
  <2>3. CASE ~(mComponentState = "STARTED" /\ In("queue") # {})
    <3>1. QueueKept
      BY <1>1, <2>3, FollowKeeps DEF onDequeueWork, Run
    <3> QED BY <1>1, <2>3, <3>1 DEF onDequeueWork
  <2> QED BY <2>2, <2>3
<1>2. CASE onInputBufferDone
  <2> DEFINE w == Head(tasks).w
  <2>1. QueueKept
    BY <1>2, FollowKeeps DEF onInputBufferDone, Run
  <2>2. WorksKept
    <3>1. w \in Works
      BY <1>2, TakeType, OpsDiffer DEF onInputBufferDone, Run
    <3>2. UNCHANGED loc \/ (loc[w] \in InComponent /\ loc' = [loc EXCEPT ![w] = "done"])
      BY <1>2 DEF onInputBufferDone, reportWorkIfFinished, InComponent
    <3> QED BY <3>1, <3>2, WorkMoved
  <2>3. StateKept
    BY <1>2 DEF onInputBufferDone
  <2> QED BY <1>2, <2>1, <2>2, <2>3 DEF onInputBufferDone
<1>3. CASE onOutputBufferDone
  <2>1. QueueKept
    BY <1>3, FollowKeeps DEF onOutputBufferDone, Run
  <2> QED BY <1>3, <2>1 DEF onOutputBufferDone
<1>4. CASE sendOutputBufferToWorkIfAnyTask
  <2>1. QueueKept
    BY <1>4, FollowKeeps DEF sendOutputBufferToWorkIfAnyTask, Run
  <2> QED BY <1>4, <2>1 DEF sendOutputBufferToWorkIfAnyTask
<1>5. CASE sendOutputBufferToWorkIfAny
  <2> DEFINE w == Head(out.buffers)
  <2>1. WorksKept
    <3>1. w \in Works
      BY <1>5, OutFields DEF sendOutputBufferToWorkIfAny, TypeOK
    <3>2. UNCHANGED loc \/ (loc[w] \in InComponent /\ loc' = [loc EXCEPT ![w] = "done"])
      BY <1>5 DEF sendOutputBufferToWorkIfAny, InComponent
    <3> QED BY <3>1, <3>2, WorkMoved
  <2> QED BY <1>5, <2>1, SameQueue DEF sendOutputBufferToWorkIfAny
<1>6. CASE NothingToSend
  BY <1>6, SameQueue DEF NothingToSend
<1>7. CASE onDrainDone
  <2>1. QueueKept
    BY <1>7, FollowKeeps DEF onDrainDone, Run
  <2>2. CASE DrainMayEnd
    BY <1>7, <2>1, <2>2 DEF onDrainDone, DrainMayEnd, DrainEnds, StateKept
  <2>3. CASE ~DrainMayEnd /\ mComponentState = "STOPPING"
    BY <1>7, <2>1, <2>3, EosReportKeeps DEF onDrainDone
  <2>4. CASE ~DrainMayEnd /\ mComponentState # "STOPPING"
    BY <1>7, <2>1, <2>4 DEF onDrainDone
  <2> QED BY <2>2, <2>3, <2>4
<1>8. CASE DrainDoneTail
  <2>1. QueueKept
    BY <1>8, SameQueue, PostKeeps, TaskTypes DEF DrainDoneTail, Task
  <2> QED BY <1>8, <2>1, EosReportKeeps DEF DrainDoneTail
<1>9. CASE onFlush
  <2>1. QueueKept
    BY <1>9, FollowKeeps DEF onFlush, Run
  <2>2. StateKept
    BY <1>9, StateNames DEF onFlush
  <2> QED BY <1>9, <2>1, <2>2 DEF onFlush
<1>10. CASE resetInputAndOutputBufInfo
  BY <1>10, SameQueue DEF resetInputAndOutputBufInfo
<1>11. CASE onErrorFrame
  <2> DEFINE w == Head(tasks).w
  <2>1. QueueKept
    BY <1>11, FollowKeeps DEF onErrorFrame, Run
  <2>2. WorksKept
    <3>1. w \in Works
      BY <1>11, TakeType, OpsDiffer DEF onErrorFrame, Run
    <3>2. UNCHANGED loc \/ (loc[w] \in InComponent /\ loc' = [loc EXCEPT ![w] = "done"])
      BY <1>11 DEF onErrorFrame, reportWorkIfFinished, InComponent
    <3> QED BY <3>1, <3>2, WorkMoved
  <2>3. StateKept
    BY <1>11 DEF onErrorFrame
  <2> QED BY <1>11, <2>1, <2>2, <2>3 DEF onErrorFrame
<1>12. CASE onNoOutFrameNotify
  <2>1. QueueKept
    BY <1>12, FollowKeeps DEF onNoOutFrameNotify, Run
  <2> QED BY <1>12, <2>1 DEF onNoOutFrameNotify
<1>13. CASE onReportNoOutFrameFinished
  <2>1. QueueKept
    BY <1>13, FollowKeeps DEF onReportNoOutFrameFinished, Run
  <2> QED BY <1>13, <2>1 DEF onReportNoOutFrameFinished
<1>14. CASE ReportNoOutFrame
  <2> DEFINE w == Head(out.noOut)
  <2>1. WorksKept
    <3>1. out.noOut # <<>> => w \in Works
      BY OutFields DEF TypeOK
    <3>2. UNCHANGED loc \/ (out.noOut # <<>> /\ loc[w] \in InComponent /\ loc' = [loc EXCEPT ![w] = "done"])
      BY <1>14 DEF ReportNoOutFrame, InComponent
    <3> QED BY <3>1, <3>2, WorkMoved
  <2>2. StateKept
    <3>1. reportError \/ UNCHANGED status
      BY <1>14 DEF ReportNoOutFrame
    <3> QED BY <3>1
  <2> QED BY <1>14, <2>1, <2>2, SameQueue DEF ReportNoOutFrame
<1>15. CASE onReportError
  <2>1. QueueKept
    BY <1>15, FollowKeeps DEF onReportError, Run
  <2> QED BY <1>15, <2>1 DEF onReportError
<1>16. ASSUME NEW mode \in DrainMode, onDrain(mode) PROVE StopInv'
  <2>1. QueueKept
    BY <1>16, FollowKeeps DEF onDrain, Run
  <2>2. StateKept
    BY <1>16 DEF onDrain, StateKept
  <2> QED BY <1>16, <2>1, <2>2 DEF onDrain
<1> QED
  BY <1>1, <1>2, <1>3, <1>4, <1>5, <1>6, <1>7, <1>8, <1>9, <1>10, <1>11, <1>12, <1>13, <1>14,
     <1>15, <1>16

\* A work leaves the posted ones, for mQueue or for nowhere.
LEMMA TakingWorksStop ==
    ASSUME TypeOK, StopInv, onQueueWork \/ Skip
    PROVE  StopInv'
<1> DEFINE w == Head(tasks).w
<1>1. tasks # <<>> /\ step = "idle" /\ UNCHANGED <<mState, mComponentState, ctl>>
  BY DEF onQueueWork, Skip, Run, Take, status, client
<1>2. CASE Head(tasks).op # "onQueueWork"
  <2>1. Skip
    BY <1>2 DEF onQueueWork, Run, Take
  <2>2. PICK op \in Guarded : Take(op)
    BY <2>1 DEF Skip
  <2>3. op \in Op /\ op # "onQueueWork" /\ Follow(<<>>)
    BY <1>2, <2>1, <2>2 DEF Op, Take, Skip
  <2>4. QueueKept
    BY <2>2, <2>3, FollowKeeps, HarmlessOps
  <2>5. UNCHANGED loc
    BY <1>2, <2>1 DEF Skip
  <2> QED BY <1>1, <2>4, <2>5, Kept, KeptSteps
<1>3. CASE Head(tasks).op = "onQueueWork"
  <2>1. Take("onQueueWork") /\ w \in Works
    BY <1>1, <1>3, TakeType, OpsDiffer DEF onQueueWork, Skip, Run, Take
  <2>2. tasks \in Seq(TaskSet) /\ tasks # <<>>
    BY <1>1 DEF TypeOK
  <2>3. mComponentState # "STOPPING"
    <3>1. ~No(tasks, StopOrWork)
      BY <1>3, <2>2 DEF No, StopOrWork
    <3> QED BY <3>1 DEF StopInv, StoppingIsAlone
  <2>4. /\ \A ops \in {{"onStop"}, {"onStart"}, StopOrWork} : No(tasks, ops) => No(tasks', ops)
        /\ StopLast' /\ StartOnce'
        /\ \A v \in Works : Carries(tasks, v) /\ v # w => Carries(tasks', v)
    <3>1. Follow(<<>>) \/ Follow(<<Task("onDequeueWork")>>)
      BY DEF onQueueWork, Skip
    <3>2. \A v \in Works : v # w => Head(tasks) # TaskFor("onQueueWork", v)
      BY DEF TaskFor
    <3> QED BY <1>1, <3>1, <3>2, FollowQueue, HarmlessOps DEF StopInv
  <2>5. loc' = [loc EXCEPT ![w] = "queue"] \/ loc' = [loc EXCEPT ![w] = "destroyed"]
    BY <1>3 DEF onQueueWork, Skip
  <2>6. PostedCarried'
    BY <2>1, <2>4, <2>5 DEF StopInv, PostedCarried, TypeOK
  <2>7. StoppedIsEmpty'
    <3>1. CASE onQueueWork
      BY <1>1, <3>1 DEF onQueueWork, Run, Alive, Guarded, StoppedIsEmpty
    <3>2. CASE Skip
      <4>1. loc' = [loc EXCEPT ![w] = "destroyed"]
        BY <1>3, <3>2 DEF Skip
      <4> QED BY <1>1, <2>1, <4>1 DEF StopInv, StoppedIsEmpty, InComponent, TypeOK
    <3> QED BY <3>1, <3>2
  <2> QED
    BY <1>1, <2>3, <2>4, <2>6, <2>7
    DEF StopInv, StopOfStopping, StartOfStarting, StoppingIsAlone
<1> QED
  BY <1>2, <1>3

\* onStart(): only start() has it posted, and has it posted once.
LEMMA StartStops ==
    ASSUME TypeOK, StopInv, NEW outcome \in StartOutcomes, onStart(outcome)
    PROVE  StopInv'
<1>1. Take("onStart") /\ tasks \in Seq(TaskSet) /\ tasks # <<>> /\ Head(tasks).op = "onStart"
  BY DEF onStart, Run, Take, TypeOK
<1>2. ctl = "starting"
  <2>1. ~No(tasks, {"onStart"})
    BY <1>1 DEF No
  <2> QED BY <2>1 DEF StopInv, StartOfStarting
<1>3. QueueKept
  BY <1>1, FollowKeeps, HarmlessOps DEF onStart, Op
<1>4. No(tasks', {"onStart"})
  BY <1>1, AfterHead, FollowNothing DEF StopInv, StartOnce, onStart
<1>5. No(tasks', {"onStop"})
  BY <1>2, <1>3 DEF StopInv, StopOfStopping, QueueKept
<1>6. mComponentState' \notin {"STOPPING", "UNINITIALIZED"} /\ UNCHANGED loc
  BY DEF onStart, SetState, work
<1> QED
  BY <1>3, <1>4, <1>5, <1>6
  DEF StopInv, PostedCarried, QueueKept, StopOfStopping, StartOfStarting, StoppingIsAlone,
      StoppedIsEmpty

\* stop() is signalled when the works of the component are reported as abandoned.
LEMMA StopDoneStops ==
    ASSUME TypeOK, StopInv, QueueKept, No(tasks', StopOrWork), ctl = "stopping",
           NEW S, \A w \in Works : loc[w] \in InComponent \ {"posted"} => w \in S,
           onStopDone(S)
    PROVE  StopInv'
<1>1. ctl' = "stopped" /\ mComponentState' = "UNINITIALIZED"
  BY DEF onStopDone, SetState
<1>2. \A w \in Works : loc'[w] = "posted" => loc[w] = "posted"
  BY DEF onStopDone, reportAbandonedWorks, Moved
<1>3. PostedCarried'
  BY <1>2 DEF StopInv, PostedCarried, QueueKept
<1>4. \A w \in Works : loc'[w] # "posted"
  <2>1. \A w \in Works : ~Carries(tasks', w)
    BY DEF Carries, No, StopOrWork, TaskFor
  <2> QED BY <1>3, <2>1 DEF PostedCarried
<1>5. \A w \in Works : loc'[w] \notin InComponent
  BY <1>4 DEF onStopDone, reportAbandonedWorks, Moved, InComponent
<1>6. No(tasks', {"onStop"})
  BY DEF No, StopOrWork
<1>7. No(tasks', {"onStart"})
  BY DEF StopInv, StartOfStarting, QueueKept
<1> QED
  BY <1>1, <1>3, <1>5, <1>6, <1>7
  DEF StopInv, QueueKept, StopOfStopping, StartOfStarting, StoppingIsAlone, StoppedIsEmpty

\* onStop(): everything posted before it has been taken.
LEMMA StopStops ==
    ASSUME TypeOK, StopInv, onStop
    PROVE  StopInv'
<1>1. Take("onStop") /\ tasks \in Seq(TaskSet) /\ tasks # <<>> /\ Head(tasks).op = "onStop"
  BY DEF onStop, Run, Take, TypeOK
<1>2. ctl = "stopping"
  <2>1. ~No(tasks, {"onStop"})
    BY <1>1 DEF No
  <2> QED BY <2>1 DEF StopInv, StopOfStopping
<1>3. QueueKept
  BY <1>1, FollowKeeps, HarmlessOps DEF onStop, Op
<1>4. No(tasks', StopOrWork)
  BY <1>1, AfterHead, FollowNothing DEF StopInv, StopLast, onStop
<1>5. CASE mComponentState = "UNINITIALIZED"
  BY <1>3, <1>5, Kept, KeptSteps DEF onStop
<1>6. CASE mComponentState # "UNINITIALIZED" /\ mCompHasError
  <2> DEFINE S == In("queue") \cup In("pending") \cup In("abandoned")
  <2>1. onStopDone(S)
    BY <1>6 DEF onStop
  <2>2. \A w \in Works : loc[w] \in InComponent \ {"posted"} => w \in S
    BY DEF InComponent, In
  <2> QED BY <1>2, <1>3, <1>4, <2>1, <2>2, StopDoneStops
<1>7. CASE mComponentState # "UNINITIALIZED" /\ ~mCompHasError
  <2>1. /\ mComponentState' = "STOPPING" /\ ctl' = "stopping"
        /\ loc' = Moved(In("queue"), "abandoned")
    BY <1>2, <1>7 DEF onStop
  <2>2. \A w \in Works : (loc'[w] = "posted" => loc[w] = "posted") /\ loc'[w] # "queue"
    BY <2>1 DEF Moved, In
  <2> QED
    BY <1>2, <1>3, <1>4, <2>1, <2>2
    DEF StopInv, PostedCarried, QueueKept, StopOfStopping, StartOfStarting, StoppingIsAlone,
        StoppedIsEmpty
<1> QED
  BY <1>5, <1>6, <1>7

\* onFlushOrStopDone(), in each of its three uses.
LEMMA ResetDoneStops ==
    ASSUME TypeOK, StopInv, onFlushOrStopDone
    PROVE  StopInv'
<1>1. QueueKept
  BY FollowKeeps, HarmlessOps DEF onFlushOrStopDone, Run
<1>2. CASE mComponentState = "UNINITIALIZED"
  BY <1>1, <1>2, Kept, KeptSteps DEF onFlushOrStopDone, status
<1>3. CASE mComponentState = "FLUSHING"
  <2>1. CASE mCompHasError
    BY <1>1, <1>3, <2>1, Kept, KeptSteps DEF onFlushOrStopDone
  <2>2. CASE ~mCompHasError
    <3>1. onFlushDone /\ UNCHANGED ctl
      BY <1>3, <2>2 DEF onFlushOrStopDone
    <3>2. WorksKept
      BY <3>1 DEF onFlushDone, WorksKept, FlushedPlaces, InComponent
    <3>3. StateKept
      BY <3>1, Kept, StateNames DEF onFlushDone
    <3> QED BY <1>1, <3>1, <3>2, <3>3, KeptSteps
  <2> QED BY <2>1, <2>2
<1>4. CASE mComponentState = "STOPPING"
  <2> DEFINE S == In("pending") \cup In("abandoned")
  <2>1. onStopDone(S)
    BY <1>4 DEF onFlushOrStopDone
  <2>2. ctl = "stopping" /\ No(tasks', StopOrWork) /\ \A w \in Works : loc[w] # "queue"
    BY <1>1, <1>4 DEF StopInv, StoppingIsAlone, QueueKept
  <2>3. \A w \in Works : loc[w] \in InComponent \ {"posted"} => w \in S
    BY <2>2 DEF InComponent, In
  <2> QED BY <1>1, <2>1, <2>2, <2>3, StopDoneStops
<1>5. CASE mComponentState \notin {"UNINITIALIZED", "FLUSHING", "STOPPING"}
  BY <1>1, <1>5, Kept, KeptSteps DEF onFlushOrStopDone
<1> QED
  BY <1>2, <1>3, <1>4, <1>5

\* onDestroy() empties the task queue.
LEMMA DestroyStops ==
    ASSUME TypeOK, StopInv, onDestroy
    PROVE  StopInv'
<1>1. tasks' = <<>> /\ mComponentState' = "DESTROYED"
  BY DEF onDestroy, SetState
<1>2. \A w \in Works : loc'[w] # "posted"
  BY DEF onDestroy, Moved, In
<1>3. \A ops : No(tasks', ops)
  BY <1>1 DEF No
<1>4. StopLast' /\ StartOnce'
  BY <1>1 DEF StopLast, StartOnce, After
<1> QED
  BY <1>1, <1>2, <1>3, <1>4
  DEF StopInv, PostedCarried, StopOfStopping, StartOfStarting, StoppingIsAlone, StoppedIsEmpty

\* Nothing is posted at first.
LEMMA InitStops == Init => StopInv
  BY DEF Init, StopInv, PostedCarried, StopLast, StartOnce, StopOfStopping, StartOfStarting,
         StoppingIsAlone, StoppedIsEmpty, No, After, InComponent

\* StopInv is inductive relative to TypeOK.
LEMMA NextStops ==
    ASSUME SerialClient
    PROVE  TypeOK /\ StopInv /\ [Next]_vars => StopInv'
<1> SUFFICES ASSUME TypeOK, StopInv, [Next]_vars PROVE StopInv'
  OBVIOUS
<1>1. CASE Client
  BY <1>1, ClientStops
<1>2. CASE Handler
  BY <1>2, OrdinaryHandlersStop, TakingWorksStop, StartStops, StopStops, ResetDoneStops,
     DestroyStops
  DEF Handler
<1>3. CASE Decoder
  BY <1>3, DecoderStops
<1>4. CASE UNCHANGED vars
  BY <1>4, SameQueue, Kept, KeptSteps DEF vars, status, thread, work, client
<1> QED
  BY <1>1, <1>2, <1>3, <1>4 DEF Next

\* With a client that makes one call at a time, no work is left in the component
\* once onStopDone() has run: not in an error state, not in the middle of a drain
\* or a flush, not with works still on their way through the task queue.
THEOREM StopCorrect ==
    ASSUME SerialClient
    PROVE  Spec => []StopReturnsEverything
<1>1. Init => StopInv
  BY InitStops
<1>2. TypeOK /\ StopInv /\ [Next]_vars => StopInv'
  BY NextStops
<1>3. StopInv => StopReturnsEverything
  BY DEF StopInv, StoppedIsEmpty, StopReturnsEverything, InComponent, Held
<1> QED
  BY <1>1, <1>2, <1>3, TypeCorrect, PTL DEF Spec
-----------------------------------------------------------------------------
(* What a client that makes one call at a time may rely on while the decoder *)
(* makes no error: the component makes none either, loses no work, keeps the *)
(* input buffers the decoder reads, and implements WorkContract.             *)
(*                                                                           *)
(* First the task queue.  Answers of the decoder come in the order in which  *)
(* it gives them, so that nothing it said before a reset, or before the end  *)
(* of a drain, is found behind that answer.                                  *)

Queued(s, op) == \E i \in 1..Len(s) : s[i].op = op
Has(s, t) == \E i \in 1..Len(s) : s[i] = t
Distinct(s, op) == \A i, j \in 1..Len(s) : i < j /\ s[i].op = op /\ s[j].op = op => s[i] # s[j]

TaskOrder(s) ==
    /\ After(s, "onFlush", {"onFlush", "onQueueWork"})
    /\ After(s, "onDrainDone", {"onDrainDone", "onInputBufferDone"})
    /\ After(s, "onFlushOrStopDone", {"onFlushOrStopDone", "onDrainDone", "onInputBufferDone"})
    /\ Distinct(s, "onInputBufferDone")

\* What is left when the first task is taken.
LEMMA TailFacts ==
    ASSUME NEW s \in Seq(TaskSet), s # <<>>
    PROVE  /\ \A o : Queued(Tail(s), o) => Queued(s, o)
           /\ \A o : Queued(s, o) => o = Head(s).op \/ Queued(Tail(s), o)
           /\ \A t : Has(Tail(s), t) => Has(s, t)
           /\ Queued(s, Head(s).op) /\ Has(s, Head(s))
<1>1. \A i \in 1..Len(Tail(s)) : i + 1 \in 1..Len(s) /\ Tail(s)[i] = s[i + 1]
  OBVIOUS
<1>2. \A i \in 1..Len(s) : i = 1 \/ (i - 1 \in 1..Len(Tail(s)) /\ Tail(s)[i - 1] = s[i])
  OBVIOUS
<1>3. 1 \in 1..Len(s) /\ s[1] = Head(s)
  OBVIOUS
<1> QED
  BY <1>1, <1>2, <1>3 DEF Queued, Has

\* What there is when a task has been posted.
LEMMA AppendFacts ==
    ASSUME NEW s \in Seq(TaskSet), NEW t \in TaskSet
    PROVE  /\ \A o : Queued(Append(s, t), o) <=> Queued(s, o) \/ o = t.op
           /\ \A u : Has(Append(s, t), u) <=> Has(s, u) \/ u = t
<1> DEFINE r == Append(s, t)
<1>1. /\ \A i \in 1..Len(s) : i \in 1..Len(r) /\ r[i] = s[i]
      /\ \A i \in 1..Len(r) : (i \in 1..Len(s) /\ r[i] = s[i]) \/ r[i] = t
      /\ Len(r) \in 1..Len(r) /\ r[Len(r)] = t
  OBVIOUS
<1> HIDE DEF r
<1>2. \A o : Queued(r, o) <=> Queued(s, o) \/ o = t.op
  BY <1>1 DEF Queued
<1>3. \A u : Has(r, u) <=> Has(s, u) \/ u = t
  BY <1>1 DEF Has
<1> QED
  BY <1>2, <1>3 DEF r

\* No task for op, in the words of the proof above.
LEMMA NoneQueued ==
    ASSUME NEW s
    PROVE  /\ \A o : No(s, {o}) <=> ~Queued(s, o)
           /\ \A o, p : No(s, {o, p}) <=> ~Queued(s, o) /\ ~Queued(s, p)
           /\ \A o, p, q : No(s, {o, p, q}) <=> ~Queued(s, o) /\ ~Queued(s, p) /\ ~Queued(s, q)
  BY DEF No, Queued

\* Two different tasks stay different.
LEMMA DistinctTail ==
    ASSUME NEW s \in Seq(TaskSet), s # <<>>, NEW op, Distinct(s, op)
    PROVE  /\ Distinct(Tail(s), op)
           /\ Head(s).op = op => ~Has(Tail(s), Head(s))
  BY DEF Distinct, Has

LEMMA DistinctAppend ==
    ASSUME NEW s \in Seq(TaskSet), NEW t \in TaskSet, NEW op, Distinct(s, op),
           t.op = op => ~Has(s, t)
    PROVE  Distinct(Append(s, t), op)
  BY DEF Distinct, Has

\* Taking a task keeps the order, and what may not follow it is gone.
LEMMA OrderTail ==
    ASSUME NEW s \in Seq(TaskSet), s # <<>>, TaskOrder(s)
    PROVE  LET r == Tail(s) IN
           /\ TaskOrder(r)
           /\ Head(s).op = "onFlush" => ~Queued(r, "onFlush") /\ ~Queued(r, "onQueueWork")
           /\ Head(s).op = "onDrainDone" =>
                  ~Queued(r, "onDrainDone") /\ ~Queued(r, "onInputBufferDone")
           /\ Head(s).op = "onFlushOrStopDone" =>
                  /\ ~Queued(r, "onFlushOrStopDone") /\ ~Queued(r, "onDrainDone")
                  /\ ~Queued(r, "onInputBufferDone")
           /\ Head(s).op = "onInputBufferDone" => ~Has(r, Head(s))
<1>1. TaskOrder(Tail(s))
  BY AfterTail, DistinctTail DEF TaskOrder
<1>2. Head(s).op = "onFlush" => No(Tail(s), {"onFlush", "onQueueWork"})
  BY AfterHead DEF TaskOrder
<1>3. Head(s).op = "onDrainDone" => No(Tail(s), {"onDrainDone", "onInputBufferDone"})
  BY AfterHead DEF TaskOrder
<1>4. Head(s).op = "onFlushOrStopDone" =>
         No(Tail(s), {"onFlushOrStopDone", "onDrainDone", "onInputBufferDone"})
  BY AfterHead DEF TaskOrder
<1>5. Head(s).op = "onInputBufferDone" => ~Has(Tail(s), Head(s))
  BY DistinctTail DEF TaskOrder
<1> QED
  BY <1>1, <1>2, <1>3, <1>4, <1>5, NoneQueued

\* A task that may follow all that is queued may be posted.
LEMMA OrderAppend ==
    ASSUME NEW s \in Seq(TaskSet), NEW t \in TaskSet, TaskOrder(s),
           t.op \in {"onFlush", "onQueueWork"} => ~Queued(s, "onFlush"),
           t.op \in {"onDrainDone", "onInputBufferDone"} =>
               ~Queued(s, "onDrainDone") /\ ~Queued(s, "onFlushOrStopDone"),
           t.op = "onFlushOrStopDone" => ~Queued(s, "onFlushOrStopDone"),
           t.op = "onInputBufferDone" => ~Has(s, t)
    PROVE  TaskOrder(Append(s, t))
<1> DEFINE r == Append(s, t)
<1>1. After(r, "onFlush", {"onFlush", "onQueueWork"})
  BY AfterAppend, AfterFirst, NoneQueued DEF TaskOrder
<1>2. After(r, "onDrainDone", {"onDrainDone", "onInputBufferDone"})
  BY AfterAppend, AfterFirst, NoneQueued DEF TaskOrder
<1>3. After(r, "onFlushOrStopDone", {"onFlushOrStopDone", "onDrainDone", "onInputBufferDone"})
  BY AfterAppend, AfterFirst, NoneQueued DEF TaskOrder
<1>4. Distinct(r, "onInputBufferDone")
  BY DistinctAppend DEF TaskOrder
<1> QED
  BY <1>1, <1>2, <1>3, <1>4 DEF TaskOrder

Returning(w) == Has(tasks, TaskFor("onInputBufferDone", w))

Plain == {"onDequeueWork", "sendOutputBufferToWorkIfAnyTask", "onDrainWithEos", "onDrainNoEos",
          "onOutputBufferDone", "onErrorFrame", "onStart", "onStop"}

\* What a step does to the queue that neither posts nor takes one of the others.
QueueCalm ==
    /\ TaskOrder(tasks)'
    /\ \A o : Queued(tasks', o) => Queued(tasks, o) \/ o \in Plain
    /\ \A o \in {"onFlush", "onFlushOrStopDone"} : Queued(tasks, o) => Queued(tasks', o)
    /\ \A w : Returning(w)' => Returning(w)

\* A step that leaves the queue alone,
LEMMA SameCalm ==
    ASSUME TaskOrder(tasks), tasks' = tasks
    PROVE  QueueCalm
  BY DEF QueueCalm, Returning

\* or posts a task that may come at any time,
LEMMA PostCalm ==
    ASSUME TypeOK, TaskOrder(tasks), NEW t \in TaskSet, t.op \in Plain, Post(t)
    PROVE  QueueCalm
<1>1. tasks \in Seq(TaskSet) /\ tasks' = Append(tasks, t)
  BY DEF TypeOK, Post
<1>2. /\ t.op \notin {"onFlush", "onQueueWork"}
      /\ t.op \notin {"onDrainDone", "onInputBufferDone"}
      /\ t.op # "onFlushOrStopDone"
  BY DEF Plain
<1>3. TaskOrder(tasks')
  BY <1>1, <1>2, OrderAppend
<1>4. \A w : t # TaskFor("onInputBufferDone", w)
  BY <1>2 DEF TaskFor
<1> QED
  BY <1>1, <1>2, <1>3, <1>4, AppendFacts DEF QueueCalm, Returning

\* What a handler does to the queue.
LEMMA FollowFacts ==
    ASSUME TypeOK, TaskOrder(tasks), NEW op, Take(op),
           Follow(<<>>) \/ \E next \in (Op \ WorkOp) \cap Plain : Follow(<<Task(next)>>)
    PROVE  /\ TaskOrder(tasks')
           /\ \A o : Queued(tasks', o) => Queued(tasks, o) \/ o \in Plain
           /\ \A o : Queued(tasks, o) => o = op \/ Queued(tasks', o)
           /\ \A w : Returning(w)' => Returning(w)
           /\ op = "onFlush" => ~Queued(tasks', "onFlush") /\ ~Queued(tasks', "onQueueWork")
           /\ op = "onDrainDone" =>
                  ~Queued(tasks', "onDrainDone") /\ ~Queued(tasks', "onInputBufferDone")
           /\ op = "onFlushOrStopDone" =>
                  /\ ~Queued(tasks', "onFlushOrStopDone") /\ ~Queued(tasks', "onDrainDone")
                  /\ ~Queued(tasks', "onInputBufferDone")
           /\ op = "onInputBufferDone" => ~Has(tasks', Head(tasks))
           /\ Queued(tasks, op) /\ Has(tasks, Head(tasks))
<1>1. tasks \in Seq(TaskSet) /\ tasks # <<>> /\ Head(tasks).op = op
  BY DEF TypeOK, Take
<1> DEFINE r == Tail(tasks)
<1>2. r \in Seq(TaskSet)
  BY <1>1
<1>3. /\ TaskOrder(r)
      /\ \A o : Queued(r, o) => Queued(tasks, o)
      /\ \A o : Queued(tasks, o) => o = op \/ Queued(r, o)
      /\ \A t : Has(r, t) => Has(tasks, t)
      /\ op = "onFlush" => ~Queued(r, "onFlush") /\ ~Queued(r, "onQueueWork")
      /\ op = "onDrainDone" => ~Queued(r, "onDrainDone") /\ ~Queued(r, "onInputBufferDone")
      /\ op = "onFlushOrStopDone" =>
             /\ ~Queued(r, "onFlushOrStopDone") /\ ~Queued(r, "onDrainDone")
             /\ ~Queued(r, "onInputBufferDone")
      /\ op = "onInputBufferDone" => ~Has(r, Head(tasks))
      /\ Queued(tasks, op) /\ Has(tasks, Head(tasks))
  BY <1>1, OrderTail, TailFacts
<1>4. CASE Follow(<<>>)
  <2>1. tasks' = r
    BY <1>1, <1>4, FollowNothing
  <2> HIDE DEF r
  <2> QED BY <1>3, <2>1 DEF Returning
<1>5. ASSUME NEW next \in (Op \ WorkOp) \cap Plain, Follow(<<Task(next)>>)
      PROVE  /\ tasks' = Append(r, Task(next)) /\ TaskOrder(tasks')
             /\ \A o : Queued(tasks', o) <=> Queued(r, o) \/ o = next
             /\ \A t : Has(tasks', t) <=> Has(r, t) \/ t = Task(next)
  <2>1. Task(next) \in TaskSet /\ Task(next).op = next
    BY TaskTypes DEF Task
  <2>2. tasks' = Append(r, Task(next))
    BY <1>1, <1>5, <2>1, FollowOne
  <2> HIDE DEF r
  <2>3. TaskOrder(tasks')
    <3>1. /\ next \notin {"onFlush", "onQueueWork"}
          /\ next \notin {"onDrainDone", "onInputBufferDone"}
          /\ next # "onFlushOrStopDone"
      BY DEF Plain
    <3> QED BY <1>2, <1>3, <2>1, <2>2, <3>1, OrderAppend
  <2> QED BY <1>2, <2>1, <2>2, <2>3, AppendFacts
<1>6. CASE \E next \in (Op \ WorkOp) \cap Plain : Follow(<<Task(next)>>)
  <2>1. PICK next \in (Op \ WorkOp) \cap Plain : Follow(<<Task(next)>>)
    BY <1>6
  <2> HIDE DEF r
  <2>2. /\ TaskOrder(tasks')
        /\ \A o : Queued(tasks', o) <=> Queued(r, o) \/ o = next
        /\ \A t : Has(tasks', t) <=> Has(r, t) \/ t = Task(next)
    BY <1>5, <2>1
  <2>3. next \in Plain /\ next \notin {"onFlush", "onQueueWork", "onDrainDone", "onInputBufferDone", "onFlushOrStopDone"}
    BY DEF Plain
  <2>4. \A w : Task(next) # TaskFor("onInputBufferDone", w)
    BY <2>3 DEF Task, TaskFor
  <2>5. op = "onInputBufferDone" => Head(tasks) # Task(next)
    BY <1>1, <2>3 DEF Task
  <2> QED BY <1>3, <2>2, <2>3, <2>4, <2>5 DEF Returning
<1> QED
  BY <1>4, <1>6

\* A handler of another task is calm.
LEMMA FollowCalm ==
    ASSUME TypeOK, TaskOrder(tasks), NEW op, Take(op), op \notin {"onFlush", "onFlushOrStopDone"},
           Follow(<<>>) \/ \E next \in (Op \ WorkOp) \cap Plain : Follow(<<Task(next)>>)
    PROVE  QueueCalm
  BY FollowFacts DEF QueueCalm

-----------------------------------------------------------------------------
(* The decoder says at most once that it cannot decode a frame, and then it   *)
(* makes no picture of it: so there are no more error frames in a row than    *)
(* works flagged for them.                                                   *)

\* A work that has come to the decoder, has a picture, or has failed.
Begun(w)    == loc[w] \notin {"client", "posted", "queue"}
Sending(w)  == \E i \in 1..Len(out.buffers) : out.buffers[i] = w
Pictured(w) == \/ hal.owes[w] \in {"picture", "twoPictures"}
               \/ Has(tasks, TaskFor("onOutputBufferDone", w))
               \/ Sending(w)
Failing(w)  == hal.owes[w] = "errorFrame" \/ Has(tasks, TaskFor("onErrorFrame", w))

FrameInv ==
    /\ out.errorFrames <= Cardinality(ready)
    /\ \A w \in ready : Begun(w)
    /\ Distinct(tasks, "onErrorFrame") /\ Distinct(tasks, "onQueueWork")
    /\ \A w \in Works : Carries(tasks, w) => loc[w] = "posted"
    /\ \A w \in Works : Pictured(w) => Begun(w)
    /\ \A w \in Works : Failing(w) => w \notin ready /\ Begun(w) /\ ~Pictured(w)
    /\ \A w \in Works : Failing(w) => "errorFrame" \in HalOutcomes
    /\ \A w \in Works : hal.owes[w] = "noOutFrame" => "noOutFrame" \in HalOutcomes
    /\ \A w \in Works : hal.owes[w] = "errorFrame" => ~Has(tasks, TaskFor("onErrorFrame", w))

FrameOps == {"onErrorFrame", "onQueueWork", "onOutputBufferDone"}

\* Steps that begin no frame and make nothing of one.
FrameQueue ==
    /\ Distinct(tasks', "onErrorFrame") /\ Distinct(tasks', "onQueueWork")
    /\ \A op \in FrameOps : \A w \in Works :
           Has(tasks', TaskFor(op, w)) => Has(tasks, TaskFor(op, w))
WorksGoOn ==
    \A w \in Works : loc'[w] = loc[w] \/ (~Carries(tasks', w) /\ (Begun(w) => Begun(w)'))
FramesKept ==
    /\ \A w \in Works : hal'.owes[w] \in {hal.owes[w], "nothing"} /\ (Sending(w)' => Sending(w))
    /\ ready' = ready \/ \E w \in Works : Sending(w) /\ ready' = ready \cup {w}
    /\ out'.errorFrames = out.errorFrames \/ out'.errorFrames = 0

\* The works are finitely many.
LEMMA WorksFinite == \A S \in SUBSET Works : IsFiniteSet(S) /\ Cardinality(S) \in Nat
                                             /\ Cardinality(S) <= NumWorks
<1>1. IsFiniteSet(Works) /\ Cardinality(Works) = NumWorks
  <2>1. 1 \in Int /\ NumWorks \in Int
    BY WorksAssumption
  <2>2. Cardinality(1..NumWorks) = NumWorks
    BY <2>1, FS_Interval, WorksAssumption
  <2> QED BY <2>1, <2>2, FS_Interval DEF Works
<1> QED
  BY <1>1, FS_Subset, FS_CardinalityType

\* Such a step keeps FrameInv.
LEMMA FrameKept ==
    ASSUME TypeOK, FrameInv, TypeOK', FrameQueue, WorksGoOn, FramesKept
    PROVE  FrameInv'
<1>1. \A w \in Works : /\ Begun(w) => Begun(w)'
                       /\ Pictured(w)' => Pictured(w)
                       /\ Failing(w)' => Failing(w)
  <2> SUFFICES ASSUME NEW w \in Works
               PROVE  /\ Begun(w) => Begun(w)'
                      /\ Pictured(w)' => Pictured(w)
                      /\ Failing(w)' => Failing(w)
    OBVIOUS
  <2>1. Begun(w) => Begun(w)'
    BY DEF WorksGoOn, Begun
  <2>2. hal'.owes[w] = hal.owes[w] \/ hal'.owes[w] = "nothing"
    BY DEF FramesKept
  <2>3. Pictured(w)' => Pictured(w)
    BY <2>2 DEF FramesKept, FrameQueue, FrameOps, Pictured
  <2>4. Failing(w)' => Failing(w)
    BY <2>2 DEF FrameQueue, FrameOps, Failing
  <2> QED BY <2>1, <2>3, <2>4
<1>2. ready \subseteq ready' /\ ready' \subseteq Works
      /\ \A w \in ready' : w \in ready \/ Sending(w)
  BY DEF FramesKept, TypeOK
<1>3. (out.errorFrames <= Cardinality(ready))'
  <2>1. IsFiniteSet(ready') /\ Cardinality(ready') \in Nat /\ Cardinality(ready) \in Nat
    BY <1>2, WorksFinite DEF TypeOK
  <2>2. Cardinality(ready) <= Cardinality(ready')
    BY <1>2, <2>1, FS_Subset
  <2>3. out.errorFrames \in Nat
    BY OutFields DEF TypeOK
  <2> QED BY <2>1, <2>2, <2>3 DEF FrameInv, FramesKept
<1>4. \A w \in ready' : Begun(w)'
  BY <1>1, <1>2 DEF FrameInv, Pictured
<1>5. Distinct(tasks', "onErrorFrame") /\ Distinct(tasks', "onQueueWork")
  BY DEF FrameQueue
<1>6. \A w \in Works : Carries(tasks', w) => loc'[w] = "posted"
  <2> SUFFICES ASSUME NEW w \in Works, Carries(tasks', w) PROVE loc'[w] = "posted"
    OBVIOUS
  <2>1. Carries(tasks, w)
    BY DEF FrameQueue, FrameOps, Carries, Has
  <2> QED BY <2>1 DEF WorksGoOn, FrameInv
<1>7. \A w \in Works : Pictured(w)' => Begun(w)'
  BY <1>1 DEF FrameInv
<1>8. \A w \in Works : Failing(w)' => w \notin ready' /\ Begun(w)' /\ ~Pictured(w)'
  BY <1>1, <1>2 DEF FrameInv, Pictured
<1>9. \A w \in Works : hal'.owes[w] = "errorFrame" => ~Has(tasks', TaskFor("onErrorFrame", w))
  BY DEF FrameInv, FramesKept, FrameQueue, FrameOps
<1>10. \A w \in Works : (Failing(w)' => "errorFrame" \in HalOutcomes)
                         /\ (hal'.owes[w] = "noOutFrame" => "noOutFrame" \in HalOutcomes)
  BY <1>1 DEF FrameInv, FramesKept
<1> QED
  BY <1>3, <1>4, <1>5, <1>6, <1>7, <1>8, <1>9, <1>10 DEF FrameInv

\* The task that a handler for a work has taken.
LEMMA HeadIs ==
    ASSUME TypeOK, NEW op \in WorkOp, Take(op)
    PROVE  Head(tasks).w \in Works /\ Head(tasks) = TaskFor(op, Head(tasks).w)
<1>1. Head(tasks) \in TaskSet /\ Head(tasks).op = op /\ Head(tasks).w \in Works
  BY HeadType, TakeType DEF Take, TypeOK
<1> QED
  BY <1>1 DEF TaskSet, TaskFor

\* Posting another task,
LEMMA FramePost ==
    ASSUME TypeOK, FrameInv, NEW t \in TaskSet, t.op \notin FrameOps, Post(t)
    PROVE  FrameQueue
<1>1. tasks \in Seq(TaskSet) /\ tasks' = Append(tasks, t)
  BY DEF TypeOK, Post
<1>2. t.op # "onErrorFrame" /\ t.op # "onQueueWork"
  BY DEF FrameOps
<1>3. Distinct(tasks', "onErrorFrame") /\ Distinct(tasks', "onQueueWork")
  BY <1>1, <1>2, DistinctAppend DEF FrameInv
<1>4. \A op \in FrameOps : \A w : t # TaskFor(op, w)
  BY DEF TaskFor
<1> QED
  BY <1>1, <1>3, <1>4, AppendFacts DEF FrameQueue

\* or none, or taking one,
LEMMA FrameFollow ==
    ASSUME TypeOK, FrameInv, NEW op, Take(op),
           Follow(<<>>) \/ \E next \in Op \ WorkOp : Follow(<<Task(next)>>)
    PROVE  /\ FrameQueue
           /\ op \in {"onErrorFrame", "onQueueWork"} => ~Has(tasks', Head(tasks))
           /\ Has(tasks, Head(tasks))
<1>1. tasks \in Seq(TaskSet) /\ tasks # <<>> /\ Head(tasks).op = op
  BY DEF TypeOK, Take
<1> DEFINE r == Tail(tasks)
<1>2. r \in Seq(TaskSet)
  BY <1>1
<1>3. /\ Distinct(r, "onErrorFrame") /\ Distinct(r, "onQueueWork")
      /\ op \in {"onErrorFrame", "onQueueWork"} => ~Has(r, Head(tasks))
      /\ \A t : Has(r, t) => Has(tasks, t)
      /\ Has(tasks, Head(tasks))
  BY <1>1, DistinctTail, TailFacts DEF FrameInv
<1>4. CASE Follow(<<>>)
  <2>1. tasks' = r
    BY <1>1, <1>4, FollowNothing
  <2> HIDE DEF r
  <2> QED BY <1>3, <2>1 DEF FrameQueue
<1>5. ASSUME NEW next \in Op \ WorkOp, Follow(<<Task(next)>>)
      PROVE  FrameQueue /\ (op \in {"onErrorFrame", "onQueueWork"} => ~Has(tasks', Head(tasks)))
  <2>1. Task(next) \in TaskSet /\ Task(next).op = next
    BY TaskTypes DEF Task
  <2>2. tasks' = Append(r, Task(next))
    BY <1>1, <1>5, <2>1, FollowOne
  <2>3. next # "onErrorFrame" /\ next # "onQueueWork" /\ next # "onOutputBufferDone"
    BY DEF WorkOp
  <2> HIDE DEF r
  <2>4. Distinct(tasks', "onErrorFrame") /\ Distinct(tasks', "onQueueWork")
    BY <1>2, <1>3, <2>1, <2>2, <2>3, DistinctAppend
  <2>5. \A o \in FrameOps : \A w : Task(next) # TaskFor(o, w)
    BY <2>3 DEF Task, TaskFor, FrameOps
  <2>6. op \in {"onErrorFrame", "onQueueWork"} => Head(tasks) # Task(next)
    BY <1>1, <2>1, <2>3
  <2>7. \A t : Has(tasks', t) <=> Has(r, t) \/ t = Task(next)
    BY <1>2, <2>1, <2>2, AppendFacts
  <2> QED BY <1>3, <2>4, <2>5, <2>6, <2>7 DEF FrameQueue
<1> QED
  BY <1>3, <1>4, <1>5

\* Steps that leave the decoder and the output alone, or only reset them,
LEMMA OutKept ==
    ASSUME TypeOK, UNCHANGED ready,
           \/ UNCHANGED out
           \/ out' = [out EXCEPT !.eos = FALSE, !.buffers = <<>>, !.noOut = <<>>, !.sent = {}]
           \/ out' = [out EXCEPT !.buffers = <<>>, !.sent = {}]
           \/ out' = [out EXCEPT !.buffers = <<>>, !.sent = {}, !.noOut = <<>>]
           \/ out' = [out EXCEPT !.last = 0]
           \/ out' = [out EXCEPT !.errorFrames = 0]
           \/ out' = [out EXCEPT !.eos = FALSE]
           \/ out' = [out EXCEPT !.eos = TRUE]
           \/ out' = [out EXCEPT !.noOut = Append(@, Head(tasks).w)]
           \/ out' = [out EXCEPT !.noOut = Tail(@)],
           UNCHANGED hal \/ hal' = IdleHal
             \/ (\A w \in Works : hal'.owes[w] = hal.owes[w])
    PROVE  FramesKept
<1>1. out \in OutSet
  BY DEF TypeOK
<1>2. /\ out'.buffers = out.buffers \/ out'.buffers = <<>>
      /\ out'.errorFrames = out.errorFrames \/ out'.errorFrames = 0
  BY <1>1 DEF OutSet
<1>3. \A w \in Works : Sending(w)' => Sending(w)
  BY <1>2 DEF Sending
<1>4. \A w \in Works : hal'.owes[w] \in {hal.owes[w], "nothing"}
  BY DEF IdleHal
<1> QED
  BY <1>2, <1>3, <1>4 DEF FramesKept

\* The client's calls begin and end no frame.
LEMMA ClientFrames ==
    ASSUME TypeOK, FrameInv, TypeOK', Client
    PROVE  FrameInv'
<1> USE DEF status, thread, work, client
<1>0. tasks \in Seq(TaskSet)
  BY DEF TypeOK
<1>1. ASSUME NEW w \in Works, queue_nb(w) PROVE FrameInv'
  <2> DEFINE t == TaskFor("onQueueWork", w)
  <2>1. t \in TaskSet /\ t.op = "onQueueWork" /\ tasks' = Append(tasks, t)
    BY <1>1, TaskTypes, OpsDiffer DEF queue_nb, Post, TaskFor
  <2>2. loc[w] = "client" /\ loc' = [loc EXCEPT ![w] = "posted"]
    BY <1>1 DEF queue_nb, First, In
  <2>3. ~Has(tasks, t)
    BY <2>2 DEF FrameInv, Carries, Has
  <2>4. Distinct(tasks', "onErrorFrame") /\ Distinct(tasks', "onQueueWork")
    BY <1>0, <2>1, <2>3, DistinctAppend DEF FrameInv
  <2>5. /\ \A v : Has(tasks', TaskFor("onErrorFrame", v)) <=> Has(tasks, TaskFor("onErrorFrame", v))
        /\ \A v : Has(tasks', TaskFor("onOutputBufferDone", v))
                     <=> Has(tasks, TaskFor("onOutputBufferDone", v))
        /\ \A v : Has(tasks', TaskFor("onQueueWork", v))
                     => Has(tasks, TaskFor("onQueueWork", v)) \/ v = w
    BY <1>0, <2>1, AppendFacts DEF TaskFor
  <2>6. UNCHANGED <<hal, out, ready>> /\ \A v \in Works : Begun(v)' <=> Begun(v)
    BY <1>1, <2>2 DEF queue_nb, Begun, TypeOK
  <2>7. \A v \in Works : (Pictured(v)' <=> Pictured(v)) /\ (Failing(v)' <=> Failing(v))
    BY <2>5, <2>6 DEF Pictured, Failing, Sending
  <2>8. \A v \in Works : Carries(tasks', v) => loc'[v] = "posted"
    BY <2>2, <2>5 DEF FrameInv, Carries, Has, TypeOK
  <2>9. \A v \in ready : v \in Works
    BY DEF TypeOK
  <2> QED BY <2>4, <2>5, <2>6, <2>7, <2>8, <2>9 DEF FrameInv
<1>2. ASSUME NEW mode \in DrainMode, drain_nb(mode) PROVE FrameInv'
  <2>1. FrameQueue
    BY <1>2, FramePost, TaskTypes, OpsDiffer DEF drain_nb, Task, FrameOps
  <2>2. FramesKept /\ WorksGoOn
    BY <1>2, OutKept DEF drain_nb, WorksGoOn
  <2> QED BY <2>1, <2>2, FrameKept
<1>3. CASE flush_sm
  <2>1. FrameQueue
    BY <1>3, FramePost, TaskTypes, OpsDiffer DEF flush_sm, Task, FrameOps
  <2>2. FramesKept /\ WorksGoOn
    BY <1>3, OutKept DEF flush_sm, WorksGoOn
  <2> QED BY <2>1, <2>2, FrameKept
<1>4. ASSUME UNCHANGED <<tasks, loc, ready, out, hal>> PROVE FrameInv'
  BY <1>4 DEF FrameInv, Begun, Pictured, Failing, Sending
<1>5. CASE FlushReturn
  <2>1. FrameQueue
    BY <1>5, FramePost, TaskTypes, OpsDiffer DEF FlushReturn, Task, FrameOps
  <2>2. FramesKept
    BY <1>5, OutKept DEF FlushReturn
  <2>3. WorksGoOn
    <3>1. \A w \in Works : Carries(tasks', w) => loc[w] = "posted"
      BY <2>1 DEF FrameQueue, FrameOps, FrameInv, Carries, Has
    <3> QED BY <1>5, <3>1 DEF FlushReturn, Moved, In, WorksGoOn, Begun
  <2> QED BY <2>1, <2>2, <2>3, FrameKept
<1>6. CASE start
  <2>1. FrameQueue
    BY <1>6, FramePost, TaskTypes, OpsDiffer DEF start, Task, FrameOps
  <2>2. FramesKept /\ WorksGoOn
    BY <1>6, OutKept DEF start, WorksGoOn
  <2> QED BY <2>1, <2>2, FrameKept
<1>7. CASE stop
  <2>1. FrameQueue
    BY <1>7, FramePost, TaskTypes, OpsDiffer DEF stop, Task, FrameOps
  <2>2. FramesKept /\ WorksGoOn
    BY <1>7, OutKept DEF stop, WorksGoOn
  <2> QED BY <2>1, <2>2, FrameKept
<1>8. CASE release
  <2>1. FrameQueue
    BY <1>8, FramePost, TaskTypes, OpsDiffer DEF release, Task, FrameOps
  <2>2. FramesKept /\ WorksGoOn
    BY <1>8, OutKept DEF release, WorksGoOn
  <2> QED BY <2>1, <2>2, FrameKept
<1>9. CASE FlushWait \/ FlushTimeout \/ StartReturn \/ StopReturn
  BY <1>4, <1>9 DEF FlushWait, FlushTimeout, StartReturn, StopReturn
<1> QED
  BY <1>1, <1>2, <1>3, <1>5, <1>6, <1>7, <1>8, <1>9 DEF Client

\* The decoder posts what it has made of a frame, once.
LEMMA DecoderFrames ==
    ASSUME TypeOK, FrameInv, TypeOK', Decoder
    PROVE  FrameInv'
<1> USE DEF status, thread, work, client, HalOnly
<1>0. tasks \in Seq(TaskSet) /\ hal \in HalSet
  BY DEF TypeOK
<1>1. ASSUME NEW w \in Works, NotifyEndOfBitstreamBuffer(w) PROVE FrameInv'
  <2>1. FrameQueue
    BY <1>1, FramePost, TaskTypes, OpsDiffer DEF NotifyEndOfBitstreamBuffer, TaskFor, FrameOps
  <2>2. FramesKept /\ WorksGoOn
    BY <1>0, <1>1, OutKept DEF NotifyEndOfBitstreamBuffer, WorksGoOn, HalSet
  <2> QED BY <2>1, <2>2, FrameKept
<1>2. ASSUME NEW w \in Works, PictureReady(w) PROVE FrameInv'
  <2> DEFINE t == TaskFor("onOutputBufferDone", w)
  <2>1. t \in TaskSet /\ t.op = "onOutputBufferDone" /\ tasks' = Append(tasks, t)
    BY <1>2, TaskTypes, OpsDiffer DEF PictureReady, Post, TaskFor
  <2>2. Distinct(tasks', "onErrorFrame") /\ Distinct(tasks', "onQueueWork")
    BY <1>0, <2>1, DistinctAppend DEF FrameInv
  <2>3. /\ \A v : Has(tasks', TaskFor("onErrorFrame", v)) <=> Has(tasks, TaskFor("onErrorFrame", v))
        /\ \A v : Has(tasks', TaskFor("onQueueWork", v)) <=> Has(tasks, TaskFor("onQueueWork", v))
        /\ \A v : Has(tasks', TaskFor("onOutputBufferDone", v))
                     => Has(tasks, TaskFor("onOutputBufferDone", v)) \/ v = w
    BY <1>0, <2>1, AppendFacts DEF TaskFor
  <2>4. UNCHANGED <<loc, out, ready>>
    BY <1>2 DEF PictureReady
  <2>5. /\ hal.owes[w] \in {"picture", "twoPictures"} /\ hal'.owes[w] \in {"picture", "nothing"}
        /\ \A v \in Works \ {w} : hal'.owes[v] = hal.owes[v]
    BY <1>0, <1>2 DEF PictureReady, HalSet
  <2>6. \A v \in Works : (Pictured(v)' => Pictured(v)) /\ (Failing(v)' <=> Failing(v))
    BY <2>3, <2>4, <2>5 DEF Pictured, Failing, Sending
  <2>7. \A v \in Works : Begun(v)' <=> Begun(v)
    BY <2>4 DEF Begun
  <2>8. \A v \in Works : Carries(tasks', v) <=> Carries(tasks, v)
    BY <2>3 DEF Carries, Has
  <2>9. \A v \in ready : v \in Works
    BY DEF TypeOK
  <2> QED BY <2>2, <2>3, <2>4, <2>5, <2>6, <2>7, <2>8, <2>9 DEF FrameInv
<1>3. ASSUME NEW w \in Works, NotifyEvent(w) PROVE FrameInv'
  <2>0. hal' = [hal EXCEPT !.owes[w] = "nothing"] /\ UNCHANGED <<loc, out, ready>>
    BY <1>3 DEF NotifyEvent
  <2>1. CASE hal.owes[w] # "errorFrame"
    <3>1. FrameQueue
      BY <1>3, <2>1, FramePost, TaskTypes, OpsDiffer DEF NotifyEvent, TaskFor, FrameOps
    <3>2. \A v \in Works : hal'.owes[v] \in {hal.owes[v], "nothing"}
      BY <1>0, <2>0 DEF HalSet
    <3>3. FramesKept /\ WorksGoOn
      BY <2>0, <3>2 DEF FramesKept, WorksGoOn, Sending
    <3> QED BY <3>1, <3>3, FrameKept
  <2>2. CASE hal.owes[w] = "errorFrame"
    <3> DEFINE t == TaskFor("onErrorFrame", w)
    <3>1. t \in TaskSet /\ t.op = "onErrorFrame" /\ tasks' = Append(tasks, t)
      BY <1>3, <2>2, TaskTypes, OpsDiffer DEF NotifyEvent, Post, TaskFor
    <3>2. ~Has(tasks, t)
      BY <2>2 DEF FrameInv
    <3>3. Distinct(tasks', "onErrorFrame") /\ Distinct(tasks', "onQueueWork")
      BY <1>0, <3>1, <3>2, DistinctAppend DEF FrameInv
    <3>4. /\ \A v : Has(tasks', TaskFor("onOutputBufferDone", v))
                       <=> Has(tasks, TaskFor("onOutputBufferDone", v))
          /\ \A v : Has(tasks', TaskFor("onQueueWork", v)) <=> Has(tasks, TaskFor("onQueueWork", v))
          /\ \A v : Has(tasks', TaskFor("onErrorFrame", v))
                       => Has(tasks, TaskFor("onErrorFrame", v)) \/ v = w
      BY <1>0, <3>1, AppendFacts DEF TaskFor
    <3>5. hal'.owes[w] = "nothing" /\ \A v \in Works \ {w} : hal'.owes[v] = hal.owes[v]
      BY <1>0, <2>0 DEF HalSet
    <3>6. \A v \in Works : (Pictured(v)' => Pictured(v)) /\ (Failing(v)' => Failing(v))
      BY <2>0, <2>2, <3>4, <3>5 DEF Pictured, Failing, Sending
    <3>7. \A v \in Works : Begun(v)' <=> Begun(v)
      BY <2>0 DEF Begun
    <3>8. \A v \in Works : Carries(tasks', v) <=> Carries(tasks, v)
      BY <3>4 DEF Carries, Has
    <3>9. \A v \in ready : v \in Works
      BY DEF TypeOK
    <3> QED BY <2>0, <3>3, <3>4, <3>5, <3>6, <3>7, <3>8, <3>9 DEF FrameInv
  <2> QED BY <2>1, <2>2
<1>4. CASE NotifyFlushDone
  <2>1. FrameQueue
    BY <1>4, FramePost, TaskTypes, OpsDiffer DEF NotifyFlushDone, Task, FrameOps
  <2>2. FramesKept /\ WorksGoOn
    BY <1>0, <1>4, OutKept DEF NotifyFlushDone, WorksGoOn, HalSet
  <2> QED BY <2>1, <2>2, FrameKept
<1>5. CASE NotifyFlushOrStopDone
  <2>1. FrameQueue
    BY <1>5, FramePost, TaskTypes, OpsDiffer DEF NotifyFlushOrStopDone, Task, FrameOps
  <2>2. \A w \in Works : hal'.owes[w] = "nothing"
    BY <1>5 DEF NotifyFlushOrStopDone, IdleHal
  <2>3. FramesKept /\ WorksGoOn
    BY <1>5, <2>2 DEF NotifyFlushOrStopDone, WorksGoOn, FramesKept, Sending
  <2> QED BY <2>1, <2>3, FrameKept
<1>6. CASE NotifyError
  <2>1. FrameQueue
    BY <1>6, FramePost, TaskTypes, OpsDiffer DEF NotifyError, Task, FrameOps
  <2>2. FramesKept /\ WorksGoOn
    BY <1>6, OutKept DEF NotifyError, WorksGoOn
  <2> QED BY <2>1, <2>2, FrameKept
<1> QED
  BY <1>1, <1>2, <1>3, <1>4, <1>5, <1>6 DEF Decoder

\* A work that is not posted goes on without its task.
LEMMA GoesOn ==
    ASSUME FrameInv, FrameQueue,
           \A w \in Works : loc'[w] = loc[w] \/ (loc[w] # "posted" /\ Begun(w)')
    PROVE  WorksGoOn
<1>1. \A w \in Works : Carries(tasks', w) => loc[w] = "posted"
  BY DEF FrameQueue, FrameOps, FrameInv, Carries, Has
<1> QED
  BY <1>1 DEF WorksGoOn

\* reportEOSWork() reports works that have begun.
LEMMA EosReportFrames ==
    ASSUME TypeOK, FrameInv, UNCHANGED <<ready, hal>>,
           \/ reportEOSWork
           \/ UNCHANGED <<loc, out>>
    PROVE  /\ FramesKept
           /\ FrameQueue => WorksGoOn
<1>1. FramesKept
  BY OutKept DEF reportEOSWork
<1>2. \A w \in Works : loc'[w] = loc[w] \/ (loc[w] # "posted" /\ Begun(w)')
  BY DEF reportEOSWork, In, Begun
<1> QED
  BY <1>1, <1>2, GoesOn

\* onDequeueWork(): the decoder gets a frame of which it has made nothing.
LEMMA DequeueFrames ==
    ASSUME TypeOK, FrameInv, TypeOK', onDequeueWork
    PROVE  FrameInv'
<1>1. Take("onDequeueWork") /\ UNCHANGED ready
  BY DEF onDequeueWork, Run
<1>2. CASE mComponentState = "STARTED" /\ In("queue") # {}
  <2>1. PICK w \in In("queue") : \E outcome \in OutcomesOf(w) : Dequeue(w, outcome)
    BY <1>2 DEF onDequeueWork
  <2>2. PICK outcome \in OutcomesOf(w) : Dequeue(w, outcome)
    BY <2>1
  <2>3. w \in Works /\ loc[w] = "queue" /\ ~Begun(w)
    BY DEF In, Begun
  <2>4. FrameQueue
    BY <1>1, <2>2, FrameFollow, OpsDiffer DEF Dequeue
  <2>5. WorksGoOn /\ Begun(w)'
    <3>1. loc' = [loc EXCEPT ![w] = "done"] \/ loc' = [loc EXCEPT ![w] = "pending"]
      BY <2>2 DEF Dequeue
    <3>2. \A v \in Works : loc'[v] = loc[v] \/ (loc[v] # "posted" /\ Begun(v)')
      BY <2>3, <3>1 DEF Begun, TypeOK
    <3> QED BY <2>3, <2>4, <3>1, <3>2, GoesOn DEF Begun, TypeOK
  <2>6. out'.buffers = out.buffers /\ out'.errorFrames = out.errorFrames
    BY <2>2 DEF Dequeue, TypeOK, OutSet
  <2>7. \A v \in Works \ {w} : hal'.owes[v] = hal.owes[v]
    <3>1. PICK S, o, e : hal' = [hal EXCEPT !.in = S, !.owes[w] = o, !.eos = e]
      BY <2>2, Zenon DEF Dequeue
    <3>2. hal \in HalSet
      BY DEF TypeOK
    <3>3. hal'.owes = [hal.owes EXCEPT ![w] = o]
      BY <3>1, <3>2 DEF HalSet
    <3>4. hal.owes \in [Works -> Outcome]
      BY <3>2 DEF HalSet
    <3> QED BY <2>3, <3>3, <3>4
  <2>8. \A v \in Works \ {w} : /\ Pictured(v)' => Pictured(v)
                               /\ Failing(v)' => Failing(v)
                               /\ Begun(v) => Begun(v)'
    <3> SUFFICES ASSUME NEW v \in Works \ {w}
                 PROVE  /\ Pictured(v)' => Pictured(v)
                        /\ Failing(v)' => Failing(v)
                        /\ Begun(v) => Begun(v)'
      OBVIOUS
    <3>1. hal'.owes[v] = hal.owes[v]
      BY <2>7
    <3>2. Sending(v)' => Sending(v)
      BY <2>6 DEF Sending
    <3>3. Pictured(v)' => Pictured(v)
      BY <2>4, <3>1, <3>2 DEF Pictured, FrameQueue, FrameOps
    <3>4. Failing(v)' => Failing(v)
      BY <2>4, <3>1 DEF Failing, FrameQueue, FrameOps
    <3>5. Begun(v) => Begun(v)'
      BY <2>5 DEF WorksGoOn, Begun
    <3> QED BY <3>3, <3>4, <3>5
  <2>9. w \notin ready /\ ~Pictured(w) /\ ~Failing(w)
    BY <2>3 DEF FrameInv
  <2>10. (Pictured(w)' => hal'.owes[w] \in {"picture", "twoPictures"})
         /\ ~Has(tasks', TaskFor("onErrorFrame", w))
    BY <2>3, <2>4, <2>6, <2>9 DEF Pictured, Failing, Sending, FrameQueue, FrameOps
  <2>11. \A v \in Works : Carries(tasks', v) => loc'[v] = "posted"
    BY <2>4, <2>5 DEF FrameQueue, FrameOps, FrameInv, Carries, Has, WorksGoOn
  <2>12. \A v \in Works : hal'.owes[v] = "errorFrame" => ~Has(tasks', TaskFor("onErrorFrame", v))
    BY <2>3, <2>4, <2>7, <2>10 DEF FrameInv, FrameQueue, FrameOps
  <2>13. \A v \in Works : Pictured(v)' => Begun(v)'
    BY <2>5, <2>8 DEF FrameInv
  <2>14. \A v \in Works : Failing(v)' => v \notin ready' /\ Begun(v)' /\ ~Pictured(v)'
    BY <1>1, <2>5, <2>8, <2>9, <2>10 DEF FrameInv, Failing
  <2>15. Distinct(tasks', "onErrorFrame") /\ Distinct(tasks', "onQueueWork")
    BY <2>4 DEF FrameQueue
  <2>16. \A v \in ready' : Begun(v)'
    BY <1>1, <2>5, <2>8 DEF FrameInv, TypeOK
  <2>17. \A v \in Works : (Failing(v)' => "errorFrame" \in HalOutcomes)
                         /\ (hal'.owes[v] = "noOutFrame" => "noOutFrame" \in HalOutcomes)
    <3>1. hal'.owes[w] \in {outcome, hal.owes[w]} /\ outcome \in HalOutcomes \cup {"nothing"}
      BY <2>2, <2>3 DEF Dequeue, TypeOK, HalSet, OutcomesOf
    <3>2. (hal'.owes[w] = "errorFrame" => "errorFrame" \in HalOutcomes)
          /\ (hal'.owes[w] = "noOutFrame" => "noOutFrame" \in HalOutcomes)
      BY <2>3, <3>1 DEF FrameInv, Failing
    <3> QED BY <2>7, <2>8, <2>10, <3>2 DEF FrameInv, Failing
  <2> QED BY <1>1, <2>6, <2>11, <2>12, <2>13, <2>14, <2>15, <2>16, <2>17 DEF FrameInv
<1>3. CASE ~(mComponentState = "STARTED" /\ In("queue") # {})
  <2>1. Follow(<<>>) /\ UNCHANGED <<loc, inputHeld, hal, out>>
    BY <1>3 DEF onDequeueWork
  <2>2. FrameQueue
    BY <1>1, <2>1, FrameFollow
  <2>3. FramesKept /\ WorksGoOn
    BY <1>1, <2>1, OutKept DEF WorksGoOn
  <2> QED BY <2>2, <2>3, FrameKept
<1> QED
  BY <1>2, <1>3

\* onOutputBufferDone(): a picture that was told of is one to send.
LEMMA OutputFrames ==
    ASSUME TypeOK, FrameInv, TypeOK', onOutputBufferDone
    PROVE  FrameInv'
<1> DEFINE w == Head(tasks).w
<1>1. Take("onOutputBufferDone") /\ w \in Works /\ Head(tasks) = TaskFor("onOutputBufferDone", w)
  BY HeadIs, OpsDiffer DEF onOutputBufferDone, Run
<1>2. FrameQueue /\ Has(tasks, TaskFor("onOutputBufferDone", w))
  BY <1>1, FrameFollow DEF onOutputBufferDone
<1>3. UNCHANGED <<loc, ready, hal>>
  BY DEF onOutputBufferDone, work
<1>4. out \in OutSet /\ out.buffers \in Seq(Works) /\ out.errorFrames \in Nat
  BY OutFields DEF TypeOK
<1>5. /\ out'.buffers = out.buffers \/ out'.buffers = Append(out.buffers, w)
      /\ out'.errorFrames = out.errorFrames \/ out'.errorFrames = 0
  <2>1. \/ out' = [out EXCEPT !.last = w]
        \/ out' = out
        \/ out' = [out EXCEPT !.sent = @ \cup {w}, !.last = w, !.errorFrames = 0,
                              !.buffers = Append(@, w)]
    BY DEF onOutputBufferDone
  <2> QED BY <1>4, <2>1 DEF OutSet
<1>6. \A v : Sending(v)' => Sending(v) \/ v = w
  <2>1. CASE out'.buffers = out.buffers
    BY <2>1 DEF Sending
  <2>2. CASE out'.buffers = Append(out.buffers, w)
    <3>1. /\ Len(Append(out.buffers, w)) = Len(out.buffers) + 1
          /\ Append(out.buffers, w)[Len(out.buffers) + 1] = w
          /\ \A i \in 1..Len(out.buffers) : Append(out.buffers, w)[i] = out.buffers[i]
      BY <1>1, <1>4
    <3>2. \A i \in 1..(Len(out.buffers) + 1) : i \in 1..Len(out.buffers) \/ i = Len(out.buffers) + 1
      BY <1>4
    <3> QED BY <2>2, <3>1, <3>2 DEF Sending
  <2> QED BY <1>5, <2>1, <2>2
<1>7. \A v \in Works : (Pictured(v)' => Pictured(v)) /\ (Failing(v)' => Failing(v))
                       /\ (Begun(v)' <=> Begun(v))
  BY <1>1, <1>2, <1>3, <1>6 DEF Pictured, Failing, Begun, FrameQueue, FrameOps
<1>8. \A v \in Works : Carries(tasks', v) => loc'[v] = "posted"
  BY <1>2, <1>3 DEF FrameQueue, FrameOps, FrameInv, Carries, Has
<1>9. (out.errorFrames <= Cardinality(ready))'
  BY <1>3, <1>4, <1>5, WorksFinite DEF FrameInv, TypeOK
<1>10. \A v \in Works : hal'.owes[v] = "errorFrame" => ~Has(tasks', TaskFor("onErrorFrame", v))
  BY <1>2, <1>3 DEF FrameInv, FrameQueue, FrameOps
<1>11. Distinct(tasks', "onErrorFrame") /\ Distinct(tasks', "onQueueWork")
  BY <1>2 DEF FrameQueue
<1>12. \A v \in ready' : Begun(v)'
  BY <1>3, <1>7 DEF FrameInv, TypeOK
<1>13. \A v \in Works : (Failing(v)' => "errorFrame" \in HalOutcomes)
                        /\ (hal'.owes[v] = "noOutFrame" => "noOutFrame" \in HalOutcomes)
  BY <1>3, <1>7 DEF FrameInv
<1> QED
  BY <1>3, <1>7, <1>8, <1>9, <1>10, <1>11, <1>12, <1>13 DEF FrameInv

\* sendOutputBufferToWorkIfAny(): the works it makes ready have a picture.
LEMMA SendFrames ==
    ASSUME TypeOK, FrameInv, TypeOK', sendOutputBufferToWorkIfAny
    PROVE  FrameInv'
<1> DEFINE w == Head(out.buffers)
<1>1. out \in OutSet /\ out.buffers \in Seq(Works) /\ out.buffers # <<>> /\ out.clones \in Nat
  BY OutFields DEF TypeOK, sendOutputBufferToWorkIfAny
<1>2. w \in Works /\ Sending(w)
  <2>1. 1 \in 1..Len(out.buffers) /\ out.buffers[1] = w
    BY <1>1
  <2> QED BY <1>1, <2>1 DEF Sending
<1>3. UNCHANGED <<tasks, hal>>
  BY DEF sendOutputBufferToWorkIfAny
<1>4. FrameQueue
  BY <1>3 DEF FrameQueue, FrameInv
<1>5. /\ out'.buffers = out.buffers \/ out'.buffers = Tail(out.buffers)
      /\ out'.errorFrames = out.errorFrames
  <2>1. \/ out' = out
        \/ out' = [out EXCEPT !.cloneable = TRUE]
        \/ out' = [out EXCEPT !.buffers = Tail(@), !.cloneable = TRUE]
        \/ out' = [out EXCEPT !.buffers = Tail(@), !.clones = @ + 1]
        \/ out' = [out EXCEPT !.buffers = Tail(@)]
    BY DEF sendOutputBufferToWorkIfAny
  <2> QED BY <1>1, <2>1 DEF OutSet
<1>6. \A v : Sending(v)' => Sending(v)
  <2>1. \A i \in 1..Len(Tail(out.buffers)) : i + 1 \in 1..Len(out.buffers)
                                             /\ Tail(out.buffers)[i] = out.buffers[i + 1]
    BY <1>1
  <2> QED BY <1>5, <2>1 DEF Sending
<1>7. ready' = ready \/ ready' = ready \cup {w}
  BY DEF sendOutputBufferToWorkIfAny
<1>8. FramesKept
  BY <1>2, <1>3, <1>5, <1>6, <1>7 DEF FramesKept
<1>9. WorksGoOn
  <2>1. UNCHANGED loc \/ (loc[w] = "pending" /\ loc' = [loc EXCEPT ![w] = "done"])
    BY DEF sendOutputBufferToWorkIfAny
  <2>2. \A v \in Works : loc'[v] = loc[v] \/ (loc[v] # "posted" /\ Begun(v)')
    BY <1>2, <2>1 DEF Begun, TypeOK
  <2> QED BY <1>4, <2>2, GoesOn
<1> QED
  BY <1>4, <1>8, <1>9, FrameKept

\* onErrorFrame(): the work was not flagged before, so that one more error frame
\* in a row is one more flagged work.
LEMMA ErrorFrames ==
    ASSUME TypeOK, FrameInv, TypeOK', onErrorFrame
    PROVE  /\ FrameInv'
           /\ \E w \in Works : Failing(w) /\ w = Head(tasks).w
           /\ loc[Head(tasks).w] = "pending" => out.errorFrames + 1 <= NumWorks
<1> DEFINE w == Head(tasks).w
<1>1. Take("onErrorFrame") /\ w \in Works /\ Head(tasks) = TaskFor("onErrorFrame", w)
  BY HeadIs, OpsDiffer DEF onErrorFrame, Run
<1>2. /\ FrameQueue /\ Has(tasks, TaskFor("onErrorFrame", w))
      /\ ~Has(tasks', TaskFor("onErrorFrame", w))
  BY <1>1, FrameFollow DEF onErrorFrame
<1>3. Failing(w) /\ hal.owes[w] # "errorFrame" /\ w \notin ready /\ Begun(w) /\ ~Pictured(w)
  BY <1>1, <1>2 DEF Failing, FrameInv
<1>4. UNCHANGED hal /\ out \in OutSet /\ out.errorFrames \in Nat
  BY OutFields DEF onErrorFrame, TypeOK
<1>5. /\ IsFiniteSet(ready) /\ Cardinality(ready \cup {w}) = Cardinality(ready) + 1
      /\ Cardinality(ready) \in Nat /\ Cardinality(ready) + 1 <= NumWorks
  <2>1. ready \in SUBSET Works /\ ready \cup {w} \in SUBSET Works
    BY <1>1 DEF TypeOK
  <2>2. IsFiniteSet(ready) /\ Cardinality(ready) \in Nat
        /\ Cardinality(ready \cup {w}) <= NumWorks
    BY <2>1, WorksFinite
  <2>3. Cardinality(ready \cup {w}) = Cardinality(ready) + 1
    BY <1>3, <2>2, FS_AddElement
  <2> QED BY <2>2, <2>3
<1>6. CASE loc[w] # "pending"
  <2>1. UNCHANGED <<loc, ready, out>>
    BY <1>6 DEF onErrorFrame
  <2>2. FramesKept /\ WorksGoOn
    BY <1>4, <2>1, OutKept DEF WorksGoOn
  <2> QED BY <1>1, <1>2, <1>3, <1>6, <2>2, FrameKept
<1>7. CASE loc[w] = "pending"
  <2>1. ready' = ready \cup {w}
    BY <1>7 DEF onErrorFrame
  <2>2. out'.errorFrames \in {0, out.errorFrames + 1} /\ out'.buffers = out.buffers
    <3>1. out' = [out EXCEPT !.errorFrames = 0] \/ out' = [out EXCEPT !.errorFrames = @ + 1]
      BY <1>7 DEF onErrorFrame
    <3> QED BY <1>4, <3>1 DEF OutSet
  <2>3. WorksGoOn
    <3>1. UNCHANGED loc \/ loc' = [loc EXCEPT ![w] = "done"]
      BY <1>7 DEF onErrorFrame, reportWorkIfFinished
    <3>2. \A v \in Works : loc'[v] = loc[v] \/ (loc[v] # "posted" /\ Begun(v)')
      BY <1>1, <1>7, <3>1 DEF Begun, TypeOK
    <3> QED BY <1>2, <3>2, GoesOn
  <2>4. \A v \in Works : /\ Begun(v) => Begun(v)'
                         /\ Pictured(v)' => Pictured(v)
                         /\ Failing(v)' => Failing(v) /\ v # w
    BY <1>2, <1>3, <1>4, <2>2, <2>3
    DEF WorksGoOn, Begun, Pictured, Sending, Failing, FrameQueue, FrameOps
  <2>5. (out.errorFrames <= Cardinality(ready))'
    BY <1>4, <1>5, <2>1, <2>2 DEF FrameInv
  <2>6. \A v \in ready' : Begun(v)'
    BY <1>1, <1>3, <2>1, <2>4 DEF FrameInv, TypeOK
  <2>7. \A v \in Works : Carries(tasks', v) => loc'[v] = "posted"
    BY <1>2, <2>3 DEF FrameQueue, FrameOps, FrameInv, Carries, Has, WorksGoOn
  <2>8. \A v \in Works : Failing(v)' => v \notin ready' /\ Begun(v)' /\ ~Pictured(v)'
    BY <2>1, <2>4 DEF FrameInv
  <2>9. \A v \in Works : hal'.owes[v] = "errorFrame" => ~Has(tasks', TaskFor("onErrorFrame", v))
    BY <1>2, <1>4 DEF FrameInv, FrameQueue, FrameOps
  <2>10. Distinct(tasks', "onErrorFrame") /\ Distinct(tasks', "onQueueWork")
    BY <1>2 DEF FrameQueue
  <2>11. \A v \in Works : Pictured(v)' => Begun(v)'
    BY <2>4 DEF FrameInv
  <2>12. FrameInv'
    <3>1. \A v \in Works : (Failing(v)' => "errorFrame" \in HalOutcomes)
                           /\ (hal'.owes[v] = "noOutFrame" => "noOutFrame" \in HalOutcomes)
      BY <1>4, <2>4 DEF FrameInv
    <3> QED BY <2>5, <2>6, <2>7, <2>8, <2>9, <2>10, <2>11, <3>1 DEF FrameInv
  <2>13. out.errorFrames + 1 <= NumWorks
    BY <1>4, <1>5, WorksAssumption DEF FrameInv
  <2> QED BY <1>1, <1>3, <2>12, <2>13
<1> QED
  BY <1>6, <1>7

\* A posted work is taken from the queue with its only task.
LEMMA TakenFrames ==
    ASSUME TypeOK, FrameInv, TypeOK', onQueueWork \/ Skip
    PROVE  FrameInv'
<1> DEFINE w == Head(tasks).w
<1>1. PICK op \in Guarded : Take(op)
  BY DEF onQueueWork, Skip, Run, Guarded
<1>2. Follow(<<>>) \/ Follow(<<Task("onDequeueWork")>>)
  BY DEF onQueueWork, Skip
<1>3. FrameQueue /\ (op \in {"onErrorFrame", "onQueueWork"} => ~Has(tasks', Head(tasks)))
      /\ Has(tasks, Head(tasks))
  BY <1>1, <1>2, FrameFollow, OpsDiffer
<1>4. UNCHANGED <<ready, out, hal>>
  BY DEF onQueueWork, Skip
<1>5. FramesKept
  BY <1>4, OutKept
<1>6. CASE op # "onQueueWork"
  <2>1. UNCHANGED loc
    BY <1>1, <1>6 DEF onQueueWork, Skip, Run, Take
  <2> QED BY <1>3, <1>5, <2>1, GoesOn, FrameKept
<1>7. CASE op = "onQueueWork"
  <2>1. w \in Works /\ Head(tasks) = TaskFor("onQueueWork", w)
    BY <1>1, <1>7, HeadIs, OpsDiffer
  <2>2. loc[w] = "posted" /\ ~Carries(tasks', w)
    BY <1>3, <1>7, <2>1 DEF FrameInv, Carries, Has
  <2>3. loc' = [loc EXCEPT ![w] = "queue"] \/ loc' = [loc EXCEPT ![w] = "destroyed"]
    BY <1>1, <1>7 DEF onQueueWork, Skip, Take
  <2>4. WorksGoOn
    BY <2>1, <2>2, <2>3 DEF WorksGoOn, Begun, TypeOK
  <2> QED BY <1>3, <1>5, <2>4, FrameKept
<1> QED
  BY <1>6, <1>7

\* onFlushOrStopDone() throws away what there is to send.
LEMMA ResetDoneFrames ==
    ASSUME TypeOK, FrameInv, TypeOK', onFlushOrStopDone
    PROVE  FrameInv'
<1>1. FrameQueue /\ UNCHANGED <<ready, hal>>
  BY FrameFollow DEF onFlushOrStopDone, Run
<1>2. CASE UNCHANGED <<loc, out>>
  BY <1>1, <1>2, OutKept, GoesOn, FrameKept
<1>3. CASE onFlushDone
  <2>1. FramesKept
    BY <1>1, <1>3, OutKept DEF onFlushDone
  <2>2. \A w \in Works : loc'[w] = loc[w] \/ (loc[w] # "posted" /\ Begun(w)')
    BY <1>3 DEF onFlushDone, FlushedPlaces, Begun
  <2> QED BY <1>1, <2>1, <2>2, GoesOn, FrameKept
<1>4. CASE onStopDone(In("pending") \cup In("abandoned"))
  <2>1. FramesKept
    BY <1>1, <1>4, OutKept DEF onStopDone
  <2>2. \A w \in Works : loc'[w] = loc[w] \/ (loc[w] # "posted" /\ Begun(w)')
    BY <1>4 DEF onStopDone, reportAbandonedWorks, Moved, In, Begun
  <2> QED BY <1>1, <2>1, <2>2, GoesOn, FrameKept
<1> QED
  BY <1>2, <1>3, <1>4 DEF onFlushOrStopDone

\* onStop() moves works of mQueue, or reports all.
LEMMA StopFrames ==
    ASSUME TypeOK, FrameInv, TypeOK', onStop
    PROVE  FrameInv'
<1>1. FrameQueue /\ UNCHANGED ready
  BY FrameFollow DEF onStop, Run
<1>2. CASE UNCHANGED <<loc, out, hal>>
  BY <1>1, <1>2, OutKept, GoesOn, FrameKept
<1>3. CASE UNCHANGED hal /\ onStopDone(In("queue") \cup In("pending") \cup In("abandoned"))
  <2>1. FramesKept
    BY <1>1, <1>3, OutKept DEF onStopDone
  <2>2. \A w \in Works : loc'[w] = loc[w] \/ (loc[w] # "posted" /\ Begun(w)')
    BY <1>3 DEF onStopDone, reportAbandonedWorks, Moved, In, Begun
  <2> QED BY <1>1, <2>1, <2>2, GoesOn, FrameKept
<1>4. CASE UNCHANGED out /\ loc' = Moved(In("queue"), "abandoned")
           /\ hal' = [hal EXCEPT !.resets = @ + 1]
  <2>1. \A w \in Works : hal'.owes[w] = hal.owes[w]
    BY <1>4 DEF TypeOK, HalSet
  <2>2. FramesKept
    BY <1>1, <1>4, <2>1, OutKept
  <2>3. \A w \in Works : loc'[w] = loc[w] \/ (loc[w] # "posted" /\ Begun(w)')
    BY <1>4 DEF Moved, In, Begun
  <2> QED BY <1>1, <2>2, <2>3, GoesOn, FrameKept
<1> QED
  BY <1>2, <1>3, <1>4 DEF onStop

\* The other handlers begin no frame.
LEMMA OtherFrames ==
    ASSUME TypeOK, FrameInv, TypeOK',
           \/ onInputBufferDone \/ sendOutputBufferToWorkIfAnyTask \/ NothingToSend
           \/ onDrainDone \/ DrainDoneTail \/ onFlush \/ resetInputAndOutputBufInfo
           \/ onNoOutFrameNotify \/ onReportNoOutFrameFinished \/ ReportNoOutFrame
           \/ onReportError \/ onDestroy
           \/ \E outcome \in StartOutcomes : onStart(outcome)
           \/ \E mode \in DrainMode : onDrain(mode)
    PROVE  FrameInv'
<1> USE DEF status, thread, work, client
<1>1. CASE onInputBufferDone
  <2> DEFINE w == Head(tasks).w
  <2>1. Take("onInputBufferDone") /\ w \in Works
    BY <1>1, TakeType, OpsDiffer DEF onInputBufferDone, Run
  <2>2. FrameQueue
    BY <1>1, <2>1, FrameFollow, OpsDiffer DEF onInputBufferDone
  <2>3. FramesKept
    BY <1>1, OutKept DEF onInputBufferDone
  <2>4. UNCHANGED loc \/ (loc[w] = "pending" /\ loc' = [loc EXCEPT ![w] = "done"])
    BY <1>1 DEF onInputBufferDone, reportWorkIfFinished
  <2>5. \A v \in Works : loc'[v] = loc[v] \/ (loc[v] # "posted" /\ Begun(v)')
    BY <2>1, <2>4 DEF Begun, TypeOK
  <2> QED BY <2>2, <2>3, <2>5, GoesOn, FrameKept
<1>2. CASE sendOutputBufferToWorkIfAnyTask
  <2>1. FrameQueue
    BY <1>2, FrameFollow DEF sendOutputBufferToWorkIfAnyTask, Run
  <2>2. FramesKept
    BY <1>2, OutKept DEF sendOutputBufferToWorkIfAnyTask
  <2> QED BY <1>2, <2>1, <2>2, GoesOn, FrameKept DEF sendOutputBufferToWorkIfAnyTask
<1>3. CASE NothingToSend
  <2>1. FramesKept
    BY <1>3, OutKept DEF NothingToSend
  <2> QED BY <1>3, <2>1, GoesOn, FrameKept DEF NothingToSend, FrameQueue, FrameInv
<1>4. CASE onDrainDone
  <2>1. FrameQueue
    BY <1>4, FrameFollow DEF onDrainDone, Run
  <2>2. reportEOSWork \/ UNCHANGED <<loc, out>>
    BY <1>4 DEF onDrainDone, DrainEnds
  <2>3. UNCHANGED <<ready, hal>>
    BY <1>4 DEF onDrainDone
  <2> QED BY <2>1, <2>2, <2>3, EosReportFrames, FrameKept
<1>5. CASE DrainDoneTail
  <2>1. FrameQueue
    <3>1. CASE UNCHANGED tasks
      BY <3>1 DEF FrameQueue, FrameInv
    <3>2. CASE Post(Task("onDequeueWork"))
      BY <3>2, FramePost, TaskTypes, OpsDiffer DEF Task, FrameOps
    <3> QED BY <1>5, <3>1, <3>2 DEF DrainDoneTail
  <2>2. reportEOSWork \/ UNCHANGED <<loc, out>>
    BY <1>5 DEF DrainDoneTail
  <2>3. UNCHANGED <<ready, hal>>
    BY <1>5 DEF DrainDoneTail
  <2> QED BY <2>1, <2>2, <2>3, EosReportFrames, FrameKept
<1>6. CASE onFlush
  <2>1. FrameQueue
    BY <1>6, FrameFollow DEF onFlush, Run
  <2>2. \A w \in Works : hal'.owes[w] = hal.owes[w]
    BY <1>6 DEF onFlush, TypeOK, HalSet
  <2>3. FramesKept
    BY <1>6, <2>2, OutKept DEF onFlush
  <2> QED BY <1>6, <2>1, <2>3, GoesOn, FrameKept DEF onFlush
<1>7. CASE resetInputAndOutputBufInfo
  <2>1. FramesKept
    BY <1>7, OutKept DEF resetInputAndOutputBufInfo
  <2> QED BY <1>7, <2>1, GoesOn, FrameKept DEF resetInputAndOutputBufInfo, FrameQueue, FrameInv
<1>8. CASE onNoOutFrameNotify
  <2>1. FrameQueue
    BY <1>8, FrameFollow, OpsDiffer DEF onNoOutFrameNotify, Run
  <2>2. FramesKept
    BY <1>8, OutKept DEF onNoOutFrameNotify
  <2> QED BY <1>8, <2>1, <2>2, GoesOn, FrameKept DEF onNoOutFrameNotify
<1>9. CASE onReportNoOutFrameFinished
  <2>1. FrameQueue
    BY <1>9, FrameFollow DEF onReportNoOutFrameFinished, Run
  <2>2. FramesKept
    BY <1>9, OutKept DEF onReportNoOutFrameFinished
  <2> QED BY <1>9, <2>1, <2>2, GoesOn, FrameKept DEF onReportNoOutFrameFinished
<1>10. CASE ReportNoOutFrame
  <2> DEFINE w == Head(out.noOut)
  <2>1. FramesKept
    BY <1>10, OutKept DEF ReportNoOutFrame
  <2>2. UNCHANGED loc \/ (loc[w] = "pending" /\ loc' = [loc EXCEPT ![w] = "done"])
    BY <1>10 DEF ReportNoOutFrame
  <2>3. \A v \in Works : loc'[v] = loc[v] \/ (loc[v] # "posted" /\ Begun(v)')
    BY <2>2 DEF Begun, TypeOK
  <2> QED BY <1>10, <2>1, <2>3, GoesOn, FrameKept DEF ReportNoOutFrame, FrameQueue, FrameInv
<1>11. CASE onReportError
  <2>1. FrameQueue
    BY <1>11, FrameFollow DEF onReportError, Run
  <2>2. FramesKept
    BY <1>11, OutKept DEF onReportError
  <2> QED BY <1>11, <2>1, <2>2, GoesOn, FrameKept DEF onReportError
<1>12. CASE onDestroy
  <2>1. tasks' = <<>> /\ hal' = IdleHal
    BY <1>12 DEF onDestroy
  <2>2. FrameQueue
    BY <2>1 DEF FrameQueue, Distinct, Has
  <2>3. FramesKept
    BY <1>12, <2>1, OutKept DEF onDestroy
  <2>4. WorksGoOn
    BY <1>12, <2>1 DEF onDestroy, WorksGoOn, Carries, Moved, In, Begun
  <2> QED BY <2>2, <2>3, <2>4, FrameKept
<1>13. ASSUME NEW outcome \in StartOutcomes, onStart(outcome) PROVE FrameInv'
  <2>1. FrameQueue
    BY <1>13, FrameFollow DEF onStart, Run
  <2>2. FramesKept
    BY <1>13, OutKept DEF onStart
  <2> QED BY <1>13, <2>1, <2>2, GoesOn, FrameKept DEF onStart
<1>14. ASSUME NEW mode \in DrainMode, onDrain(mode) PROVE FrameInv'
  <2>1. FrameQueue
    BY <1>14, FrameFollow DEF onDrain, Run
  <2>2. \A w \in Works : hal'.owes[w] = hal.owes[w]
    BY <1>14 DEF onDrain, TypeOK, HalSet
  <2>3. UNCHANGED out \/ out' = [out EXCEPT !.eos = TRUE] \/ out' = [out EXCEPT !.eos = FALSE]
    BY <1>14 DEF onDrain
  <2>4. FramesKept
    BY <1>14, <2>2, <2>3, OutKept DEF onDrain
  <2> QED BY <1>14, <2>1, <2>4, GoesOn, FrameKept DEF onDrain
<1> QED
  BY <1>1, <1>2, <1>3, <1>4, <1>5, <1>6, <1>7, <1>8, <1>9, <1>10, <1>11, <1>12, <1>13, <1>14

\* FrameInv is inductive relative to TypeOK, and true at first.
LEMMA NextFrames == TypeOK /\ FrameInv /\ [Next]_vars => FrameInv'
<1> SUFFICES ASSUME TypeOK, FrameInv, [Next]_vars PROVE FrameInv'
  OBVIOUS
<1>0. TypeOK'
  BY NextType
<1>1. CASE Client
  BY <1>0, <1>1, ClientFrames
<1>2. CASE Handler
  BY <1>0, <1>2, TakenFrames, DequeueFrames, OutputFrames, SendFrames, ErrorFrames, StopFrames,
     ResetDoneFrames, OtherFrames
  DEF Handler
<1>3. CASE Decoder
  BY <1>0, <1>3, DecoderFrames
<1>4. CASE UNCHANGED vars
  BY <1>4 DEF vars, status, thread, work, client, FrameInv, Begun, Pictured, Failing, Sending
<1> QED
  BY <1>1, <1>2, <1>3, <1>4 DEF Next

LEMMA InitFrames == Init => FrameInv
<1> SUFFICES ASSUME Init PROVE FrameInv
  OBVIOUS
<1>1. Cardinality(ready) = 0 /\ out.errorFrames = 0
  BY FS_EmptySet DEF Init
<1> QED
  BY <1>1 DEF Init, FrameInv, Distinct, Carries, Has, Begun, Pictured, Failing, Sending, IdleHal

\* What a session needs to go without an error: a client that makes one call at a
\* time; works with an input buffer, but for EOS and codec data; and a decoder that
\* decodes or fails each frame, and not more frames than the component tolerates.
Healthy ==
    /\ SerialClient
    /\ NoBufferWorks \subseteq EosWorks \cup CsdWorks
    /\ "noOutFrame" \notin HalOutcomes
    /\ "errorFrame" \in HalOutcomes => NumWorks <= MaxErrorFrames

\* The decoder has told no error, and every flush has had its 500 ms.
Orderly == calls["halError"] = 0 /\ calls["earlyTimeout"] = 0

Quiet ==
    /\ ~mCompHasError
    /\ ~Queued(tasks, "onReportError")
    /\ ~Queued(tasks, "onNoOutFrameNotify") /\ ~Queued(tasks, "onReportNoOutFrameFinished")
    /\ step # "noOutFrame"

\* The calls of the client, one at a time.
OneCall ==
    /\ mState \in {"LOADED", "RUNNING"}
    /\ ctl # "idle" => flusher = "idle"
    /\ ctl \in {"starting", "started", "startFailed", "releasing", "released"} => mState = "LOADED"
    /\ ctl \in {"stopping", "stopped"} \/ flusher # "idle" => mState = "RUNNING"
    /\ ctl = "released" => step = "idle"
    /\ ctl # "releasing" => ~Queued(tasks, "onDestroy")
    /\ flusher \in {"idle", "signalled"} => ~Queued(tasks, "onFlush")
    /\ flusher = "signalled" => mComponentState # "FLUSHING"

\* Where each state of the component leaves them.
Stage ==
    /\ mComponentState \in {"UNINITIALIZED", "STARTING"} =>
           IF mState = "LOADED" THEN ctl \notin {"started", "released"}
           ELSE ctl = "stopped" /\ mComponentState = "UNINITIALIZED"
    /\ mComponentState = "DESTROYED" => ctl = "released"
    /\ mComponentState \in {"STARTED", "DRAINING"} =>
           IF mState = "LOADED" THEN ctl = "started" /\ mComponentState = "STARTED"
           ELSE ctl \in {"idle", "stopping"}
    /\ mComponentState = "FLUSHING" =>
           flusher # "idle" /\ ~Queued(tasks, "onFlush") /\ ~Queued(tasks, "onQueueWork")
    /\ mComponentState = "STOPPING" => ctl = "stopping"

\* An input the decoder has, or gives back, is held for a pending work.
Given(w) == w \in hal.in \/ Returning(w)
GivenPending == \A w \in Works : Given(w) => loc[w] = "pending" /\ w \in inputHeld
GivenOnce    == \A w \in hal.in : ~Returning(w)

\* There is one reset while the component waits for one, asked for or answered.
Resets ==
    /\ IF mComponentState \in {"FLUSHING", "STOPPING"}
       THEN hal.resets = 1 <=> ~Queued(tasks, "onFlushOrStopDone")
       ELSE hal.resets = 0 /\ ~Queued(tasks, "onFlushOrStopDone")
    /\ hal.resets <= 1
    /\ Queued(tasks, "onFlushOrStopDone") => hal.in = {} /\ ~hal.eos

\* There is one drain, of all the inputs, and EOS has a work to be reported with.
AtEnd == step \in {"draining", "drained"}
Drains ==
    /\ hal.eos => ~Queued(tasks, "onDrainDone")
    /\ hal.eos \/ Queued(tasks, "onDrainDone") =>
           mComponentState \in {"DRAINING", "FLUSHING", "STOPPING"}
    /\ Queued(tasks, "onDrainDone") => hal.in = {}
    /\ AtEnd => /\ mComponentState \in {"STARTED", "FLUSHING"}
                /\ hal.in = {} /\ ~Queued(tasks, "onInputBufferDone")
    /\ out.eos /\ (hal.eos \/ Queued(tasks, "onDrainDone") \/ AtEnd) => In("pending") # {}

Unused ==
    mComponentState \in {"UNINITIALIZED", "STARTING", "DESTROYED"} =>
        /\ hal.in = {} /\ ~hal.eos
        /\ ~Queued(tasks, "onInputBufferDone") /\ ~Queued(tasks, "onDrainDone")

\* Where no work is left in the component.
FlushIsOver == flusher # "idle" /\ ~Queued(tasks, "onFlush") /\ mComponentState # "FLUSHING"
Emptied == \A w \in Works : loc[w] \notin InComponent
FlushedEmpty == FlushIsOver => mComponentState = "STARTED" /\ Emptied
LoadedEmpty  == mState = "LOADED" => Emptied
QueueRuns ==
    Queued(tasks, "onQueueWork") =>
        mState = "RUNNING" /\ mComponentState \in {"STARTED", "DRAINING"}
ListOfFlush == In("flushList") # {} => timedOut \/ FlushIsOver
Lost        == In("destroyed") # {} => timedOut

HealthInv ==
    /\ TaskOrder(tasks)
    /\ Quiet /\ OneCall /\ Stage
    /\ GivenPending /\ GivenOnce
    /\ Resets /\ Drains /\ Unused
    /\ FlushedEmpty /\ LoadedEmpty /\ QueueRuns
    /\ ListOfFlush /\ Lost

\* A step that HealthInv says nothing about.
Calm ==
    /\ UNCHANGED <<mState, mComponentState, mCompHasError, ctl, timedOut>>
    /\ flusher' = flusher \/ (flusher = "posted" /\ flusher' = "waiting")
    /\ hal'.in = hal.in /\ hal'.eos = hal.eos /\ hal'.resets = hal.resets
    /\ out'.eos = out.eos
    /\ QueueCalm
    /\ step' = step \/ (ctl # "released" /\ step' \in {"idle", "sending"})
                    \/ (step = "draining" /\ step' = "drained")
CalmWorks ==
    /\ \A w \in Works : /\ loc'[w] = loc[w] \/ (loc[w] = "pending" /\ loc'[w] = "done")
                        /\ Given(w)' => loc'[w] = loc[w] /\ (w \in inputHeld => w \in inputHeld')
    /\ out.eos /\ In("pending") # {} => In("pending")' # {}

LEMMA CalmSteps ==
    ASSUME HealthInv, Calm, CalmWorks
    PROVE  HealthInv'
<1>1. /\ \A o : Queued(tasks', o) => Queued(tasks, o) \/ o \in Plain
      /\ Queued(tasks, "onFlush") <=> Queued(tasks', "onFlush")
      /\ Queued(tasks, "onFlushOrStopDone") <=> Queued(tasks', "onFlushOrStopDone")
      /\ \A w : Returning(w)' => Returning(w)
      /\ TaskOrder(tasks')
  BY DEF Calm, QueueCalm, Plain
<1>2. \A o \in {"onReportError", "onNoOutFrameNotify", "onReportNoOutFrameFinished", "onDestroy",
                "onQueueWork", "onDrainDone", "onInputBufferDone"} :
         Queued(tasks', o) => Queued(tasks, o)
  BY <1>1 DEF Plain
<1>3. UNCHANGED <<mState, mComponentState, mCompHasError, ctl, timedOut>>
  BY DEF Calm
<1>4. (flusher' = "idle" <=> flusher = "idle") /\ (flusher' = "signalled" <=> flusher = "signalled")
  BY DEF Calm
<1>5. hal'.in = hal.in /\ hal'.eos = hal.eos /\ hal'.resets = hal.resets /\ out'.eos = out.eos
  BY DEF Calm
<1>6. (AtEnd' => AtEnd) /\ (step # "noOutFrame" => step' # "noOutFrame")
      /\ (ctl = "released" /\ step = "idle" => step' = "idle")
  BY DEF Calm, AtEnd
<1>7. /\ \A w \in Works : loc'[w] \in InComponent => loc[w] \in InComponent
      /\ In("flushList")' \subseteq In("flushList") /\ In("destroyed")' \subseteq In("destroyed")
  BY DEF CalmWorks, InComponent, In
<1>8. FlushIsOver' <=> FlushIsOver
  BY <1>1, <1>3, <1>4 DEF FlushIsOver
<1>9. Quiet' /\ OneCall'
  BY <1>1, <1>2, <1>3, <1>4, <1>6 DEF HealthInv, Quiet, OneCall
<1>10. Stage'
  BY <1>1, <1>2, <1>3, <1>4 DEF HealthInv, Stage
<1>11. GivenPending' /\ GivenOnce'
  <2>1. \A w \in Works : Given(w)' => Given(w)
    BY <1>1, <1>5 DEF Given
  <2> QED BY <1>1, <1>5, <2>1 DEF HealthInv, GivenPending, GivenOnce, CalmWorks
<1>12. Resets' /\ Unused'
  BY <1>1, <1>2, <1>3, <1>5 DEF HealthInv, Resets, Unused
<1>13. Drains'
  BY <1>2, <1>3, <1>5, <1>6 DEF HealthInv, Drains, CalmWorks
<1>14. FlushedEmpty' /\ LoadedEmpty' /\ QueueRuns'
  BY <1>2, <1>3, <1>7, <1>8 DEF HealthInv, FlushedEmpty, LoadedEmpty, QueueRuns, Emptied
<1>15. ListOfFlush' /\ Lost'
  BY <1>3, <1>7, <1>8 DEF HealthInv, ListOfFlush, Lost
<1> QED
  BY <1>1, <1>9, <1>10, <1>11, <1>12, <1>13, <1>14, <1>15 DEF HealthInv

AllInv == TypeOK /\ StopInv /\ FrameInv /\ HealthInv

\* What a posted task adds to the queue.
LEMMA PostFacts ==
    ASSUME TypeOK, NEW t \in TaskSet, Post(t)
    PROVE  /\ \A o : Queued(tasks', o) <=> Queued(tasks, o) \/ o = t.op
           /\ \A w : Returning(w)' <=> Returning(w) \/ t = TaskFor("onInputBufferDone", w)
<1>1. tasks \in Seq(TaskSet) /\ tasks' = Append(tasks, t)
  BY DEF TypeOK, Post
<1> QED
  BY <1>1, AppendFacts DEF Returning

\* Between two calls the component is not in use, or it runs.
LEMMA Between ==
    ASSUME HealthInv, ctl = "idle", flusher = "idle", TypeOK
    PROVE  /\ mState = "LOADED" => mComponentState \in {"UNINITIALIZED", "STARTING"}
           /\ mState = "RUNNING" => mComponentState \in {"STARTED", "DRAINING"}
           /\ ~Queued(tasks, "onFlush")
  BY StateNames DEF HealthInv, Stage, OneCall, TypeOK

\* queue_nb(): the work goes into a component that runs.
LEMMA QueueHealth ==
    ASSUME AllInv, SerialClient, NEW w \in Works, queue_nb(w)
    PROVE  HealthInv'
<1> USE DEF AllInv
<1> DEFINE t == TaskFor("onQueueWork", w)
<1>1. ctl = "idle" /\ flusher = "idle" /\ mState = "RUNNING" /\ loc[w] = "client"
  BY DEF queue_nb, MayQueue, First, In
<1>2. t \in TaskSet /\ t.op = "onQueueWork" /\ Post(t) /\ \A v : t # TaskFor("onInputBufferDone", v)
  BY TaskTypes, OpsDiffer DEF queue_nb, TaskFor
<1>3. /\ \A o : Queued(tasks', o) <=> Queued(tasks, o) \/ o = "onQueueWork"
      /\ \A v : Returning(v)' <=> Returning(v)
  BY <1>2, PostFacts
<1>4. UNCHANGED <<mState, mComponentState, mCompHasError, step, inputHeld, out, hal, ctl, flusher,
                  timedOut>>
  BY DEF queue_nb, status
<1>5. loc' = [loc EXCEPT ![w] = "posted"]
  BY DEF queue_nb
<1>6. mComponentState \in {"STARTED", "DRAINING"} /\ ~Queued(tasks, "onFlush")
  BY <1>1, Between
<1>7. TaskOrder(tasks')
  <2>1. tasks \in Seq(TaskSet) /\ tasks' = Append(tasks, t)
    BY <1>2 DEF Post, TypeOK
  <2> QED BY <1>2, <1>6, <2>1, OrderAppend DEF HealthInv
<1>8. In("pending")' = In("pending") /\ In("flushList")' = In("flushList")
      /\ In("destroyed")' = In("destroyed")
  BY <1>1, <1>5 DEF In, TypeOK
<1>9. Quiet' /\ OneCall' /\ Stage'
  BY <1>1, <1>3, <1>4, <1>6 DEF HealthInv, Quiet, OneCall, Stage
<1>10. GivenPending' /\ GivenOnce'
  BY <1>1, <1>3, <1>4, <1>5 DEF HealthInv, GivenPending, GivenOnce, Given, TypeOK
<1>11. Resets' /\ Drains' /\ Unused'
  BY <1>3, <1>4, <1>8 DEF HealthInv, Resets, Drains, Unused, AtEnd
<1>12. FlushedEmpty' /\ LoadedEmpty' /\ QueueRuns' /\ ListOfFlush' /\ Lost'
  BY <1>1, <1>3, <1>4, <1>6, <1>8
  DEF HealthInv, FlushedEmpty, FlushIsOver, LoadedEmpty, QueueRuns, ListOfFlush, Lost
<1> QED
  BY <1>7, <1>9, <1>10, <1>11, <1>12 DEF HealthInv

\* The calls that only ask, and those that return.
LEMMA CallHealth ==
    ASSUME AllInv, SerialClient, Orderly',
           \/ \E mode \in DrainMode : drain_nb(mode)
           \/ flush_sm \/ FlushWait \/ FlushTimeout \/ FlushReturn
           \/ start \/ StartReturn \/ stop \/ StopReturn \/ release
    PROVE  HealthInv'
<1> USE DEF AllInv, status, thread, work, client
<1>0. tasks \in Seq(TaskSet) /\ TaskOrder(tasks)
  BY DEF TypeOK, HealthInv
<1>1. ASSUME NEW mode \in DrainMode, drain_nb(mode) PROVE HealthInv'
  <2>1. QueueCalm
    BY <1>0, <1>1, PostCalm, TaskTypes, OpsDiffer DEF drain_nb, Task, Plain
  <2>2. Calm /\ CalmWorks
    BY <1>1, <2>1 DEF drain_nb, Calm, CalmWorks, In
  <2> QED BY <2>2, CalmSteps
<1>2. CASE flush_sm
  <2> DEFINE t == Task("onFlush")
  <2>1. ctl = "idle" /\ flusher = "idle" /\ mState = "RUNNING" /\ flusher' = "posted"
    BY <1>2 DEF flush_sm, MayControl
  <2>2. t \in TaskSet /\ t.op = "onFlush" /\ Post(t) /\ \A v : t # TaskFor("onInputBufferDone", v)
    BY <1>2, TaskTypes, OpsDiffer DEF flush_sm, Task, TaskFor
  <2>3. /\ \A o : Queued(tasks', o) <=> Queued(tasks, o) \/ o = "onFlush"
        /\ \A v : Returning(v)' <=> Returning(v)
    BY <2>2, PostFacts
  <2>4. UNCHANGED <<mState, mComponentState, mCompHasError, step, loc, inputHeld, out, hal, ctl,
                    timedOut>>
    BY <1>2 DEF flush_sm
  <2>5. mComponentState \in {"STARTED", "DRAINING"} /\ ~Queued(tasks, "onFlush")
    BY <2>1, Between
  <2>6. TaskOrder(tasks')
    BY <1>0, <2>2, <2>5, OrderAppend DEF Post
  <2>7. Quiet' /\ OneCall' /\ Stage'
    BY <2>1, <2>3, <2>4, <2>5 DEF HealthInv, Quiet, OneCall, Stage
  <2>8. GivenPending' /\ GivenOnce' /\ Resets' /\ Drains' /\ Unused'
    BY <2>3, <2>4
    DEF HealthInv, GivenPending, GivenOnce, Given, Resets, Drains, Unused, AtEnd, In
  <2>9. FlushedEmpty' /\ LoadedEmpty' /\ QueueRuns' /\ ListOfFlush' /\ Lost'
    BY <2>1, <2>3, <2>4
    DEF HealthInv, FlushedEmpty, FlushIsOver, LoadedEmpty, QueueRuns, ListOfFlush, Lost, Emptied, In
  <2> QED BY <2>6, <2>7, <2>8, <2>9 DEF HealthInv
<1>3. CASE FlushWait
  BY <1>0, <1>3, SameCalm, CalmSteps DEF FlushWait, Calm, CalmWorks, In
<1>4. CASE FlushTimeout
  <2>1. flusher = "waiting" /\ flusher' = "idle" /\ timedOut' = TRUE /\ UNCHANGED calls
        /\ NoSignalComing
    BY <1>4 DEF FlushTimeout, Orderly, Count, May, TypeOK, Call
  <2>2. ~Queued(tasks, "onFlush")
        /\ (mComponentState = "FLUSHING" =>
              hal.resets = 0 /\ ~Queued(tasks, "onFlushOrStopDone"))
    BY <2>1 DEF NoSignalComing, Posted, Queued, HealthInv, Quiet
  <2>3. mComponentState = "STARTED"
    BY <2>1, <2>2 DEF HealthInv, Resets, FlushedEmpty, FlushIsOver
  <2>4. UNCHANGED <<mState, mComponentState, mCompHasError, tasks, step, loc, inputHeld, out, hal, ctl>>
    <3>1. mCompHasError = FALSE
      <4>1. mCompHasError \in BOOLEAN
        BY DEF TypeOK
      <4>2. ~mCompHasError
        BY DEF HealthInv, Quiet
      <4> QED BY <4>1, <4>2
    <3> QED BY <1>4, <2>3, <3>1 DEF FlushTimeout, SetState
  <2>5. Quiet' /\ OneCall' /\ Stage'
    BY <2>1, <2>2, <2>3, <2>4 DEF HealthInv, Quiet, OneCall, Stage
  <2>6. GivenPending' /\ GivenOnce' /\ Resets' /\ Drains' /\ Unused'
    BY <2>4
    DEF HealthInv, GivenPending, GivenOnce, Given, Returning, Resets, Drains, Unused, AtEnd, In
  <2>7. FlushedEmpty' /\ LoadedEmpty' /\ QueueRuns' /\ ListOfFlush' /\ Lost'
    BY <2>1, <2>4
    DEF HealthInv, FlushedEmpty, FlushIsOver, LoadedEmpty, QueueRuns, ListOfFlush, Lost, Emptied
  <2> QED BY <1>0, <2>4, <2>5, <2>6, <2>7 DEF HealthInv
<1>5. CASE FlushReturn
  <2>1. QueueCalm
    BY <1>0, <1>5, PostCalm, TaskTypes, OpsDiffer DEF FlushReturn, Task, Plain
  <2>2. /\ \A o : Queued(tasks', o) => Queued(tasks, o) \/ o \in Plain
        /\ \A w : Returning(w)' => Returning(w)
        /\ Queued(tasks, "onFlushOrStopDone") => Queued(tasks', "onFlushOrStopDone")
        /\ TaskOrder(tasks')
    BY <2>1 DEF QueueCalm
  <2>3. flusher = "signalled" /\ flusher' = "idle" /\ loc' = Moved(In("flushList"), "flushed")
        /\ UNCHANGED <<mState, mComponentState, mCompHasError, step, inputHeld, out, hal, ctl,
                       timedOut>>
    BY <1>5 DEF FlushReturn
  <2>4. ~Queued(tasks, "onFlush") /\ mComponentState = "STARTED"
    BY <2>3 DEF HealthInv, OneCall, FlushedEmpty, FlushIsOver
  <2>5. /\ In("pending")' = In("pending") /\ In("destroyed")' = In("destroyed")
        /\ In("flushList")' = {}
        /\ \A w \in Works : /\ loc'[w] \in InComponent => loc[w] \in InComponent
                            /\ loc[w] = "pending" => loc'[w] = "pending"
    BY <2>3 DEF Moved, In, InComponent
  <2>6. Quiet' /\ OneCall' /\ Stage'
    BY <2>2, <2>3, <2>4 DEF HealthInv, Quiet, OneCall, Stage, Plain
  <2>7. GivenPending' /\ GivenOnce'
    BY <2>2, <2>3, <2>5 DEF HealthInv, GivenPending, GivenOnce, Given
  <2>8. Resets' /\ Drains' /\ Unused'
    BY <2>2, <2>3, <2>5 DEF HealthInv, Resets, Drains, Unused, AtEnd, Plain
  <2>9. FlushedEmpty' /\ LoadedEmpty' /\ QueueRuns' /\ ListOfFlush' /\ Lost'
    BY <2>2, <2>3, <2>5
    DEF HealthInv, FlushedEmpty, FlushIsOver, LoadedEmpty, QueueRuns, ListOfFlush, Lost, Emptied, Plain
  <2> QED BY <2>2, <2>6, <2>7, <2>8, <2>9 DEF HealthInv
<1>6. ASSUME \/ start \/ stop \/ release \/ StartReturn \/ StopReturn PROVE HealthInv'
  <2>1. UNCHANGED <<mComponentState, mCompHasError, step, loc, inputHeld, out, hal, flusher, timedOut>>
    BY <1>6 DEF start, stop, release, StartReturn, StopReturn
  <2>2. \/ /\ ctl = "idle" /\ flusher = "idle" /\ UNCHANGED mState
           /\ \/ mState = "LOADED" /\ ctl' \in {"starting", "releasing"}
              \/ mState = "RUNNING" /\ ctl' = "stopping"
        \/ /\ ctl = "started" /\ mState' = "RUNNING" /\ ctl' = "idle"
        \/ /\ ctl = "startFailed" /\ UNCHANGED mState /\ ctl' = "idle"
        \/ /\ ctl = "stopped" /\ mState' = "LOADED" /\ ctl' = "idle"
    BY <1>6 DEF start, stop, release, StartReturn, StopReturn, MayControl, HealthInv, OneCall
  <2>3. flusher = "idle"
    BY <2>2 DEF HealthInv, OneCall
  <2>4. /\ TaskOrder(tasks')
        /\ \A o : Queued(tasks', o) => Queued(tasks, o) \/ o \in {"onStart", "onStop"}
                                       \/ (o = "onDestroy" /\ ctl' = "releasing")
        /\ \A o : Queued(tasks, o) => Queued(tasks', o)
        /\ \A w : Returning(w)' <=> Returning(w)
    <3>1. CASE StartReturn \/ StopReturn
      BY <1>0, <3>1 DEF StartReturn, StopReturn, Returning
    <3>2. ASSUME NEW op \in {"onStart", "onStop", "onDestroy"}, Post(Task(op)),
                 op = "onDestroy" => ctl' = "releasing"
          PROVE  /\ TaskOrder(tasks')
                 /\ \A o : Queued(tasks', o) => Queued(tasks, o) \/ o \in {"onStart", "onStop"}
                                                \/ (o = "onDestroy" /\ ctl' = "releasing")
                 /\ \A o : Queued(tasks, o) => Queued(tasks', o)
                 /\ \A w : Returning(w)' <=> Returning(w)
      <4>1. Task(op) \in TaskSet /\ Task(op).op = op /\ \A v : Task(op) # TaskFor("onInputBufferDone", v)
        BY TaskTypes, OpsDiffer DEF Task, TaskFor
      <4>2. TaskOrder(tasks')
        BY <1>0, <3>2, <4>1, OrderAppend DEF Post
      <4> QED BY <3>2, <4>1, <4>2, PostFacts
    <3> QED BY <1>6, <3>1, <3>2 DEF start, stop, release
  <2>5. ctl = "stopped" => mComponentState = "UNINITIALIZED"
    BY <2>3, StateNames DEF HealthInv, OneCall, Stage, TypeOK
  <2>6. ctl = "started" => mComponentState = "STARTED"
    BY <2>3, StateNames DEF HealthInv, OneCall, Stage, TypeOK
  <2>7. Quiet' /\ OneCall'
    BY <2>1, <2>2, <2>3, <2>4 DEF HealthInv, Quiet, OneCall
  <2>8. Stage'
    BY <2>1, <2>2, <2>3, <2>4, <2>5, <2>6, StateNames DEF HealthInv, OneCall, Stage, TypeOK
  <2>9. GivenPending' /\ GivenOnce'
    BY <2>1, <2>4 DEF HealthInv, GivenPending, GivenOnce, Given
  <2>10. Resets' /\ Drains' /\ Unused'
    <3>1. \A o \in {"onFlushOrStopDone", "onDrainDone", "onInputBufferDone"} :
             Queued(tasks', o) <=> Queued(tasks, o)
      BY <2>4
    <3> QED BY <2>1, <3>1 DEF HealthInv, Resets, Drains, Unused, AtEnd, In
  <2>11. FlushedEmpty' /\ ListOfFlush' /\ Lost'
    BY <2>1, <2>3 DEF HealthInv, FlushedEmpty, FlushIsOver, ListOfFlush, Lost, Emptied, In
  <2>12. LoadedEmpty'
    BY <2>1, <2>2, <2>5 DEF HealthInv, LoadedEmpty, Emptied, StopInv, StoppedIsEmpty
  <2>13. QueueRuns'
    BY <2>1, <2>2, <2>4, <2>5 DEF HealthInv, QueueRuns
  <2> QED BY <2>4, <2>7, <2>8, <2>9, <2>10, <2>11, <2>12, <2>13 DEF HealthInv
<1> QED
  BY <1>1, <1>2, <1>3, <1>4, <1>5, <1>6

\* The decoder's callbacks come once and in order.
LEMMA DecoderHealth ==
    ASSUME AllInv, Healthy, Orderly', Decoder
    PROVE  HealthInv'
<1> USE DEF AllInv, status, thread, work, client, HalOnly
<1>0. tasks \in Seq(TaskSet) /\ TaskOrder(tasks) /\ hal \in HalSet
  BY DEF TypeOK, HealthInv
<1>1. ASSUME NEW w \in Works, NotifyEndOfBitstreamBuffer(w) PROVE HealthInv'
  <2> DEFINE t == TaskFor("onInputBufferDone", w)
  <2>1. /\ w \in hal.in /\ hal'.in = hal.in \ {w} /\ hal'.eos = hal.eos /\ hal'.resets = hal.resets
        /\ UNCHANGED <<mState, mComponentState, mCompHasError, step, loc, inputHeld, out, ctl,
                       flusher, timedOut>>
    BY <1>0, <1>1 DEF NotifyEndOfBitstreamBuffer, HalSet
  <2>2. t \in TaskSet /\ t.op = "onInputBufferDone" /\ Post(t)
        /\ \A v : t = TaskFor("onInputBufferDone", v) => v = w
    BY <1>1, TaskTypes, OpsDiffer DEF NotifyEndOfBitstreamBuffer, TaskFor
  <2>3. /\ \A o : Queued(tasks', o) <=> Queued(tasks, o) \/ o = "onInputBufferDone"
        /\ \A v : Returning(v)' <=> Returning(v) \/ v = w
    BY <2>2, PostFacts
  <2>4. ~Queued(tasks, "onDrainDone") /\ ~Queued(tasks, "onFlushOrStopDone") /\ ~Returning(w)
    BY <2>1 DEF HealthInv, Drains, Resets, GivenOnce
  <2>5. TaskOrder(tasks')
    BY <1>0, <2>2, <2>4, OrderAppend DEF Post, Returning
  <2>6. \A v \in Works : Given(v)' <=> Given(v)
    BY <2>1, <2>3 DEF Given
  <2>7. Quiet' /\ OneCall' /\ Stage'
    BY <2>1, <2>3 DEF HealthInv, Quiet, OneCall, Stage
  <2>8. GivenPending' /\ GivenOnce'
    BY <2>1, <2>3, <2>6 DEF HealthInv, GivenPending, GivenOnce
  <2>9. Resets' /\ Drains' /\ Unused'
    BY <2>1, <2>3, <2>4 DEF HealthInv, Resets, Drains, Unused, AtEnd, In
  <2>10. FlushedEmpty' /\ LoadedEmpty' /\ QueueRuns' /\ ListOfFlush' /\ Lost'
    BY <2>1, <2>3
    DEF HealthInv, FlushedEmpty, FlushIsOver, LoadedEmpty, QueueRuns, ListOfFlush, Lost, Emptied, In
  <2> QED BY <2>5, <2>7, <2>8, <2>9, <2>10 DEF HealthInv
<1>2. ASSUME NEW w \in Works, PictureReady(w) PROVE HealthInv'
  <2>1. QueueCalm
    BY <1>0, <1>2, PostCalm, TaskTypes, OpsDiffer DEF PictureReady, TaskFor, Plain
  <2>2. hal'.in = hal.in /\ hal'.eos = hal.eos /\ hal'.resets = hal.resets
    BY <1>0, <1>2 DEF PictureReady, HalSet
  <2>3. Calm /\ CalmWorks
    BY <1>2, <2>1, <2>2 DEF PictureReady, Calm, CalmWorks, In
  <2> QED BY <2>3, CalmSteps
<1>3. ASSUME NEW w \in Works, NotifyEvent(w) PROVE HealthInv'
  <2>1. hal.owes[w] = "errorFrame"
    BY <1>3 DEF NotifyEvent, FrameInv, Healthy
  <2>2. QueueCalm
    BY <1>0, <1>3, <2>1, PostCalm, TaskTypes, OpsDiffer DEF NotifyEvent, TaskFor, Plain
  <2>3. hal'.in = hal.in /\ hal'.eos = hal.eos /\ hal'.resets = hal.resets
    BY <1>0, <1>3 DEF NotifyEvent, HalSet
  <2>4. Calm /\ CalmWorks
    BY <1>3, <2>2, <2>3 DEF NotifyEvent, Calm, CalmWorks, In
  <2> QED BY <2>4, CalmSteps
<1>4. CASE NotifyFlushDone \/ NotifyFlushOrStopDone
  <2>1. PICK op \in {"onDrainDone", "onFlushOrStopDone"} :
           /\ op = "onDrainDone" => NotifyFlushDone
           /\ op = "onFlushOrStopDone" => NotifyFlushOrStopDone
    BY <1>4
  <2> DEFINE t == Task(op)
  <2>2. /\ t \in TaskSet /\ t.op = op /\ Post(t) /\ \A v : t # TaskFor("onInputBufferDone", v)
        /\ UNCHANGED <<mState, mComponentState, mCompHasError, step, loc, inputHeld, out, ctl,
                       flusher, timedOut>>
    BY <2>1, TaskTypes, OpsDiffer DEF NotifyFlushDone, NotifyFlushOrStopDone, Task, TaskFor
  <2>3. /\ \A o : Queued(tasks', o) <=> Queued(tasks, o) \/ o = op
        /\ \A v : Returning(v)' <=> Returning(v)
    BY <2>2, PostFacts
  <2>4. /\ op = "onDrainDone" => /\ hal.eos /\ hal.in = {} /\ hal'.in = {} /\ ~hal'.eos
                                 /\ hal'.resets = hal.resets
        /\ op = "onFlushOrStopDone" => /\ hal.resets = 1 /\ hal'.in = {} /\ ~hal'.eos
                                       /\ hal'.resets = 0
    BY <1>0, <2>1 DEF NotifyFlushDone, NotifyFlushOrStopDone, IdleHal, HalSet, HealthInv, Resets
  <2>5. ~Queued(tasks, "onFlushOrStopDone") /\ (op = "onDrainDone" => ~Queued(tasks, "onDrainDone"))
    BY <2>4 DEF HealthInv, Resets, Drains
  <2>6. TaskOrder(tasks')
    <3>1. op \notin {"onFlush", "onQueueWork"} /\ op # "onInputBufferDone"
      OBVIOUS
    <3> QED BY <1>0, <2>2, <2>5, <3>1, OrderAppend DEF Post
  <2>7. Quiet' /\ OneCall' /\ Stage'
    BY <2>2, <2>3 DEF HealthInv, Quiet, OneCall, Stage
  <2>8. GivenPending' /\ GivenOnce'
    BY <2>2, <2>3, <2>4 DEF HealthInv, GivenPending, GivenOnce, Given
  <2>9. Resets'
    BY <1>0, <2>2, <2>3, <2>4, <2>5 DEF HealthInv, Resets, HalSet
  <2>10. Drains' /\ Unused'
    BY <2>2, <2>3, <2>4, <2>5 DEF HealthInv, Drains, Unused, AtEnd, In
  <2>11. FlushedEmpty' /\ LoadedEmpty' /\ QueueRuns' /\ ListOfFlush' /\ Lost'
    BY <2>2, <2>3
    DEF HealthInv, FlushedEmpty, FlushIsOver, LoadedEmpty, QueueRuns, ListOfFlush, Lost, Emptied, In
  <2> QED BY <2>6, <2>7, <2>8, <2>9, <2>10, <2>11 DEF HealthInv
<1>5. CASE NotifyError
  <2>1. calls' = [calls EXCEPT !["halError"] = @ + 1] /\ calls["halError"] \in Nat
    BY <1>5 DEF NotifyError, Count, TypeOK, Call
  <2>2. calls'["halError"] # 0
    BY <2>1 DEF TypeOK, Call
  <2> QED BY <2>2 DEF Orderly
<1> QED
  BY <1>1, <1>2, <1>3, <1>4, <1>5 DEF Decoder

\* The handlers that HealthInv says nothing about.
LEMMA CalmHandlers ==
    ASSUME AllInv, Healthy,
           \/ Skip \/ onInputBufferDone \/ onOutputBufferDone
           \/ sendOutputBufferToWorkIfAnyTask \/ sendOutputBufferToWorkIfAny \/ NothingToSend
           \/ resetInputAndOutputBufInfo \/ onErrorFrame
           \/ onNoOutFrameNotify \/ onReportNoOutFrameFinished \/ ReportNoOutFrame
           \/ onReportError
    PROVE  HealthInv'
<1> USE DEF AllInv, status, thread, work, client
<1>0. tasks \in Seq(TaskSet) /\ TaskOrder(tasks) /\ out \in OutSet /\ hal \in HalSet
  BY DEF TypeOK, HealthInv
<1> DEFINE hd == Head(tasks).w
<1>1. CASE Skip
  <2>1. PICK op \in Guarded : Take(op)
    BY <1>1 DEF Skip
  <2>2. mComponentState \in {"UNINITIALIZED", "DESTROYED"}
    BY <1>1 DEF Skip, Alive, HealthInv, Quiet
  <2>3. op # "onQueueWork"
    <3>1. Queued(tasks, op)
      BY <1>0, <1>1, <2>1, FollowFacts DEF Skip
    <3> QED BY <2>2, <3>1 DEF HealthInv, QueueRuns
  <2>4. QueueCalm
    BY <1>0, <1>1, <2>1, FollowCalm DEF Skip, Guarded
  <2>5. UNCHANGED loc
    BY <1>1, <2>1, <2>3 DEF Skip, Take
  <2>6. Calm /\ CalmWorks
    BY <1>1, <2>4, <2>5 DEF Skip, Calm, CalmWorks, In
  <2> QED BY <2>6, CalmSteps
<1>2. CASE onInputBufferDone
  <2>0. PICK w \in Works : w = hd
    BY <1>2, HeadIs, OpsDiffer DEF onInputBufferDone, Run
  <2>1. /\ Take("onInputBufferDone")
        /\ Head(tasks) = TaskFor("onInputBufferDone", w)
    BY <1>2, <2>0, HeadIs, OpsDiffer DEF onInputBufferDone, Run
  <2>2. Follow(<<>>) \/ \E next \in (Op \ WorkOp) \cap Plain : Follow(<<Task(next)>>)
    <3>1. Follow(<<>>) \/ Follow(<<Task("sendOutputBufferToWorkIfAnyTask")>>)
      BY <1>2 DEF onInputBufferDone
    <3>2. "sendOutputBufferToWorkIfAnyTask" \in (Op \ WorkOp) \cap Plain
      BY OpsDiffer DEF Plain
    <3> QED BY <3>1, <3>2
  <2>3. QueueCalm /\ ~Returning(w)' /\ Returning(w)
    BY <1>0, <2>1, <2>2, FollowCalm, FollowFacts DEF Returning
  <2>4. loc[w] = "pending"
    BY <2>1, <2>3 DEF HealthInv, GivenPending, Given
  <2>5. /\ inputHeld' = inputHeld \ {w}
        /\ UNCHANGED loc \/ (~KeptForEos(w) /\ loc' = [loc EXCEPT ![w] = "done"])
        /\ UNCHANGED <<status, step, out, hal, client>>
    BY <1>2, <2>0, <2>4 DEF onInputBufferDone, reportWorkIfFinished
  <2>6. ~Given(w)'
    <3>1. w \notin hal.in
      BY <2>3 DEF HealthInv, GivenOnce
    <3> QED BY <2>3, <2>5, <3>1 DEF Given
  <2>7. CalmWorks
    <3>1. \A v \in Works : Given(v)' => v # w
      BY <2>6
    <3>2. \A v \in Works \ {w} : loc'[v] = loc[v] /\ (v \in inputHeld => v \in inputHeld')
      BY <2>1, <2>5 DEF TypeOK
    <3>3. loc'[w] \in {"pending", "done"}
      BY <2>1, <2>4, <2>5 DEF TypeOK
    <3>4. ASSUME out.eos, In("pending") # {} PROVE In("pending")' # {}
      BY <2>1, <2>4, <2>5, <3>2, <3>4 DEF KeptForEos, In
    <3> QED BY <2>4, <3>1, <3>2, <3>3, <3>4 DEF CalmWorks
  <2>8. Calm
    BY <2>3, <2>5 DEF Calm
  <2> QED BY <2>7, <2>8, CalmSteps
<1>3. CASE onOutputBufferDone
  <2>1. Take("onOutputBufferDone")
    BY <1>3 DEF onOutputBufferDone, Run
  <2>2. QueueCalm
    BY <1>0, <1>3, <2>1, FollowCalm DEF onOutputBufferDone
  <2>3. out'.eos = out.eos
    <3>1. \/ out' = [out EXCEPT !.last = hd]
          \/ out' = out
          \/ out' = [out EXCEPT !.sent = @ \cup {hd}, !.last = hd, !.errorFrames = 0,
                                !.buffers = Append(@, hd)]
      BY <1>3 DEF onOutputBufferDone
    <3> QED BY <1>0, <3>1 DEF OutSet
  <2>4. Calm /\ CalmWorks
    BY <1>3, <2>1, <2>2, <2>3 DEF onOutputBufferDone, Take, Calm, CalmWorks, In
  <2> QED BY <2>4, CalmSteps
<1>4. CASE sendOutputBufferToWorkIfAnyTask
  <2>1. Take("sendOutputBufferToWorkIfAnyTask")
    BY <1>4 DEF sendOutputBufferToWorkIfAnyTask, Run
  <2>2. QueueCalm
    BY <1>0, <1>4, <2>1, FollowCalm DEF sendOutputBufferToWorkIfAnyTask
  <2>3. Calm /\ CalmWorks
    BY <1>4, <2>1, <2>2 DEF sendOutputBufferToWorkIfAnyTask, Take, Calm, CalmWorks, In
  <2> QED BY <2>3, CalmSteps
<1>5. CASE sendOutputBufferToWorkIfAny
  <2> DEFINE w == Head(out.buffers)
  <2>1. w \in Works /\ UNCHANGED <<status, tasks, inputHeld, hal, client>>
    BY <1>5, OutFields DEF sendOutputBufferToWorkIfAny, TypeOK
  <2>2. out'.eos = out.eos
    <3>1. \/ out' = out
          \/ out' = [out EXCEPT !.cloneable = TRUE]
          \/ out' = [out EXCEPT !.buffers = Tail(@), !.cloneable = TRUE]
          \/ out' = [out EXCEPT !.buffers = Tail(@), !.clones = @ + 1]
          \/ out' = [out EXCEPT !.buffers = Tail(@)]
      BY <1>5 DEF sendOutputBufferToWorkIfAny
    <3> QED BY <1>0, <3>1 DEF OutSet
  <2>3. \/ UNCHANGED loc
        \/ /\ loc[w] = "pending" /\ w \notin inputHeld /\ ~KeptForEos(w)
           /\ loc' = [loc EXCEPT ![w] = "done"]
    BY <1>5 DEF sendOutputBufferToWorkIfAny, FrontWaits
  <2>4. \A v \in Works : Given(v)' => Given(v) /\ v \in inputHeld
    BY <2>1 DEF Given, Returning, HealthInv, GivenPending
  <2>5. CalmWorks
    BY <2>1, <2>3, <2>4 DEF CalmWorks, KeptForEos, In, TypeOK
  <2>6. ctl # "released"
    BY <1>5 DEF sendOutputBufferToWorkIfAny, HealthInv, OneCall
  <2>7. Calm
    BY <1>0, <1>5, <2>1, <2>2, <2>6, SameCalm DEF sendOutputBufferToWorkIfAny, Calm
  <2> QED BY <2>5, <2>7, CalmSteps
<1>6. CASE NothingToSend
  <2>1. ctl # "released"
    BY <1>6 DEF NothingToSend, HealthInv, OneCall
  <2>2. Calm /\ CalmWorks
    BY <1>0, <1>6, <2>1, SameCalm DEF NothingToSend, Calm, CalmWorks, In
  <2> QED BY <2>2, CalmSteps
<1>7. CASE resetInputAndOutputBufInfo
  <2>1. ctl # "released"
    BY <1>7 DEF resetInputAndOutputBufInfo, HealthInv, OneCall
  <2>2. out'.eos = out.eos
    BY <1>0, <1>7 DEF resetInputAndOutputBufInfo, OutSet
  <2>3. Calm /\ CalmWorks
    BY <1>0, <1>7, <2>1, <2>2, SameCalm DEF resetInputAndOutputBufInfo, Calm, CalmWorks, In
  <2> QED BY <2>3, CalmSteps
<1>8. CASE onErrorFrame
  <2>1. Take("onErrorFrame") /\ hd \in Works
    BY <1>8, HeadIs, OpsDiffer DEF onErrorFrame, Run
  <2>2. QueueCalm
    BY <1>0, <1>8, <2>1, FollowCalm DEF onErrorFrame
  <2>3. loc[hd] = "pending" => out.errorFrames + 1 <= MaxErrorFrames
    <3>1. /\ \E w \in Works : Failing(w)
          /\ loc[hd] = "pending" => out.errorFrames + 1 <= NumWorks
      <4>1. TypeOK'
        BY <1>8, ErrorFrameTypes
      <4> QED BY <1>8, <4>1, ErrorFrames
    <3>2. NumWorks <= MaxErrorFrames
      BY <3>1 DEF FrameInv, Healthy
    <3>3. NumWorks \in Nat /\ MaxErrorFrames \in Nat /\ out.errorFrames \in Nat
      BY <1>0, OutFields, WorksAssumption, HalAssumption
    <3> QED BY <3>1, <3>2, <3>3
  <2>4. UNCHANGED status /\ out'.eos = out.eos
    <3>1. ~(out.errorFrames + 1 > MaxErrorFrames) \/ loc[hd] # "pending"
      <4>1. out.errorFrames + 1 \in Int /\ MaxErrorFrames \in Int
        BY <1>0, OutFields, HalAssumption
      <4> QED BY <2>3, <4>1
    <3>2. UNCHANGED status /\ (out' = out \/ out' = [out EXCEPT !.errorFrames = @ + 1])
      BY <1>8, <3>1 DEF onErrorFrame
    <3> QED BY <1>0, <3>2 DEF OutSet
  <2>5. /\ UNCHANGED <<inputHeld, hal, step, client>>
        /\ \/ UNCHANGED loc
           \/ /\ loc[hd] = "pending" /\ hd \notin inputHeld /\ ~KeptForEos(hd)
              /\ loc' = [loc EXCEPT ![hd] = "done"]
    BY <1>8 DEF onErrorFrame, reportWorkIfFinished
  <2>6. \A v \in Works : Given(v)' => Given(v) /\ v \in inputHeld
    BY <2>2, <2>5 DEF QueueCalm, Given, HealthInv, GivenPending
  <2>7. CalmWorks
    BY <2>1, <2>5, <2>6 DEF CalmWorks, KeptForEos, In, TypeOK
  <2>8. Calm
    BY <2>2, <2>4, <2>5 DEF Calm
  <2> QED BY <2>7, <2>8, CalmSteps
<1>9. CASE onNoOutFrameNotify \/ onReportNoOutFrameFinished \/ ReportNoOutFrame \/ onReportError
  <2>1. \A op : Take(op) => Queued(tasks, op)
    BY <1>0 DEF Take, Queued
  <2> QED
    BY <1>9, <2>1
    DEF onNoOutFrameNotify, onReportNoOutFrameFinished, ReportNoOutFrame, onReportError, Run,
        HealthInv, Quiet
<1> QED
  BY <1>1, <1>2, <1>3, <1>4, <1>5, <1>6, <1>7, <1>8, <1>9

\* onQueueWork(): the component runs.
LEMMA QueueWorkHealth ==
    ASSUME AllInv, onQueueWork
    PROVE  HealthInv'
<1> USE DEF AllInv
<1>1. PICK w \in Works : w = Head(tasks).w
  BY HeadIs, OpsDiffer DEF onQueueWork, Run
<1>2. Take("onQueueWork") /\ Head(tasks) = TaskFor("onQueueWork", w)
  BY <1>1, HeadIs, OpsDiffer DEF onQueueWork, Run
<1>3. /\ TaskOrder(tasks')
      /\ \A o : Queued(tasks', o) => Queued(tasks, o) \/ o \in Plain
      /\ \A o : Queued(tasks, o) => o = "onQueueWork" \/ Queued(tasks', o)
      /\ \A v : Returning(v)' => Returning(v)
      /\ Queued(tasks, "onQueueWork") /\ Has(tasks, Head(tasks))
  <2>1. "onDequeueWork" \in (Op \ WorkOp) \cap Plain
    BY OpsDiffer DEF Plain
  <2> QED BY <1>2, <2>1, FollowFacts DEF onQueueWork, HealthInv
<1>4. loc[w] = "posted" /\ mState = "RUNNING" /\ mComponentState \in {"STARTED", "DRAINING"}
  BY <1>2, <1>3 DEF FrameInv, Carries, Has, HealthInv, QueueRuns
<1>5. ~FlushIsOver
  BY <1>1, <1>4 DEF HealthInv, FlushedEmpty, Emptied, InComponent
<1>6. /\ loc' = [loc EXCEPT ![w] = "queue"]
      /\ UNCHANGED <<mState, mComponentState, mCompHasError, step, inputHeld, out, hal, ctl, flusher,
                     timedOut>>
  BY <1>1 DEF onQueueWork, status, client
<1>7. In("pending")' = In("pending") /\ In("flushList")' = In("flushList")
      /\ In("destroyed")' = In("destroyed")
  BY <1>4, <1>6 DEF In, TypeOK
<1>8. \A o \in {"onReportError", "onNoOutFrameNotify", "onReportNoOutFrameFinished", "onDestroy",
                "onFlush", "onQueueWork", "onDrainDone", "onInputBufferDone", "onFlushOrStopDone"} :
         /\ Queued(tasks', o) => Queued(tasks, o)
         /\ o # "onQueueWork" /\ Queued(tasks, o) => Queued(tasks', o)
  BY <1>3 DEF Plain
<1>9. Quiet' /\ OneCall' /\ Stage'
  BY <1>4, <1>6, <1>8 DEF HealthInv, Quiet, OneCall, Stage
<1>10. GivenPending' /\ GivenOnce'
  BY <1>3, <1>4, <1>6 DEF HealthInv, GivenPending, GivenOnce, Given, TypeOK
<1>11. Resets' /\ Drains' /\ Unused'
  BY <1>6, <1>7, <1>8 DEF HealthInv, Resets, Drains, Unused, AtEnd
<1>12. FlushIsOver' <=> FlushIsOver
  BY <1>6, <1>8 DEF FlushIsOver
<1>13. FlushedEmpty' /\ LoadedEmpty' /\ QueueRuns' /\ ListOfFlush' /\ Lost'
  BY <1>4, <1>5, <1>6, <1>7, <1>12
  DEF HealthInv, FlushedEmpty, LoadedEmpty, QueueRuns, ListOfFlush, Lost
<1> QED
  BY <1>3, <1>9, <1>10, <1>11, <1>13 DEF HealthInv

\* onDequeueWork(): the input goes to a decoder that is not draining, and EOS is
\* never told to it without a pending work.
LEMMA DequeueHealth ==
    ASSUME AllInv, Healthy, onDequeueWork
    PROVE  HealthInv'
<1> USE DEF AllInv, status, client
<1>1. Take("onDequeueWork") /\ step = "idle" /\ "onDequeueWork" \in (Op \ WorkOp) \cap Plain
  BY OpsDiffer DEF onDequeueWork, Run, Take, Plain
<1>2. CASE mComponentState = "STARTED" /\ In("queue") # {}
  <2>1. PICK w \in In("queue") : \E outcome \in OutcomesOf(w) : Dequeue(w, outcome)
    BY <1>2 DEF onDequeueWork
  <2>2. PICK outcome \in OutcomesOf(w) : Dequeue(w, outcome)
    BY <2>1
  <2>3. w \in Works /\ loc[w] = "queue"
    BY DEF In
  <2> DEFINE drains == mDrainMode[w] # "none"
             gives  == w \notin NoBufferWorks
  <2>4. /\ TaskOrder(tasks')
        /\ \A o : Queued(tasks', o) => Queued(tasks, o) \/ o \in Plain
        /\ \A o : Queued(tasks, o) => o = "onDequeueWork" \/ Queued(tasks', o)
        /\ \A v : Returning(v)' => Returning(v)
    BY <1>1, <2>2, FollowFacts DEF Dequeue, HealthInv
  <2>5. \A o \in {"onReportError", "onNoOutFrameNotify", "onReportNoOutFrameFinished", "onDestroy",
                  "onFlush", "onQueueWork", "onDrainDone", "onInputBufferDone", "onFlushOrStopDone"} :
           Queued(tasks', o) <=> Queued(tasks, o)
    BY <2>4 DEF Plain
  <2>6. /\ UNCHANGED <<mState, mCompHasError, step, ctl, flusher, timedOut>>
        /\ mComponentState' = IF drains THEN "DRAINING" ELSE "STARTED"
        /\ inputHeld' = IF gives THEN inputHeld \cup {w} ELSE inputHeld
    BY <1>2, <2>2 DEF onDequeueWork, Dequeue
  <2>7. /\ hal'.in = IF gives THEN hal.in \cup {w} ELSE hal.in
        /\ hal'.eos <=> (hal.eos \/ drains)
        /\ hal'.resets = hal.resets
    <3>1. hal \in HalSet
      BY DEF TypeOK
    <3>2. hal' = [hal EXCEPT !.in = IF gives THEN @ \cup {w} ELSE @,
                             !.owes[w] = IF gives THEN outcome ELSE @,
                             !.eos = @ \/ drains]
      BY <2>2 DEF Dequeue
    <3> QED BY <3>1, <3>2 DEF HalSet
  <2>8. mState = "RUNNING" /\ ctl \in {"idle", "stopping"} /\ ~FlushIsOver
    BY <1>2, <2>3
    DEF HealthInv, Stage, OneCall, LoadedEmpty, FlushedEmpty, Emptied, InComponent
  <2>9. /\ ~hal.eos /\ ~Queued(tasks, "onDrainDone") /\ ~AtEnd
        /\ hal.resets = 0 /\ ~Queued(tasks, "onFlushOrStopDone")
    BY <1>1, <1>2 DEF HealthInv, Drains, Resets, AtEnd
  <2>10. ~Given(w)
    BY <2>3 DEF HealthInv, GivenPending
  <2>11. /\ loc' = [loc EXCEPT ![w] = "done"] \/ loc' = [loc EXCEPT ![w] = "pending"]
         /\ gives => loc' = [loc EXCEPT ![w] = "pending"]
         /\ out'.eos /\ drains => loc' = [loc EXCEPT ![w] = "pending"] \/ In("pending") # {}
    <3> DEFINE eos       == IF drains THEN mDrainMode[w] = "withEos" ELSE out.eos
               emptyWork == ~gives /\ w \notin EosWorks \cup CsdWorks
               emptyCsd  == ~gives /\ w \in CsdWorks
    <3>1. loc' = [loc EXCEPT ![w] = IF emptyWork \/ (emptyCsd /\ ~(eos /\ In("pending") = {}))
                                    THEN "done" ELSE "pending"]
      BY <2>2 DEF Dequeue
    <3>2. out'.eos = eos
      BY <2>2 DEF Dequeue, TypeOK, OutSet
    <3>3. ~emptyWork
      BY DEF Healthy
    <3> QED BY <3>1, <3>2, <3>3
  <2>12. /\ In("pending") \subseteq In("pending")'
         /\ loc' = [loc EXCEPT ![w] = "pending"] => w \in In("pending")'
         /\ In("flushList")' = In("flushList") /\ In("destroyed")' = In("destroyed")
    BY <2>3, <2>11 DEF In, TypeOK
  <2>13. Quiet' /\ OneCall' /\ Stage'
    BY <2>5, <2>6, <2>8 DEF HealthInv, Quiet, OneCall, Stage
  <2>14. GivenPending' /\ GivenOnce'
    <3>1. \A v \in Works : Given(v)' => Given(v) \/ (v = w /\ gives)
      BY <2>4, <2>7 DEF Given
    <3>2. \A v \in Works : Given(v)' => loc'[v] = "pending" /\ v \in inputHeld'
      BY <2>3, <2>6, <2>11, <3>1 DEF HealthInv, GivenPending, TypeOK
    <3>3. ~Returning(w)
      BY <2>10 DEF Given
    <3> QED BY <2>4, <2>7, <3>2, <3>3 DEF HealthInv, GivenPending, GivenOnce
  <2>15. Resets' /\ Unused'
    BY <2>5, <2>6, <2>7, <2>9 DEF Resets, Unused
  <2>16. Drains'
    <3>1. out'.eos /\ hal'.eos => In("pending")' # {}
      BY <2>7, <2>9, <2>11, <2>12
    <3>2. ~AtEnd'
      BY <2>6, <2>9 DEF AtEnd
    <3> QED BY <2>5, <2>6, <2>7, <2>9, <3>1, <3>2 DEF Drains
  <2>17. FlushIsOver' <=> FlushIsOver
    BY <1>2, <2>5, <2>6 DEF FlushIsOver
  <2>18. FlushedEmpty' /\ LoadedEmpty' /\ QueueRuns' /\ ListOfFlush' /\ Lost'
    BY <2>5, <2>6, <2>8, <2>12, <2>17
    DEF HealthInv, FlushedEmpty, LoadedEmpty, QueueRuns, ListOfFlush, Lost
  <2> QED BY <2>4, <2>13, <2>14, <2>15, <2>16, <2>18 DEF HealthInv
<1>3. CASE ~(mComponentState = "STARTED" /\ In("queue") # {})
  <2>1. Follow(<<>>) /\ UNCHANGED <<loc, inputHeld, hal, out, mComponentState>>
    BY <1>3 DEF onDequeueWork
  <2>2. QueueCalm
    BY <1>1, <2>1, FollowCalm DEF HealthInv
  <2>3. Calm /\ CalmWorks
    BY <2>1, <2>2 DEF onDequeueWork, Calm, CalmWorks, In
  <2> QED BY <2>3, CalmSteps
<1> QED
  BY <1>2, <1>3

\* onDrain(): a drain begins while there are pending works and no other drain.
LEMMA DrainHealth ==
    ASSUME AllInv, NEW mode \in DrainMode, onDrain(mode)
    PROVE  HealthInv'
<1> USE DEF AllInv, client
<1>1. PICK op \in {"onDrainWithEos", "onDrainNoEos"} : Take(op)
  BY DEF onDrain, Run
<1>2. step = "idle" /\ QueueCalm
  BY <1>1, FollowCalm DEF onDrain, Take, HealthInv
<1>3. CASE UNCHANGED <<mComponentState, hal, out>>
  <2>1. Calm /\ CalmWorks
    BY <1>2, <1>3 DEF onDrain, Calm, CalmWorks, In
  <2> QED BY <2>1, CalmSteps
<1>4. CASE ~UNCHANGED <<mComponentState, hal, out>>
  <2>1. /\ In("pending") # {} /\ mComponentState = "STARTED"
        /\ hal' = [hal EXCEPT !.eos = TRUE] /\ mComponentState' = "DRAINING"
    BY <1>4 DEF onDrain
  <2>2. hal'.in = hal.in /\ hal'.eos /\ hal'.resets = hal.resets
    BY <2>1 DEF TypeOK, HalSet
  <2>3. UNCHANGED <<mState, mCompHasError, step, loc, inputHeld, ctl, flusher, timedOut>>
    BY DEF onDrain
  <2>4. \A o \in {"onReportError", "onNoOutFrameNotify", "onReportNoOutFrameFinished", "onDestroy",
                  "onFlush", "onQueueWork", "onDrainDone", "onInputBufferDone", "onFlushOrStopDone"} :
           /\ Queued(tasks', o) => Queued(tasks, o)
           /\ o \in {"onFlush", "onFlushOrStopDone"} => (Queued(tasks, o) <=> Queued(tasks', o))
    BY <1>2 DEF QueueCalm, Plain
  <2>5. TaskOrder(tasks') /\ \A v : Returning(v)' => Returning(v)
    BY <1>2 DEF QueueCalm
  <2>6. ~Queued(tasks, "onDrainDone") /\ ~AtEnd'
    BY <1>2, <2>1, <2>3 DEF HealthInv, Drains, AtEnd
  <2>7. mState = "RUNNING" /\ ~FlushIsOver
    <3>1. ~Emptied
      BY <2>1 DEF In, Emptied, InComponent
    <3> QED BY <3>1 DEF HealthInv, LoadedEmpty, FlushedEmpty, OneCall
  <2>8. Quiet' /\ OneCall' /\ Stage'
    BY <2>1, <2>3, <2>4, <2>7 DEF HealthInv, Quiet, OneCall, Stage
  <2>9. GivenPending' /\ GivenOnce'
    BY <2>2, <2>3, <2>5 DEF HealthInv, GivenPending, GivenOnce, Given
  <2>10. Resets' /\ Drains' /\ Unused'
    BY <2>1, <2>2, <2>3, <2>4, <2>6 DEF HealthInv, Resets, Drains, Unused, In
  <2>11. FlushIsOver' <=> FlushIsOver
    BY <2>1, <2>3, <2>4 DEF FlushIsOver
  <2>12. FlushedEmpty' /\ LoadedEmpty' /\ QueueRuns' /\ ListOfFlush' /\ Lost'
    BY <2>1, <2>3, <2>4, <2>7, <2>11
    DEF HealthInv, FlushedEmpty, LoadedEmpty, QueueRuns, ListOfFlush, Lost, In
  <2> QED BY <2>5, <2>8, <2>9, <2>10, <2>12 DEF HealthInv
<1> QED
  BY <1>3, <1>4

\* The tasks HealthInv names.
Named == {"onReportError", "onNoOutFrameNotify", "onReportNoOutFrameFinished", "onDestroy",
          "onFlush", "onQueueWork", "onDrainDone", "onInputBufferDone", "onFlushOrStopDone"}

\* What a handler without a task to follow it does to the queue, for those tasks.
LEMMA TakeFacts ==
    ASSUME AllInv, NEW op, Take(op), Follow(<<>>)
    PROVE  /\ TaskOrder(tasks')
           /\ \A o \in Named : /\ Queued(tasks', o) => Queued(tasks, o)
                               /\ Queued(tasks, o) => o = op \/ Queued(tasks', o)
           /\ \A w : Returning(w)' => Returning(w)
           /\ op = "onFlush" => ~Queued(tasks', "onFlush") /\ ~Queued(tasks', "onQueueWork")
           /\ op = "onDrainDone" =>
                  ~Queued(tasks', "onDrainDone") /\ ~Queued(tasks', "onInputBufferDone")
           /\ op = "onFlushOrStopDone" =>
                  /\ ~Queued(tasks', "onFlushOrStopDone") /\ ~Queued(tasks', "onDrainDone")
                  /\ ~Queued(tasks', "onInputBufferDone")
           /\ Queued(tasks, op) /\ step = "idle" /\ ctl # "released"
<1>1. Named \cap Plain = {}
  BY DEF Named, Plain
<1> QED
  BY <1>1, FollowFacts DEF AllInv, HealthInv, Take

\* Without inputs none is given.
LEMMA NoneGiven ==
    ASSUME TypeOK, ~Queued(tasks, "onInputBufferDone"), hal.in = {}
    PROVE  \A w \in Works : ~Given(w)
  BY DEF Given, Returning, Has, Queued, TaskFor

\* reportEOSWork() with a pending work.
LEMMA EosReported ==
    ASSUME TypeOK, In("pending") # {}, reportEOSWork
    PROVE  /\ UNCHANGED status /\ ~out'.eos
           /\ \A w \in Works : loc'[w] = loc[w] \/ (loc[w] \in {"pending", "abandoned"}
                                                     /\ loc'[w] \in {"eos", "notFound"})
<1>1. UNCHANGED status /\ out' = [out EXCEPT !.eos = FALSE]
  BY DEF reportEOSWork
<1>2. PICK w \in In("pending") :
        loc' = [v \in Works |->
                   IF v = w THEN "eos"
                   ELSE IF loc[v] = "pending" THEN "notFound"
                   ELSE IF loc[v] = "abandoned" /\ In("pending") # {w} THEN "notFound"
                   ELSE loc[v]]
  BY DEF reportEOSWork
<1>3. loc[w] = "pending"
  BY DEF In
<1> QED
  BY <1>1, <1>2, <1>3 DEF TypeOK, OutSet

\* A step that reports works, when the decoder has given every input back.
LEMMA ReportSteps ==
    ASSUME HealthInv,
           UNCHANGED <<mState, mComponentState, mCompHasError, ctl, flusher, timedOut, hal>>,
           ~AtEnd', step' # "noOutFrame", ctl = "released" => step' = "idle",
           TaskOrder(tasks'),
           \A o \in Named : Queued(tasks', o) => Queued(tasks, o),
           Queued(tasks', "onFlush") <=> Queued(tasks, "onFlush"),
           Queued(tasks', "onFlushOrStopDone") <=> Queued(tasks, "onFlushOrStopDone"),
           ~out'.eos, \A w \in Works : ~Given(w)', hal.in = {},
           \A w \in Works : loc'[w] = loc[w] \/ (loc[w] \in {"pending", "abandoned"}
                                                 /\ loc'[w] \in {"eos", "notFound"})
    PROVE  HealthInv'
<1>1. /\ \A w \in Works : loc'[w] \in InComponent => loc[w] \in InComponent
      /\ In("flushList")' \subseteq In("flushList") /\ In("destroyed")' \subseteq In("destroyed")
  BY DEF InComponent, In
<1>2. FlushIsOver' <=> FlushIsOver
  BY DEF FlushIsOver
<1>3. Quiet' /\ OneCall' /\ Stage'
  BY DEF HealthInv, Quiet, OneCall, Stage, Named
<1>4. GivenPending' /\ GivenOnce'
  BY DEF GivenPending, GivenOnce
<1>5. Resets' /\ Drains' /\ Unused'
  BY DEF HealthInv, Resets, Drains, Unused, Named
<1>6. FlushedEmpty' /\ LoadedEmpty' /\ QueueRuns' /\ ListOfFlush' /\ Lost'
  BY <1>1, <1>2
  DEF HealthInv, FlushedEmpty, LoadedEmpty, QueueRuns, ListOfFlush, Lost, Emptied, Named
<1> QED
  BY <1>3, <1>4, <1>5, <1>6 DEF HealthInv

\* onDrainDone(): it comes in a state that awaits it, and then no input is given.
LEMMA DrainDoneHealth ==
    ASSUME AllInv, onDrainDone
    PROVE  HealthInv'
<1> USE DEF AllInv
<1>1. Take("onDrainDone") /\ Follow(<<>>)
  BY DEF onDrainDone, Run
<1>2. /\ TaskOrder(tasks')
      /\ \A o \in Named : /\ Queued(tasks', o) => Queued(tasks, o)
                          /\ Queued(tasks, o) => o = "onDrainDone" \/ Queued(tasks', o)
      /\ \A w : Returning(w)' => Returning(w)
      /\ ~Queued(tasks', "onDrainDone") /\ ~Queued(tasks', "onInputBufferDone")
      /\ Queued(tasks, "onDrainDone") /\ step = "idle" /\ ctl # "released"
  BY <1>1, TakeFacts
<1>3. /\ ~hal.eos /\ hal.in = {} /\ mComponentState \in {"DRAINING", "FLUSHING", "STOPPING"}
      /\ out.eos => In("pending") # {}
  BY <1>2 DEF HealthInv, Drains
<1>4. UNCHANGED <<inputHeld, hal, ctl, flusher, timedOut>>
  BY DEF onDrainDone
<1>5. \A w \in Works : ~Given(w)'
  <2>1. \A w \in Works : ~Returning(w)'
    BY <1>2 DEF Returning, Has, Queued, TaskFor
  <2> QED BY <1>3, <1>4, <2>1 DEF Given
<1>6. CASE DrainMayEnd
  <2>1. /\ mComponentState' = IF mComponentState = "DRAINING" THEN "STARTED" ELSE "FLUSHING"
        /\ step' = "draining"
        /\ UNCHANGED <<mState, mCompHasError, loc, out>>
    BY <1>6 DEF onDrainDone, DrainMayEnd, DrainEnds
  <2>2. mComponentState = "DRAINING" => mState = "RUNNING" /\ ctl \in {"idle", "stopping"}
                                         /\ (flusher = "idle" \/ Queued(tasks, "onFlush"))
    BY DEF HealthInv, OneCall, Stage, FlushedEmpty, FlushIsOver
  <2>3. mComponentState' = "FLUSHING" <=> mComponentState = "FLUSHING"
    BY <1>3, <1>6, <2>1 DEF DrainMayEnd
  <2>4. Quiet' /\ OneCall'
    BY <1>2, <1>4, <2>1, <2>3 DEF HealthInv, Quiet, OneCall, Named
  <2>5. Stage'
    BY <1>2, <1>4, <1>6, <2>1, <2>2 DEF HealthInv, Stage, Named, DrainMayEnd
  <2>6. GivenPending' /\ GivenOnce'
    BY <1>3, <1>4, <1>5 DEF GivenPending, GivenOnce
  <2>7. Resets' /\ Unused'
    BY <1>2, <1>3, <1>4, <1>6, <2>1 DEF HealthInv, Resets, Unused, Named, DrainMayEnd
  <2>8. Drains'
    BY <1>2, <1>3, <1>4, <1>6, <2>1 DEF Drains, AtEnd, In, DrainMayEnd
  <2>9. FlushIsOver' <=> FlushIsOver
    BY <1>2, <1>4, <2>3 DEF FlushIsOver, Named
  <2>10. FlushedEmpty' /\ LoadedEmpty' /\ QueueRuns' /\ ListOfFlush' /\ Lost'
    BY <1>2, <1>4, <1>6, <2>1, <2>2, <2>9
    DEF HealthInv, FlushedEmpty, FlushIsOver, LoadedEmpty, QueueRuns, ListOfFlush, Lost, Emptied, In,
        Named, DrainMayEnd
  <2> QED BY <1>2, <2>4, <2>5, <2>6, <2>7, <2>8, <2>10 DEF HealthInv
<1>7. CASE ~DrainMayEnd
  <2>1. mComponentState = "STOPPING"
    BY <1>3, <1>7 DEF DrainMayEnd
  <2>2. UNCHANGED step /\ IF out.eos THEN reportEOSWork ELSE UNCHANGED <<status, loc, out>>
    BY <1>7, <2>1 DEF onDrainDone, DrainMayEnd
  <2>3. /\ UNCHANGED status /\ ~out'.eos
        /\ \A w \in Works : loc'[w] = loc[w] \/ (loc[w] \in {"pending", "abandoned"}
                                                 /\ loc'[w] \in {"eos", "notFound"})
    BY <1>3, <2>2, EosReported
  <2>4. ~AtEnd' /\ step' # "noOutFrame" /\ (ctl = "released" => step' = "idle")
    BY <1>2, <2>2 DEF AtEnd
  <2>5. /\ Queued(tasks', "onFlush") <=> Queued(tasks, "onFlush")
        /\ Queued(tasks', "onFlushOrStopDone") <=> Queued(tasks, "onFlushOrStopDone")
        /\ \A o \in Named : Queued(tasks', o) => Queued(tasks, o)
    BY <1>2 DEF Named
  <2> QED BY <1>2, <1>3, <1>4, <1>5, <2>3, <2>4, <2>5, ReportSteps DEF status
<1> QED
  BY <1>6, <1>7

\* and its end: EOS is reported with a pending work.
LEMMA DrainTailHealth ==
    ASSUME AllInv, DrainDoneTail
    PROVE  HealthInv'
<1> USE DEF AllInv
<1>1. AtEnd /\ step = "drained" /\ step' = "idle"
  BY DEF DrainDoneTail, AtEnd
<1>2. hal.in = {} /\ ~Queued(tasks, "onInputBufferDone") /\ (out.eos => In("pending") # {})
  BY <1>1 DEF HealthInv, Drains
<1>3. IF out.eos THEN reportEOSWork ELSE UNCHANGED <<status, loc, out>>
  BY DEF DrainDoneTail
<1>4. /\ UNCHANGED status /\ ~out'.eos
      /\ \A w \in Works : loc'[w] = loc[w] \/ (loc[w] \in {"pending", "abandoned"}
                                               /\ loc'[w] \in {"eos", "notFound"})
  BY <1>2, <1>3, EosReported
<1>5. UNCHANGED <<inputHeld, hal, ctl, flusher, timedOut>> /\ Post(Task("onDequeueWork"))
  BY <1>2 DEF DrainDoneTail
<1>6. QueueCalm
  BY <1>5, PostCalm, TaskTypes, OpsDiffer DEF HealthInv, Task, Plain
<1>7. /\ TaskOrder(tasks')
      /\ \A o \in Named : Queued(tasks', o) => Queued(tasks, o)
      /\ Queued(tasks', "onFlush") <=> Queued(tasks, "onFlush")
      /\ Queued(tasks', "onFlushOrStopDone") <=> Queued(tasks, "onFlushOrStopDone")
      /\ \A w : Returning(w)' => Returning(w)
  BY <1>6 DEF QueueCalm, Named, Plain
<1>8. \A w \in Works : ~Given(w)'
  BY <1>2, <1>5, <1>7, NoneGiven DEF Given
<1>9. ~AtEnd' /\ step' # "noOutFrame" /\ (ctl = "released" => step' = "idle")
  BY <1>1 DEF AtEnd
<1> QED
  BY <1>2, <1>4, <1>5, <1>7, <1>8, <1>9, ReportSteps DEF status

\* onFlush(): it comes to a component that runs, and asks for the one reset.
LEMMA FlushHealth ==
    ASSUME AllInv, onFlush
    PROVE  HealthInv'
<1> USE DEF AllInv
<1>1. Take("onFlush") /\ Follow(<<>>)
  BY DEF onFlush, Run
<1>2. /\ TaskOrder(tasks')
      /\ \A o \in Named : /\ Queued(tasks', o) => Queued(tasks, o)
                          /\ Queued(tasks, o) => o = "onFlush" \/ Queued(tasks', o)
      /\ \A w : Returning(w)' => Returning(w)
      /\ ~Queued(tasks', "onFlush") /\ ~Queued(tasks', "onQueueWork")
      /\ Queued(tasks, "onFlush") /\ step = "idle" /\ ctl # "released"
  BY <1>1, TakeFacts
<1>3. flusher \notin {"idle", "signalled"} /\ ctl = "idle" /\ mState = "RUNNING"
  BY <1>2 DEF HealthInv, OneCall
<1>4. mComponentState \in {"STARTED", "DRAINING"}
  BY <1>2, <1>3, StateNames DEF HealthInv, Stage, TypeOK
<1>5. /\ mComponentState' = "FLUSHING" /\ mCompHasError' = FALSE
      /\ hal' = [hal EXCEPT !.resets = @ + 1] /\ out' = [out EXCEPT !.last = 0]
      /\ UNCHANGED <<mState, step, loc, inputHeld, ctl, flusher, timedOut>>
  BY <1>4 DEF onFlush, SetState, work, client
<1>6. hal.resets = 0 /\ ~Queued(tasks, "onFlushOrStopDone")
  BY <1>4 DEF HealthInv, Resets
<1>7. hal'.in = hal.in /\ hal'.eos = hal.eos /\ hal'.resets = 1 /\ out'.eos = out.eos
  BY <1>5, <1>6 DEF TypeOK, HalSet, OutSet
<1>8. Quiet' /\ OneCall' /\ Stage'
  BY <1>2, <1>3, <1>5 DEF HealthInv, Quiet, OneCall, Stage, Named
<1>9. GivenPending' /\ GivenOnce'
  BY <1>2, <1>5, <1>7 DEF HealthInv, GivenPending, GivenOnce, Given
<1>10. Resets' /\ Drains' /\ Unused'
  BY <1>2, <1>5, <1>6, <1>7 DEF HealthInv, Resets, Drains, Unused, AtEnd, In, Named
<1>11. ~FlushIsOver /\ ~FlushIsOver'
  BY <1>2, <1>5 DEF FlushIsOver
<1>12. FlushedEmpty' /\ LoadedEmpty' /\ QueueRuns' /\ ListOfFlush' /\ Lost'
  BY <1>2, <1>3, <1>5, <1>11
  DEF HealthInv, FlushedEmpty, LoadedEmpty, QueueRuns, ListOfFlush, Lost, In
<1> QED
  BY <1>2, <1>8, <1>9, <1>10, <1>12 DEF HealthInv

\* onStop(): so does this one.
LEMMA StopHealth ==
    ASSUME AllInv, onStop
    PROVE  HealthInv'
<1> USE DEF AllInv
<1>1. Take("onStop") /\ Follow(<<>>)
  BY DEF onStop, Run
<1>2. /\ TaskOrder(tasks')
      /\ \A o \in Named : /\ Queued(tasks', o) => Queued(tasks, o)
                          /\ Queued(tasks, o) => o = "onStop" \/ Queued(tasks', o)
      /\ \A w : Returning(w)' => Returning(w)
      /\ Queued(tasks, "onStop") /\ step = "idle" /\ ctl # "released"
  BY <1>1, TakeFacts
<1>3. ctl = "stopping" /\ ~No(tasks, StopOrWork) /\ mState = "RUNNING" /\ flusher = "idle"
  <2>1. ~No(tasks, {"onStop"}) /\ ~No(tasks, StopOrWork)
    BY <1>2 DEF No, Queued, StopOrWork
  <2>2. ctl = "stopping"
    BY <2>1 DEF StopInv, StopOfStopping
  <2> QED BY <2>1, <2>2 DEF HealthInv, OneCall
<1>4. mComponentState \in {"STARTED", "DRAINING"}
  BY <1>3, StateNames DEF HealthInv, Stage, StopInv, StoppingIsAlone, TypeOK
<1>5. ~Queued(tasks', "onQueueWork")
  <2>1. tasks \in Seq(TaskSet) /\ tasks # <<>> /\ Head(tasks).op = "onStop" /\ tasks' = Tail(tasks)
    BY <1>1, FollowNothing DEF Take, TypeOK
  <2>2. No(tasks', StopOrWork)
    BY <2>1, AfterHead DEF StopInv, StopLast
  <2> QED BY <2>2 DEF No, Queued, StopOrWork
<1>6. /\ mComponentState' = "STOPPING" /\ loc' = Moved(In("queue"), "abandoned")
      /\ hal' = [hal EXCEPT !.resets = @ + 1]
      /\ UNCHANGED <<mState, mCompHasError, step, inputHeld, out, ctl, flusher, timedOut>>
  BY <1>4 DEF onStop, HealthInv, Quiet
<1>7. hal.resets = 0 /\ ~Queued(tasks, "onFlushOrStopDone")
  BY <1>4 DEF HealthInv, Resets
<1>8. hal'.in = hal.in /\ hal'.eos = hal.eos /\ hal'.resets = 1
  BY <1>6, <1>7 DEF TypeOK, HalSet
<1>9. /\ In("pending")' = In("pending") /\ In("flushList")' = In("flushList")
      /\ In("destroyed")' = In("destroyed")
      /\ \A w \in Works : loc[w] = "pending" => loc'[w] = "pending"
  BY <1>6 DEF Moved, In
<1>10. Quiet' /\ OneCall' /\ Stage'
  BY <1>2, <1>3, <1>6 DEF HealthInv, Quiet, OneCall, Stage, Named
<1>11. GivenPending' /\ GivenOnce'
  BY <1>2, <1>6, <1>8, <1>9 DEF HealthInv, GivenPending, GivenOnce, Given
<1>12. Resets' /\ Drains' /\ Unused'
  BY <1>2, <1>6, <1>7, <1>8, <1>9 DEF HealthInv, Resets, Drains, Unused, AtEnd, Named
<1>13. ~FlushIsOver /\ ~FlushIsOver'
  BY <1>3, <1>6 DEF FlushIsOver
<1>14. FlushedEmpty' /\ LoadedEmpty' /\ QueueRuns' /\ ListOfFlush' /\ Lost'
  BY <1>3, <1>5, <1>6, <1>9, <1>13
  DEF HealthInv, FlushedEmpty, LoadedEmpty, QueueRuns, ListOfFlush, Lost
<1> QED
  BY <1>2, <1>10, <1>11, <1>12, <1>14 DEF HealthInv

\* onFlushOrStopDone(): the answer of the reset the component waits for.
LEMMA ResetDoneHealth ==
    ASSUME AllInv, onFlushOrStopDone
    PROVE  HealthInv'
<1> USE DEF AllInv
<1>1. Take("onFlushOrStopDone") /\ Follow(<<>>)
  BY DEF onFlushOrStopDone, Run
<1>2. /\ TaskOrder(tasks')
      /\ \A o \in Named : /\ Queued(tasks', o) => Queued(tasks, o)
                          /\ Queued(tasks, o) => o = "onFlushOrStopDone" \/ Queued(tasks', o)
      /\ ~Queued(tasks', "onFlushOrStopDone") /\ ~Queued(tasks', "onDrainDone")
      /\ ~Queued(tasks', "onInputBufferDone")
      /\ Queued(tasks, "onFlushOrStopDone") /\ step = "idle" /\ ctl # "released"
  BY <1>1, TakeFacts
<1>3. /\ hal.in = {} /\ ~hal.eos /\ hal.resets = 0
      /\ mComponentState \in {"FLUSHING", "STOPPING"}
  <2>1. hal.resets \in Nat
    BY DEF TypeOK, HalSet
  <2> QED BY <1>2, <2>1 DEF HealthInv, Resets
<1>4. UNCHANGED <<mState, inputHeld, hal, timedOut>> /\ step' = "resetInfo"
  BY <1>3 DEF onFlushOrStopDone
<1>5. \A w \in Works : ~Given(w)'
  <2>1. \A w \in Works : ~Returning(w)'
    BY <1>2 DEF Returning, Has, Queued, TaskFor
  <2> QED BY <1>3, <1>4, <2>1 DEF Given
<1>6. GivenPending' /\ GivenOnce'
  BY <1>3, <1>4, <1>5 DEF GivenPending, GivenOnce
<1>7. ~AtEnd'
  BY <1>4 DEF AtEnd
<1>8. CASE mComponentState = "FLUSHING"
  <2>1. onFlushDone /\ UNCHANGED ctl
    BY <1>8 DEF onFlushOrStopDone, HealthInv, Quiet
  <2>2. /\ mComponentState' = "STARTED" /\ mCompHasError' = FALSE
        /\ flusher' = (IF flusher = "waiting" THEN "signalled" ELSE flusher)
    BY <2>1 DEF onFlushDone, SetState
  <2>3. /\ flusher # "idle" /\ mState = "RUNNING" /\ ctl = "idle"
        /\ ~Queued(tasks, "onFlush") /\ ~Queued(tasks, "onQueueWork")
    BY <1>8 DEF HealthInv, OneCall, Stage
  <2>4. Emptied'
    <3>1. \A w \in Works : loc[w] # "posted"
      <4>1. \A w \in Works : ~Carries(tasks, w)
        BY <2>3 DEF Carries, Queued, TaskFor
      <4> QED BY <4>1 DEF StopInv, PostedCarried
    <3>2. \A w \in Works : loc'[w] = IF loc[w] \in FlushedPlaces THEN "flushList"
                                     ELSE IF loc[w] = "flushList" THEN "destroyed" ELSE loc[w]
      BY <2>1 DEF onFlushDone
    <3> QED BY <3>1, <3>2 DEF Emptied, InComponent, FlushedPlaces
  <2>5. ~timedOut => In("flushList") = {} /\ In("destroyed") = {}
    BY <1>8 DEF HealthInv, ListOfFlush, Lost, FlushIsOver
  <2>6. Lost'
    BY <1>4, <2>1, <2>5 DEF Lost, onFlushDone, In, FlushedPlaces
  <2>7. FlushIsOver'
    BY <1>2, <2>2, <2>3 DEF FlushIsOver, Named
  <2>8. Quiet' /\ OneCall' /\ Stage'
    BY <1>2, <1>4, <2>1, <2>2, <2>3 DEF HealthInv, Quiet, OneCall, Stage, Named
  <2>9. Resets' /\ Drains' /\ Unused'
    BY <1>2, <1>3, <1>4, <1>7, <2>2 DEF Resets, Drains, Unused
  <2>10. FlushedEmpty' /\ LoadedEmpty' /\ QueueRuns' /\ ListOfFlush'
    BY <1>2, <2>2, <2>3, <2>4, <2>7
    DEF FlushedEmpty, LoadedEmpty, QueueRuns, ListOfFlush, Named
  <2> QED BY <1>2, <1>6, <2>6, <2>8, <2>9, <2>10 DEF HealthInv
<1>9. CASE mComponentState = "STOPPING"
  <2>1. onStopDone(In("pending") \cup In("abandoned")) /\ UNCHANGED flusher
    BY <1>9 DEF onFlushOrStopDone
  <2>2. /\ mComponentState' = "UNINITIALIZED" /\ mCompHasError' = FALSE /\ ctl' = "stopped"
        /\ loc' = Moved(In("pending") \cup In("abandoned"), "notFound")
    BY <2>1 DEF onStopDone, SetState, reportAbandonedWorks
  <2>3. ctl = "stopping" /\ mState = "RUNNING" /\ flusher = "idle"
        /\ ~Queued(tasks, "onQueueWork") /\ ~Queued(tasks, "onDestroy")
    <3>1. ctl = "stopping" /\ No(tasks, StopOrWork)
      BY <1>9 DEF StopInv, StoppingIsAlone
    <3>2. ~Queued(tasks, "onQueueWork")
      BY <3>1 DEF No, Queued, StopOrWork
    <3> QED BY <3>1, <3>2 DEF HealthInv, OneCall
  <2>4. In("flushList")' = In("flushList") /\ In("destroyed")' = In("destroyed")
    BY <2>2 DEF Moved, In
  <2>5. ~FlushIsOver /\ ~FlushIsOver'
    BY <2>1, <2>3 DEF FlushIsOver
  <2>6. Quiet' /\ OneCall' /\ Stage'
    BY <1>2, <1>4, <2>1, <2>2, <2>3 DEF HealthInv, Quiet, OneCall, Stage, Named
  <2>7. Resets' /\ Drains' /\ Unused'
    BY <1>2, <1>3, <1>4, <1>7, <2>2 DEF Resets, Drains, Unused
  <2>8. FlushedEmpty' /\ LoadedEmpty' /\ QueueRuns' /\ ListOfFlush' /\ Lost'
    BY <1>2, <1>4, <2>3, <2>4, <2>5
    DEF HealthInv, FlushedEmpty, LoadedEmpty, QueueRuns, ListOfFlush, Lost, Named
  <2> QED BY <1>2, <1>6, <2>6, <2>7, <2>8 DEF HealthInv
<1> QED
  BY <1>3, <1>8, <1>9

\* onStart() and onDestroy(), of a component that is not in use.
LEMMA StartHealth ==
    ASSUME AllInv, NEW outcome \in StartOutcomes, onStart(outcome)
    PROVE  HealthInv'
<1> USE DEF AllInv
<1>1. Take("onStart") /\ Follow(<<>>)
  BY DEF onStart, Run
<1>2. /\ TaskOrder(tasks')
      /\ \A o \in Named : Queued(tasks', o) => Queued(tasks, o)
      /\ \A w : Returning(w)' => Returning(w)
      /\ Queued(tasks, "onStart") /\ step = "idle" /\ ctl # "released"
  BY <1>1, TakeFacts
<1>3. ctl = "starting" /\ mState = "LOADED" /\ flusher = "idle"
  <2>1. ~No(tasks, {"onStart"})
    BY <1>2 DEF No, Queued
  <2>2. ctl = "starting"
    BY <2>1 DEF StopInv, StartOfStarting
  <2> QED BY <2>2 DEF HealthInv, OneCall
<1>4. mComponentState \in {"UNINITIALIZED", "STARTING"}
  BY <1>3, StateNames DEF HealthInv, Stage, TypeOK
<1>5. /\ hal'.in = {} /\ ~hal'.eos /\ hal'.resets = 0 /\ mCompHasError' = FALSE
      /\ UNCHANGED <<mState, step, loc, inputHeld, out, flusher, timedOut>>
      /\ \/ mComponentState' = "STARTED" /\ ctl' = "started"
         \/ mComponentState' = "STARTING" /\ ctl' \in {"starting", "startFailed"}
  <2>1. outcome \in {"success", "initFailed", "noProfile"}
    BY CallAssumption DEF StartOutcome
  <2> QED BY <1>3, <2>1 DEF onStart, IdleHal, SetState, work
<1>6. ~Queued(tasks', "onFlushOrStopDone") /\ ~Queued(tasks', "onInputBufferDone")
      /\ ~Queued(tasks', "onDrainDone") /\ ~Queued(tasks', "onQueueWork")
  BY <1>2, <1>4 DEF HealthInv, Resets, Unused, QueueRuns, Named
<1>7. ~AtEnd' /\ hal'.in = {}
  BY <1>2, <1>5 DEF AtEnd
<1>8. \A w \in Works : ~Given(w)'
  <2>1. \A w \in Works : ~Returning(w)'
    BY <1>6 DEF Returning, Has, Queued, TaskFor
  <2> QED BY <1>7, <2>1 DEF Given
<1>9. GivenPending' /\ GivenOnce'
  BY <1>7, <1>8 DEF GivenPending, GivenOnce
<1>10. Quiet' /\ OneCall' /\ Stage'
  BY <1>2, <1>3, <1>5 DEF HealthInv, Quiet, OneCall, Stage, Named
<1>11. Resets' /\ Drains' /\ Unused'
  BY <1>5, <1>6, <1>7 DEF Resets, Drains, Unused
<1>12. ~FlushIsOver /\ ~FlushIsOver'
  BY <1>3, <1>5 DEF FlushIsOver
<1>13. FlushedEmpty' /\ LoadedEmpty' /\ QueueRuns' /\ ListOfFlush' /\ Lost'
  BY <1>5, <1>6, <1>12
  DEF HealthInv, FlushedEmpty, LoadedEmpty, QueueRuns, ListOfFlush, Lost, Emptied, In
<1> QED
  BY <1>2, <1>9, <1>10, <1>11, <1>13 DEF HealthInv

LEMMA DestroyHealth ==
    ASSUME AllInv, onDestroy
    PROVE  HealthInv' /\ UNCHANGED loc
<1> USE DEF AllInv
<1>1. Take("onDestroy") /\ tasks \in Seq(TaskSet)
  BY DEF onDestroy, Run, TypeOK
<1>2. Queued(tasks, "onDestroy") /\ step = "idle" /\ ctl # "released"
  BY <1>1 DEF Take, Queued
<1>3. ctl = "releasing" /\ mState = "LOADED" /\ flusher = "idle"
  BY <1>2 DEF HealthInv, OneCall
<1>4. /\ tasks' = <<>> /\ hal'.in = {} /\ ~hal'.eos /\ hal'.resets = 0
      /\ mComponentState' = "DESTROYED" /\ mCompHasError' = FALSE /\ ctl' = "released"
      /\ UNCHANGED <<mState, step, flusher, timedOut>>
  BY DEF onDestroy, IdleHal, SetState
<1>5. UNCHANGED loc
  <2>1. \A w \in Works : loc[w] # "posted"
    BY <1>3 DEF HealthInv, LoadedEmpty, Emptied, InComponent
  <2>2. loc' = [w \in Works |-> loc[w]]
    BY <2>1 DEF onDestroy, Moved, In
  <2> QED BY <2>2 DEF TypeOK
<1>6. TaskOrder(tasks') /\ (\A o : ~Queued(tasks', o)) /\ \A w : ~Returning(w)'
  BY <1>4 DEF TaskOrder, After, Distinct, Queued, Returning, Has
<1>7. ~AtEnd' /\ \A w \in Works : ~Given(w)'
  BY <1>2, <1>4, <1>6 DEF AtEnd, Given
<1>8. GivenPending' /\ GivenOnce'
  BY <1>4, <1>7 DEF GivenPending, GivenOnce
<1>9. Quiet' /\ OneCall' /\ Stage'
  BY <1>2, <1>3, <1>4, <1>6 DEF HealthInv, Quiet, OneCall, Stage
<1>10. Resets' /\ Drains' /\ Unused'
  BY <1>4, <1>6, <1>7 DEF Resets, Drains, Unused
<1>11. ~FlushIsOver /\ ~FlushIsOver'
  BY <1>3, <1>4 DEF FlushIsOver
<1>12. FlushedEmpty' /\ LoadedEmpty' /\ QueueRuns' /\ ListOfFlush' /\ Lost'
  BY <1>4, <1>5, <1>6, <1>11
  DEF HealthInv, FlushedEmpty, LoadedEmpty, QueueRuns, ListOfFlush, Lost, Emptied, In
<1> QED
  BY <1>5, <1>6, <1>8, <1>9, <1>10, <1>12 DEF HealthInv

\* A call, an error or an early timeout is counted, and only a flush times out.
LEMMA CallsMade ==
    ASSUME [Next]_vars
    PROVE  \/ UNCHANGED <<timedOut, calls>>
           \/ timedOut' /\ (UNCHANGED calls \/ (May("earlyTimeout") /\ Count("earlyTimeout")))
           \/ UNCHANGED timedOut /\ \E c \in Call \ {"earlyTimeout"} : May(c) /\ Count(c)
<1>1. CASE Client
  BY <1>1
  DEF Client, queue_nb, drain_nb, flush_sm, FlushWait, FlushTimeout, FlushReturn, start,
      StartReturn, stop, StopReturn, release, Call
<1>2. CASE Handler
  BY <1>2
  DEF Handler, Skip, onQueueWork, onDequeueWork, onInputBufferDone, onOutputBufferDone,
      sendOutputBufferToWorkIfAnyTask, sendOutputBufferToWorkIfAny, NothingToSend, onDrain,
      onDrainDone, DrainDoneTail, onFlush, onStop, onFlushOrStopDone,
      resetInputAndOutputBufInfo, onErrorFrame, onNoOutFrameNotify,
      onReportNoOutFrameFinished, ReportNoOutFrame, onReportError, onDestroy, onStart, client
<1>3. CASE Decoder
  BY <1>3
  DEF Decoder, NotifyEndOfBitstreamBuffer, PictureReady, NotifyEvent, NotifyFlushDone,
      NotifyFlushOrStopDone, NotifyError, HalOnly, Call
<1>4. CASE UNCHANGED vars
  BY <1>4 DEF vars, client
<1> QED
  BY <1>1, <1>2, <1>3, <1>4 DEF Next

\* Nothing that was counted is forgotten.
LEMMA CountsGrow ==
    ASSUME TypeOK, [Next]_vars, Orderly'
    PROVE  Orderly
<1>1. calls \in [Call -> Nat]
  BY DEF TypeOK
<1>2. \A c \in Call : calls'[c] = calls[c] \/ calls'[c] = calls[c] + 1
  BY <1>1, CallsMade DEF Count
<1>3. \A c \in {"halError", "earlyTimeout"} : calls[c] \in Nat /\ (calls'[c] = 0 => calls[c] = 0)
  BY <1>1, <1>2 DEF Call
<1> QED
  BY <1>3 DEF Orderly

\* HealthInv holds as long as the session is orderly.
LEMMA NextHealth ==
    ASSUME Healthy, AllInv, [Next]_vars, Orderly'
    PROVE  HealthInv'
<1>1. CASE Client
  BY <1>1, QueueHealth, CallHealth DEF Client, Healthy
<1>2. CASE Handler
  BY <1>2, QueueWorkHealth, DequeueHealth, DrainHealth, DrainDoneHealth, DrainTailHealth,
     FlushHealth, StopHealth, ResetDoneHealth, StartHealth, DestroyHealth, CalmHandlers
  DEF Handler
<1>3. CASE Decoder
  BY <1>3, DecoderHealth
<1>4. CASE UNCHANGED vars
  <2>1. QueueCalm
    BY <1>4, SameCalm DEF vars, thread, AllInv, HealthInv
  <2>2. Calm /\ CalmWorks
    BY <1>4, <2>1 DEF vars, status, thread, work, client, Calm, CalmWorks, In
  <2> QED BY <2>2, CalmSteps DEF AllInv
<1> QED
  BY <1>1, <1>2, <1>3, <1>4 DEF Next

LEMMA InitHealth == Init => HealthInv
<1> SUFFICES ASSUME Init PROVE HealthInv
  OBVIOUS
<1>1. TaskOrder(tasks) /\ (\A o : ~Queued(tasks, o)) /\ \A w : ~Returning(w)
  BY DEF Init, TaskOrder, After, Distinct, Queued, Returning, Has
<1>2. hal.in = {} /\ ~hal.eos /\ hal.resets = 0 /\ ~out.eos
  BY DEF Init, IdleHal
<1>3. Emptied /\ In("flushList") = {} /\ In("destroyed") = {}
  BY DEF Init, Emptied, In, InComponent
<1>4. Quiet /\ OneCall /\ Stage
  BY <1>1 DEF Init, Quiet, OneCall, Stage
<1>5. GivenPending /\ GivenOnce /\ Resets /\ Drains /\ Unused
  BY <1>1, <1>2 DEF Init, GivenPending, GivenOnce, Given, Resets, Drains, Unused, AtEnd
<1>6. FlushedEmpty /\ LoadedEmpty /\ QueueRuns /\ ListOfFlush /\ Lost
  BY <1>1, <1>3 DEF Init, FlushedEmpty, FlushIsOver, LoadedEmpty, QueueRuns, ListOfFlush, Lost
<1> QED
  BY <1>1, <1>4, <1>5, <1>6 DEF HealthInv

\* An early timeout is a timeout.
EarlyIsTimeout == calls["earlyTimeout"] > 0 => timedOut

LEMMA NextEarly == TypeOK /\ EarlyIsTimeout /\ [Next]_vars => EarlyIsTimeout'
<1>1. TypeOK => \A c \in Call \ {"earlyTimeout"} :
                   Count(c) => calls'["earlyTimeout"] = calls["earlyTimeout"]
  BY DEF TypeOK, Count, Call
<1> QED
  BY <1>1, CallsMade DEF EarlyIsTimeout

\* HealthInv, as long as the session is orderly.
OrderlyInv == TypeOK /\ StopInv /\ FrameInv /\ EarlyIsTimeout /\ (Orderly => HealthInv)

LEMMA HealthCorrect ==
    ASSUME Healthy
    PROVE  Spec => []OrderlyInv
<1>1. Init => OrderlyInv
  <2> SUFFICES ASSUME Init PROVE OrderlyInv
    OBVIOUS
  <2>1. EarlyIsTimeout
    BY DEF Init, EarlyIsTimeout, Call
  <2> QED BY <2>1, InitType, InitStops, InitFrames, InitHealth DEF OrderlyInv
<1>2. OrderlyInv /\ [Next]_vars => OrderlyInv'
  <2> SUFFICES ASSUME OrderlyInv, [Next]_vars PROVE OrderlyInv'
    OBVIOUS
  <2>1. TypeOK' /\ StopInv' /\ FrameInv' /\ EarlyIsTimeout'
    BY NextType, NextStops, NextFrames, NextEarly DEF OrderlyInv, Healthy
  <2>2. ASSUME Orderly' PROVE HealthInv'
    <3>1. Orderly
      BY <2>2, CountsGrow DEF OrderlyInv
    <3> QED BY <2>2, <3>1, NextHealth DEF OrderlyInv, AllInv
  <2> QED BY <2>1, <2>2 DEF OrderlyInv
<1> QED
  BY <1>1, <1>2, PTL DEF Spec

\* A session without errors and late flushes is orderly.
LEMMA CleanHealth == OrderlyInv /\ Clean => HealthInv /\ ~timedOut
<1> SUFFICES ASSUME OrderlyInv, Clean PROVE HealthInv /\ ~timedOut
  OBVIOUS
<1>1. calls["earlyTimeout"] \in Nat
  BY DEF OrderlyInv, TypeOK, Call
<1>2. Orderly
  BY <1>1 DEF OrderlyInv, Orderly, Clean, EarlyIsTimeout
<1> QED
  BY <1>2 DEF OrderlyInv, Clean

\* No work is destroyed: none is on its way to a component that is dead, and the
\* list of a flush has gone to the client before the next flush renews it.
THEOREM NoWorkLostCorrect ==
    ASSUME Healthy
    PROVE  Spec => []NoWorkLost
<1>1. OrderlyInv => NoWorkLost
  BY CleanHealth DEF HealthInv, Lost, NoWorkLost
<1> QED
  BY <1>1, HealthCorrect, PTL

\* No stale callback of a drain, flush or stop makes the component report an error.
THEOREM NoSpuriousErrorCorrect ==
    ASSUME Healthy
    PROVE  Spec => []NoSpuriousError
<1>1. OrderlyInv => NoSpuriousError
  BY CleanHealth DEF HealthInv, Quiet, NoSpuriousError
<1> QED
  BY <1>1, HealthCorrect, PTL

\* An input the decoder reads belongs to a work that is still pending.
THEOREM InputKeptCorrect ==
    ASSUME Healthy
    PROVE  Spec => []InputKeptForDecoder
<1>1. OrderlyInv => InputKeptForDecoder
  <2> SUFFICES ASSUME OrderlyInv, Clean PROVE hal.in \subseteq In("pending")
    BY DEF InputKeptForDecoder
  <2>1. hal.in \subseteq Works
    BY DEF OrderlyInv, TypeOK, HalSet
  <2> QED BY <2>1, CleanHealth DEF HealthInv, GivenPending, Given, In
<1> QED
  BY <1>1, HealthCorrect, PTL

-----------------------------------------------------------------------------
(* The pictures of a drain.  The decoder tells of the pictures it owes before *)
(* it answers, the works they belong to are pending until they are attached,  *)
(* and only the work kept for EOS makes the others wait: so reportEOSWork()   *)
(* finds one work, of which the picture is there or which had no input.       *)

\* What a session needs for each work to come back with a picture: works with an input
\* for the decoder, but for EOS, and a decoder that makes a picture of each frame.
Delivering ==
    /\ Healthy
    /\ CsdWorks = {}
    /\ HalOutcomes \subseteq {"picture", "twoPictures"}

\* The component is not about to throw everything away.
Settled == mComponentState \notin {"FLUSHING", "STOPPING"}

\* The pictures of a frame are told before the answer of a drain or of a reset.
Answers == {"onDrainDone", "onFlushOrStopDone"}
Told(w) == Has(tasks, TaskFor("onOutputBufferDone", w))
PictureOrder(s) == \A o \in Answers : After(s, o, {"onOutputBufferDone"})
AllMade ==
    (AtEnd \/ \E o \in Answers : Queued(tasks, o)) => \A w \in Works : hal.owes[w] = "nothing"
AllTold == AtEnd => \A w \in Works : ~Told(w)

\* The picture of a pending work is on its way, and so is its input.
Coming ==
    Settled => \A w \in In("pending") : /\ w \notin NoBufferWorks => Pictured(w)
                                        /\ w \in inputHeld => Given(w)
HeldBegun == \A w \in inputHeld : Begun(w)

\* A work without input is the end of the stream that is being drained.
EndOfDrain ==
    Settled => \A w \in In("pending") \cap NoBufferWorks :
                   /\ out.eos /\ (mComponentState = "DRAINING" \/ AtEnd)
                   /\ \A v \in In("pending") \cap NoBufferWorks : v = w
EndsDrain == \A w \in In("queue") \cap EosWorks : mDrainMode[w] = "withEos"

\* A second picture of a work finds one to clone.
Cloneable ==
    /\ ready # {} => out.cloneable
    /\ Settled => \A w \in Works : Pictured(w) /\ loc[w] # "pending" => out.cloneable

\* The pictures that are left after a drain are of the work kept for EOS.
Drained ==
    step = "drained" /\ Settled =>
        out.buffers = <<>> \/ (out.cloneable /\ \E w \in Works : In("pending") = {w})

StopAbandons == In("abandoned") # {} => mComponentState = "STOPPING"

DeliveryInv ==
    /\ PictureOrder(tasks) /\ AllMade /\ AllTold
    /\ Coming /\ HeldBegun
    /\ EndOfDrain /\ EndsDrain
    /\ Cloneable /\ Drained /\ StopAbandons

\* What a step does to the queue that tells of no picture and gives no input back.
PictureQueue ==
    /\ PictureOrder(tasks')
    /\ \A o \in Answers : Queued(tasks', o) => Queued(tasks, o)
    /\ \A w \in Works : (Told(w)' <=> Told(w)) /\ (Returning(w)' <=> Returning(w))

\* A task stays queued until it is taken.
LEMMA HasTail ==
    ASSUME NEW s \in Seq(TaskSet), s # <<>>, NEW t, Has(s, t), t # Head(s)
    PROVE  Has(Tail(s), t)
<1>1. \A i \in 1..Len(s) : i = 1 \/ (i - 1 \in 1..Len(Tail(s)) /\ Tail(s)[i - 1] = s[i])
  OBVIOUS
<1>2. s[1] = Head(s)
  OBVIOUS
<1> QED
  BY <1>1, <1>2 DEF Has

LEMMA PictureSame ==
    ASSUME PictureOrder(tasks), tasks' = tasks
    PROVE  PictureQueue
  BY DEF PictureQueue, Told, Returning

LEMMA PicturePost ==
    ASSUME TypeOK, PictureOrder(tasks), NEW t \in TaskSet, Post(t),
           t.op \notin Answers \cup {"onOutputBufferDone", "onInputBufferDone"}
    PROVE  PictureQueue
<1>1. tasks \in Seq(TaskSet) /\ tasks' = Append(tasks, t)
  BY DEF TypeOK, Post
<1>2. t.op \notin Answers /\ t.op \notin {"onOutputBufferDone"}
  OBVIOUS
<1>3. PictureOrder(tasks')
  BY <1>1, <1>2, AfterAppend DEF PictureOrder
<1>4. \A w : t # TaskFor("onOutputBufferDone", w) /\ t # TaskFor("onInputBufferDone", w)
  BY DEF TaskFor
<1> QED
  BY <1>1, <1>2, <1>3, <1>4, AppendFacts DEF PictureQueue, Told, Returning

\* What a handler does to these tasks.
LEMMA PictureTake ==
    ASSUME TypeOK, PictureOrder(tasks), NEW op, Take(op),
           Follow(<<>>) \/ \E next \in (Op \ WorkOp) \cap Plain : Follow(<<Task(next)>>)
    PROVE  /\ PictureOrder(tasks')
           /\ \A o \in Answers : Queued(tasks', o) => Queued(tasks, o)
           /\ \A w \in Works :
                  /\ Told(w)' => Told(w)
                  /\ Told(w) => Told(w)' \/ Head(tasks) = TaskFor("onOutputBufferDone", w)
                  /\ Returning(w)' => Returning(w)
                  /\ Returning(w) => Returning(w)' \/ Head(tasks) = TaskFor("onInputBufferDone", w)
           /\ op \in Answers => \A w \in Works : ~Told(w)'
           /\ Queued(tasks, op)
           /\ op \notin {"onOutputBufferDone", "onInputBufferDone"} => PictureQueue
<1>1. tasks \in Seq(TaskSet) /\ tasks # <<>> /\ Head(tasks).op = op
  BY DEF TypeOK, Take
<1> DEFINE r == Tail(tasks)
<1>2. r \in Seq(TaskSet)
  BY <1>1
<1>3. PictureOrder(r) /\ (op \in Answers => No(r, {"onOutputBufferDone"}))
  BY <1>1, AfterTail, AfterHead DEF PictureOrder
<1>4. /\ \A o : Queued(r, o) => Queued(tasks, o)
      /\ \A t : Has(r, t) => Has(tasks, t)
      /\ \A t : Has(tasks, t) => Has(r, t) \/ t = Head(tasks)
      /\ Queued(tasks, op)
  BY <1>1, TailFacts, HasTail
<1>5. op \in Answers => \A w : ~Has(r, TaskFor("onOutputBufferDone", w))
  BY <1>3 DEF No, Has, TaskFor
<1>6. /\ PictureOrder(tasks')
      /\ \A o \in Answers : Queued(tasks', o) <=> Queued(r, o)
      /\ \A w : \A o \in {"onOutputBufferDone", "onInputBufferDone"} :
             Has(tasks', TaskFor(o, w)) <=> Has(r, TaskFor(o, w))
  <2>1. CASE Follow(<<>>)
    <3>1. tasks' = r
      BY <1>1, <2>1, FollowNothing
    <3> HIDE DEF r
    <3> QED BY <1>3, <3>1
  <2>2. CASE \E next \in (Op \ WorkOp) \cap Plain : Follow(<<Task(next)>>)
    <3>1. PICK next \in (Op \ WorkOp) \cap Plain : Follow(<<Task(next)>>)
      BY <2>2
    <3>2. Task(next) \in TaskSet /\ Task(next).op = next
      BY TaskTypes DEF Task
    <3>3. tasks' = Append(r, Task(next))
      BY <1>1, <3>1, <3>2, FollowOne
    <3>4. /\ next \notin {"onOutputBufferDone"} /\ next \notin Answers
          /\ \A w : /\ Task(next) # TaskFor("onOutputBufferDone", w)
                    /\ Task(next) # TaskFor("onInputBufferDone", w)
      BY DEF WorkOp, Plain, Answers, Task, TaskFor
    <3> HIDE DEF r
    <3>5. PictureOrder(tasks')
      BY <1>2, <1>3, <3>2, <3>3, <3>4, AfterAppend DEF PictureOrder
    <3> QED BY <1>2, <3>2, <3>3, <3>4, <3>5, AppendFacts
  <2> QED BY <2>1, <2>2
<1> HIDE DEF r
<1>7. /\ \A w \in Works :
            /\ Told(w)' => Told(w)
            /\ Told(w) => Told(w)' \/ Head(tasks) = TaskFor("onOutputBufferDone", w)
            /\ Returning(w)' => Returning(w)
            /\ Returning(w) => Returning(w)' \/ Head(tasks) = TaskFor("onInputBufferDone", w)
      /\ op \in Answers => \A w \in Works : ~Told(w)'
      /\ \A o \in Answers : Queued(tasks', o) => Queued(tasks, o)
  BY <1>4, <1>5, <1>6 DEF Told, Returning
<1>8. op \notin {"onOutputBufferDone", "onInputBufferDone"} => PictureQueue
  BY <1>1, <1>6, <1>7 DEF PictureQueue, TaskFor
<1> QED
  BY <1>4, <1>6, <1>7, <1>8

\* A step DeliveryInv says nothing about: no picture and no input comes or goes, and
\* no work becomes pending or leaves.
Undisturbed ==
    /\ PictureQueue
    /\ UNCHANGED <<mComponentState, hal, inputHeld, ready>>
    /\ out'.buffers = out.buffers /\ out'.eos = out.eos /\ out'.cloneable = out.cloneable
    /\ AtEnd' <=> AtEnd
    /\ step' = "drained" => step = "drained"
WorksUndisturbed ==
    \A w \in Works :
        /\ loc'[w] = "pending" <=> loc[w] = "pending"
        /\ loc'[w] = "abandoned" => loc[w] = "abandoned"
        /\ Begun(w) => Begun(w)'
        /\ loc'[w] = "queue" /\ w \in EosWorks =>
               mDrainMode'[w] = "withEos" \/ (loc[w] = "queue" /\ mDrainMode'[w] = mDrainMode[w])

LEMMA DeliveryKept ==
    ASSUME TypeOK, DeliveryInv, Undisturbed, WorksUndisturbed
    PROVE  DeliveryInv'
<1>1. In("pending")' = In("pending") /\ In("abandoned")' \subseteq In("abandoned")
  BY DEF WorksUndisturbed, In
<1>2. \A w \in Works : (Pictured(w)' <=> Pictured(w)) /\ (Given(w)' <=> Given(w))
  BY DEF Undisturbed, PictureQueue, Pictured, Told, Sending, Given
<1>3. (Settled' <=> Settled) /\ (AtEnd' <=> AtEnd)
  BY DEF Undisturbed, Settled
<1>4. PictureOrder(tasks') /\ AllMade' /\ AllTold'
  BY <1>3 DEF DeliveryInv, Undisturbed, PictureQueue, AllMade, AllTold
<1>5. Coming'
  BY <1>1, <1>2, <1>3 DEF DeliveryInv, Undisturbed, Coming, In
<1>6. HeldBegun'
  BY DEF DeliveryInv, Undisturbed, WorksUndisturbed, HeldBegun, TypeOK
<1>7. EndOfDrain'
  BY <1>1, <1>3 DEF DeliveryInv, Undisturbed, EndOfDrain
<1>8. EndsDrain'
  BY DEF DeliveryInv, WorksUndisturbed, EndsDrain, In
<1>9. Cloneable'
  BY <1>2, <1>3 DEF DeliveryInv, Undisturbed, WorksUndisturbed, Cloneable
<1>10. Drained'
  BY <1>1, <1>3 DEF DeliveryInv, Undisturbed, Drained
<1>11. StopAbandons'
  BY <1>1 DEF DeliveryInv, Undisturbed, StopAbandons
<1> QED
  BY <1>4, <1>5, <1>6, <1>7, <1>8, <1>9, <1>10, <1>11 DEF DeliveryInv

\* A wait of flush_sm() ends when the flush is over, as no signal is late.
LEMMA TimeoutIsLate ==
    ASSUME AllInv, Orderly', FlushTimeout
    PROVE  mComponentState = "STARTED"
<1> USE DEF AllInv
<1>1. flusher = "waiting" /\ NoSignalComing
  BY DEF FlushTimeout, Orderly, Count, May, TypeOK, Call
<1>2. ~Queued(tasks, "onFlush")
      /\ (mComponentState = "FLUSHING" => hal.resets = 0 /\ ~Queued(tasks, "onFlushOrStopDone"))
  BY <1>1 DEF NoSignalComing, Posted, Queued, HealthInv, Quiet
<1> QED
  BY <1>1, <1>2 DEF HealthInv, Resets, FlushedEmpty, FlushIsOver

\* The client's calls.
LEMMA ClientDelivers ==
    ASSUME AllInv, DeliveryInv, Orderly', Client
    PROVE  DeliveryInv'
<1> USE DEF AllInv, status, thread, work, client
<1>0. PictureOrder(tasks)
  BY DEF DeliveryInv
<1>1. PictureQueue
  <2>1. ASSUME NEW op \in Op \ WorkOp, op \notin Answers, Post(Task(op)) PROVE PictureQueue
    <3>1. Task(op) \in TaskSet /\ Task(op).op = op
      BY TaskTypes DEF Task
    <3> QED BY <1>0, <2>1, <3>1, PicturePost, OpsDiffer
  <2>2. ASSUME NEW w \in Works, Post(TaskFor("onQueueWork", w)) PROVE PictureQueue
    <3>1. TaskFor("onQueueWork", w) \in TaskSet /\ TaskFor("onQueueWork", w).op = "onQueueWork"
      BY TaskTypes, OpsDiffer DEF TaskFor
    <3> QED BY <1>0, <2>2, <3>1, PicturePost DEF Answers
  <2>3. CASE tasks' = tasks
    BY <1>0, <2>3, PictureSame
  <2>4. {"onDrainWithEos", "onDrainNoEos", "onFlush", "onDequeueWork", "onStart", "onStop", "onDestroy"}
           \subseteq (Op \ WorkOp) \ Answers
    BY DEF Op, WorkOp, Guarded, Answers
  <2> QED
    BY <2>1, <2>2, <2>3, <2>4
    DEF Client, queue_nb, drain_nb, flush_sm, FlushWait, FlushTimeout, FlushReturn, start,
        StartReturn, stop, StopReturn, release
<1>2. UNCHANGED <<mComponentState, hal, inputHeld, ready, out, step, mDrainMode>>
  BY TimeoutIsLate
  DEF Client, queue_nb, drain_nb, flush_sm, FlushWait, FlushTimeout, FlushReturn, start,
      StartReturn, stop, StopReturn, release, SetState
<1>3. \/ UNCHANGED loc
      \/ \E w \in Works : loc[w] = "client" /\ loc' = [loc EXCEPT ![w] = "posted"]
      \/ loc' = Moved(In("flushList"), "flushed")
  BY DEF Client, queue_nb, drain_nb, flush_sm, FlushWait, FlushTimeout, FlushReturn, start,
         StartReturn, stop, StopReturn, release, First, In
<1>4. WorksUndisturbed
  <2>1. CASE UNCHANGED loc
    BY <1>2, <2>1 DEF WorksUndisturbed, Begun
  <2>2. CASE \E w \in Works : loc[w] = "client" /\ loc' = [loc EXCEPT ![w] = "posted"]
    BY <1>2, <2>2 DEF WorksUndisturbed, Begun, TypeOK
  <2>3. CASE loc' = Moved(In("flushList"), "flushed")
    BY <1>2, <2>3 DEF WorksUndisturbed, Begun, Moved, In
  <2> QED BY <1>3, <2>1, <2>2, <2>3
<1>5. Undisturbed
  BY <1>1, <1>2 DEF Undisturbed, AtEnd
<1> QED
  BY <1>4, <1>5, DeliveryKept

\* The decoder tells of the pictures it owes before it answers.
LEMMA DecoderDelivers ==
    ASSUME Delivering, AllInv, DeliveryInv, Orderly', Decoder
    PROVE  DeliveryInv'
<1> USE DEF AllInv, status, thread, work, client, HalOnly
<1>0. tasks \in Seq(TaskSet) /\ hal \in HalSet /\ PictureOrder(tasks)
  BY DEF TypeOK, DeliveryInv
<1>1. ASSUME NEW w \in Works, NotifyEndOfBitstreamBuffer(w) PROVE DeliveryInv'
  <2> DEFINE t == TaskFor("onInputBufferDone", w)
  <2>1. /\ hal'.in = hal.in \ {w} /\ hal'.owes = hal.owes
        /\ UNCHANGED <<mComponentState, step, loc, mDrainMode, inputHeld, ready, out>>
    BY <1>0, <1>1 DEF NotifyEndOfBitstreamBuffer, HalSet
  <2>2. t \in TaskSet /\ t.op = "onInputBufferDone" /\ Post(t) /\ tasks' = Append(tasks, t)
    BY <1>1, TaskTypes, OpsDiffer DEF NotifyEndOfBitstreamBuffer, TaskFor, Post
  <2>3. PictureOrder(tasks')
    <3>1. t.op \notin {"onOutputBufferDone"}
      BY <2>2
    <3> QED BY <1>0, <2>2, <3>1, AfterAppend DEF PictureOrder
  <2>4. /\ \A o \in Answers : Queued(tasks', o) => Queued(tasks, o)
        /\ \A v \in Works : (Told(v)' <=> Told(v)) /\ (Given(v) => Given(v)')
    BY <1>0, <2>1, <2>2, AppendFacts DEF Answers, Told, TaskFor, Given, Returning
  <2>5. /\ (AtEnd' <=> AtEnd) /\ (Settled' <=> Settled)
        /\ UNCHANGED <<In("pending"), In("queue"), In("abandoned")>>
        /\ \A v \in Works : (Pictured(v)' <=> Pictured(v)) /\ (Begun(v)' <=> Begun(v))
    BY <2>1, <2>4 DEF AtEnd, Settled, In, Pictured, Told, Sending, Begun
  <2>6. AllMade' /\ AllTold' /\ Coming'
    BY <2>1, <2>4, <2>5 DEF DeliveryInv, AllMade, AllTold, Coming, In
  <2>7. HeldBegun' /\ EndOfDrain' /\ EndsDrain'
    BY <2>1, <2>5 DEF DeliveryInv, HeldBegun, EndOfDrain, EndsDrain, TypeOK
  <2>8. Cloneable' /\ Drained' /\ StopAbandons'
    BY <2>1, <2>5 DEF DeliveryInv, Cloneable, Drained, StopAbandons
  <2> QED BY <2>3, <2>6, <2>7, <2>8 DEF DeliveryInv
<1>2. ASSUME NEW w \in Works, PictureReady(w) PROVE DeliveryInv'
  <2> DEFINE t == TaskFor("onOutputBufferDone", w)
  <2>1. /\ hal.owes[w] \in {"picture", "twoPictures"} /\ hal'.in = hal.in
        /\ \A v \in Works : /\ hal'.owes[v] \in {"picture", "twoPictures"} =>
                                  hal.owes[v] \in {"picture", "twoPictures"}
                            /\ v # w => hal'.owes[v] = hal.owes[v]
        /\ UNCHANGED <<mComponentState, step, loc, mDrainMode, inputHeld, ready, out>>
    BY <1>0, <1>2 DEF PictureReady, HalSet
  <2>2. t \in TaskSet /\ t.op = "onOutputBufferDone" /\ Post(t) /\ tasks' = Append(tasks, t)
    BY <1>2, TaskTypes, OpsDiffer DEF PictureReady, TaskFor, Post
  <2>3. ~AtEnd /\ \A o \in Answers : ~Queued(tasks, o) /\ No(tasks, {o})
    BY <2>1, NoneQueued DEF DeliveryInv, AllMade
  <2>4. PictureOrder(tasks')
    BY <1>0, <2>2, <2>3, AfterFirst DEF PictureOrder
  <2>5. /\ \A o \in Answers : ~Queued(tasks', o)
        /\ \A v \in Works : (Told(v)' <=> Told(v) \/ v = w) /\ (Given(v)' <=> Given(v))
    BY <1>0, <2>1, <2>2, <2>3, AppendFacts DEF Answers, Told, TaskFor, Given, Returning
  <2>6. /\ ~AtEnd' /\ (Settled' <=> Settled)
        /\ UNCHANGED <<In("pending"), In("queue"), In("abandoned")>>
        /\ \A v \in Works : (Pictured(v)' <=> Pictured(v)) /\ (Begun(v)' <=> Begun(v))
    <3>1. \A v \in Works : Pictured(v)' <=> Pictured(v)
      BY <2>1, <2>5 DEF Pictured, Told, Sending
    <3> QED BY <2>1, <2>3, <3>1 DEF AtEnd, Settled, In, Begun
  <2>7. AllMade' /\ AllTold' /\ Coming'
    BY <2>1, <2>5, <2>6 DEF DeliveryInv, AllMade, AllTold, Coming, In
  <2>8. HeldBegun' /\ EndOfDrain' /\ EndsDrain'
    BY <2>1, <2>3, <2>6 DEF DeliveryInv, HeldBegun, EndOfDrain, EndsDrain, TypeOK
  <2>9. Cloneable' /\ Drained' /\ StopAbandons'
    BY <2>1, <2>6 DEF DeliveryInv, Cloneable, Drained, StopAbandons
  <2> QED BY <2>4, <2>7, <2>8, <2>9 DEF DeliveryInv
<1>3. ASSUME NEW w \in Works, NotifyEvent(w) PROVE DeliveryInv'
  BY <1>3 DEF NotifyEvent, FrameInv, Failing, Delivering
<1>4. CASE NotifyFlushDone \/ NotifyFlushOrStopDone
  <2>1. PICK op \in Answers : /\ op = "onDrainDone" => NotifyFlushDone
                              /\ op = "onFlushOrStopDone" => NotifyFlushOrStopDone
    BY <1>4 DEF Answers
  <2> DEFINE t == Task(op)
  <2>2. /\ t \in TaskSet /\ t.op = op /\ Post(t) /\ tasks' = Append(tasks, t)
        /\ UNCHANGED <<mComponentState, step, loc, mDrainMode, inputHeld, ready, out>>
    BY <2>1, TaskTypes, OpsDiffer DEF NotifyFlushDone, NotifyFlushOrStopDone, Task, Answers, Post
  <2>3. \A v \in Works : hal'.owes[v] = "nothing"
    BY <1>0, <2>1 DEF NotifyFlushDone, NotifyFlushOrStopDone, IdleHal, HalSet, Answers
  <2>4. Settled => hal'.in = hal.in /\ hal'.owes = hal.owes
    BY <1>0, <2>1
    DEF NotifyFlushDone, NotifyFlushOrStopDone, HalSet, Answers, Settled, HealthInv, Resets
  <2>5. PictureOrder(tasks')
    <3>1. t.op \notin {"onOutputBufferDone"}
      BY <2>2 DEF Answers
    <3> QED BY <1>0, <2>2, <3>1, AfterAppend DEF PictureOrder
  <2>6. \A v \in Works : (Told(v)' <=> Told(v)) /\ (Returning(v)' <=> Returning(v))
    BY <1>0, <2>2, AppendFacts DEF Answers, Told, TaskFor, Returning
  <2>7. /\ (AtEnd' <=> AtEnd) /\ (Settled' <=> Settled)
        /\ UNCHANGED <<In("pending"), In("queue"), In("abandoned")>>
        /\ \A v \in Works : Begun(v)' <=> Begun(v)
        /\ Settled => \A v \in Works : (Pictured(v)' <=> Pictured(v)) /\ (Given(v)' <=> Given(v))
    <3>1. Settled => \A v \in Works : (Pictured(v)' <=> Pictured(v)) /\ (Given(v)' <=> Given(v))
      BY <2>2, <2>4, <2>6 DEF Pictured, Told, Sending, Given
    <3> QED BY <2>2, <3>1 DEF AtEnd, Settled, In, Begun
  <2>8. AllMade' /\ AllTold' /\ Coming'
    BY <2>2, <2>3, <2>6, <2>7 DEF DeliveryInv, AllMade, AllTold, Coming, In
  <2>9. HeldBegun' /\ EndOfDrain' /\ EndsDrain'
    BY <2>2, <2>7 DEF DeliveryInv, HeldBegun, EndOfDrain, EndsDrain, TypeOK
  <2>10. Cloneable' /\ Drained' /\ StopAbandons'
    BY <2>2, <2>7 DEF DeliveryInv, Cloneable, Drained, StopAbandons
  <2> QED BY <2>5, <2>8, <2>9, <2>10 DEF DeliveryInv
<1>5. CASE NotifyError
  <2>1. calls'["halError"] # 0
    BY <1>5 DEF NotifyError, Count, TypeOK, Call
  <2> QED BY <2>1 DEF Orderly
<1> QED
  BY <1>1, <1>2, <1>3, <1>4, <1>5 DEF Decoder

\* The handlers DeliveryInv says nothing about.
LEMMA PlainHandlers ==
    ASSUME AllInv, DeliveryInv, Delivering,
           \/ Skip \/ onQueueWork \/ sendOutputBufferToWorkIfAnyTask
           \/ resetInputAndOutputBufInfo
           \/ onDequeueWork /\ UNCHANGED <<loc, inputHeld, hal, out, mComponentState>>
           \/ \E mode \in DrainMode :
                 onDrain(mode) /\ UNCHANGED <<mComponentState, hal, out>>
    PROVE  DeliveryInv'
<1> USE DEF AllInv, status, thread, work, client
<1>0. PictureOrder(tasks) /\ "onDequeueWork" \in (Op \ WorkOp) \cap Plain
  BY OpsDiffer DEF DeliveryInv, Plain
<1>1. CASE Skip
  <2>1. PICK op \in Guarded : Take(op)
    BY <1>1 DEF Skip
  <2>2. /\ mComponentState \in {"UNINITIALIZED", "DESTROYED"}
        /\ PictureOrder(tasks') /\ Queued(tasks, op)
        /\ \A o \in Answers : Queued(tasks', o) => Queued(tasks, o)
        /\ \A w \in Works : (Told(w)' => Told(w)) /\ (Returning(w)' => Returning(w))
    BY <1>0, <1>1, <2>1, PictureTake DEF Skip, Alive, HealthInv, Quiet
  <2>3. UNCHANGED loc
    <3>1. op # "onQueueWork"
      BY <2>2 DEF HealthInv, QueueRuns
    <3> QED BY <1>1, <2>1, <3>1 DEF Skip, Take
  <2>4. UNCHANGED <<mComponentState, mDrainMode, hal, inputHeld, ready, out, step>>
    BY <1>1 DEF Skip
  <2>5. \A w \in Works : loc[w] # "pending"
    <3>1. Emptied
      BY <2>2 DEF StopInv, StoppedIsEmpty, Emptied, HealthInv, Stage, OneCall, LoadedEmpty
    <3> QED BY <3>1 DEF Emptied, InComponent
  <2>6. AllMade' /\ AllTold' /\ Coming' /\ HeldBegun'
    BY <2>2, <2>3, <2>4, <2>5
    DEF DeliveryInv, AllMade, AllTold, AtEnd, Coming, In, HeldBegun, Begun, TypeOK
  <2>7. EndOfDrain' /\ EndsDrain'
    BY <2>3, <2>4, <2>5 DEF DeliveryInv, EndOfDrain, EndsDrain, In
  <2>8. Cloneable'
    <3>1. \A w \in Works : Pictured(w)' => Pictured(w)
      BY <2>2, <2>4 DEF Pictured, Told, Sending
    <3> QED BY <2>3, <2>4, <3>1 DEF DeliveryInv, Cloneable, Settled
  <2>9. Drained' /\ StopAbandons'
    BY <2>3, <2>4 DEF DeliveryInv, Drained, StopAbandons, Settled, In
  <2> QED BY <2>2, <2>6, <2>7, <2>8, <2>9 DEF DeliveryInv
<1>2. CASE onQueueWork
  <2>1. PICK w \in Works : w = Head(tasks).w
    BY <1>2, HeadIs, OpsDiffer DEF onQueueWork, Run
  <2>2. PictureQueue /\ loc[w] = "posted"
    <3>1. Take("onQueueWork") /\ Follow(<<Task("onDequeueWork")>>)
      BY <1>2 DEF onQueueWork, Run
    <3>2. Head(tasks) = TaskFor("onQueueWork", w) /\ Has(tasks, Head(tasks))
      BY <1>0, <2>1, <3>1, HeadIs, OpsDiffer, FrameFollow
    <3> QED BY <1>0, <3>1, <3>2, PictureTake DEF FrameInv, Carries, Has
  <2>3. /\ loc' = [loc EXCEPT ![w] = "queue"]
        /\ mDrainMode' = [mDrainMode EXCEPT ![w] = IF w \in EosWorks THEN "withEos" ELSE "none"]
        /\ UNCHANGED <<mComponentState, hal, inputHeld, ready, out, step>>
    BY <1>2, <2>1 DEF onQueueWork
  <2>4. WorksUndisturbed
    BY <2>2, <2>3 DEF WorksUndisturbed, Begun, TypeOK
  <2>5. Undisturbed
    BY <2>2, <2>3 DEF Undisturbed, AtEnd
  <2> QED BY <2>4, <2>5, DeliveryKept
<1>3. CASE sendOutputBufferToWorkIfAnyTask
  <2>1. PictureQueue /\ step = "idle"
    BY <1>0, <1>3, PictureTake DEF sendOutputBufferToWorkIfAnyTask, Run, Take
  <2>2. Undisturbed /\ WorksUndisturbed
    BY <1>3, <2>1
    DEF sendOutputBufferToWorkIfAnyTask, Undisturbed, WorksUndisturbed, AtEnd, Begun
  <2> QED BY <2>2, DeliveryKept
<1>4. CASE resetInputAndOutputBufInfo
  <2>1. out'.buffers = out.buffers /\ out'.eos = out.eos /\ out'.cloneable = out.cloneable
    BY <1>4 DEF resetInputAndOutputBufInfo, TypeOK, OutSet
  <2>2. PictureQueue
    BY <1>0, <1>4, PictureSame DEF resetInputAndOutputBufInfo
  <2>3. Undisturbed /\ WorksUndisturbed
    BY <1>4, <2>1, <2>2
    DEF resetInputAndOutputBufInfo, Undisturbed, WorksUndisturbed, AtEnd, Begun
  <2> QED BY <2>3, DeliveryKept
<1>5. CASE onDequeueWork /\ UNCHANGED <<loc, inputHeld, hal, out, mComponentState>>
  <2>1. Follow(<<>>) \/ \E next \in (Op \ WorkOp) \cap Plain : Follow(<<Task(next)>>)
    BY <1>0, <1>5 DEF onDequeueWork, Dequeue
  <2>2. PictureQueue
    BY <1>0, <1>5, <2>1, PictureTake DEF onDequeueWork, Run
  <2>3. Undisturbed /\ WorksUndisturbed
    BY <1>5, <2>2 DEF onDequeueWork, Undisturbed, WorksUndisturbed, AtEnd, Begun
  <2> QED BY <2>3, DeliveryKept
<1>6. ASSUME NEW mode \in DrainMode, onDrain(mode), UNCHANGED <<mComponentState, hal, out>>
      PROVE  DeliveryInv'
  <2>1. PictureQueue
    <3>1. PICK op \in {"onDrainWithEos", "onDrainNoEos"} : Take(op)
      BY <1>6 DEF onDrain, Run
    <3> QED BY <1>0, <1>6, <3>1, PictureTake DEF onDrain
  <2>2. \A w \in Works : mDrainMode'[w] = mDrainMode[w] \/ mDrainMode[w] = "none"
    BY <1>6 DEF onDrain, TypeOK
  <2>3. UNCHANGED <<loc, inputHeld, ready, step>>
    BY <1>6 DEF onDrain
  <2>4. WorksUndisturbed
    BY <2>2, <2>3 DEF WorksUndisturbed, Begun, DeliveryInv, EndsDrain, In
  <2>5. Undisturbed
    BY <1>6, <2>1, <2>3 DEF Undisturbed, AtEnd
  <2> QED BY <2>4, <2>5, DeliveryKept
<1> QED
  BY <1>1, <1>2, <1>3, <1>4, <1>5, <1>6

\* onDequeueWork(): the decoder will make a picture of its input.
LEMMA DequeueDelivers ==
    ASSUME AllInv, DeliveryInv, Delivering, TypeOK', onDequeueWork
    PROVE  DeliveryInv'
<1> USE DEF AllInv, status, client
<1>1. CASE ~(mComponentState = "STARTED" /\ In("queue") # {})
  BY <1>1, PlainHandlers DEF onDequeueWork
<1>2. CASE mComponentState = "STARTED" /\ In("queue") # {}
  <2>1. PICK w \in In("queue") : \E outcome \in OutcomesOf(w) : Dequeue(w, outcome)
    BY <1>2 DEF onDequeueWork
  <2>2. PICK outcome \in OutcomesOf(w) : Dequeue(w, outcome)
    BY <2>1
  <2>3. w \in Works /\ loc[w] = "queue" /\ ~Begun(w) /\ outcome \in {"picture", "twoPictures"}
    BY DEF In, Begun, Delivering, OutcomesOf
  <2> DEFINE gives  == w \notin NoBufferWorks
             drains == mDrainMode[w] # "none"
             eos    == IF drains THEN mDrainMode[w] = "withEos" ELSE out.eos
  <2>4. Take("onDequeueWork") /\ PictureQueue /\ step = "idle"
    <3>1. Take("onDequeueWork") /\ "onDequeueWork" \in (Op \ WorkOp) \cap Plain
      BY OpsDiffer DEF onDequeueWork, Run, Plain
    <3> QED BY <2>2, <3>1, PictureTake DEF Dequeue, DeliveryInv, Take
  <2>5. /\ UNCHANGED <<step, ready, mDrainMode>>
        /\ inputHeld' = IF gives THEN inputHeld \cup {w} ELSE inputHeld
        /\ mComponentState' = IF drains THEN "DRAINING" ELSE "STARTED"
    BY <1>2, <2>2 DEF onDequeueWork, Dequeue
  <2>6. /\ hal'.in = IF gives THEN hal.in \cup {w} ELSE hal.in
        /\ \A v \in Works \ {w} : hal'.owes[v] = hal.owes[v]
        /\ gives => hal'.owes[w] = outcome
    <3>1. hal \in HalSet
      BY DEF TypeOK
    <3>2. hal' = [hal EXCEPT !.in = IF gives THEN @ \cup {w} ELSE @,
                             !.owes[w] = IF gives THEN outcome ELSE @,
                             !.eos = @ \/ drains]
      BY <2>2 DEF Dequeue
    <3> QED BY <2>3, <3>1, <3>2 DEF HalSet
  <2>7. out'.eos = eos /\ out'.buffers = out.buffers /\ out'.cloneable = out.cloneable
    BY <2>2 DEF Dequeue, TypeOK, OutSet
  <2>8. loc' = [loc EXCEPT ![w] = "pending"] /\ (~gives => drains /\ eos)
    <3>1. w \in NoBufferWorks => w \in EosWorks
      BY DEF Delivering, Healthy
    <3>2. w \in EosWorks => mDrainMode[w] = "withEos"
      BY DEF DeliveryInv, EndsDrain
    <3>3. w \notin CsdWorks
      BY DEF Delivering
    <3>4. loc' = [loc EXCEPT ![w] = IF (~gives /\ w \notin EosWorks \cup CsdWorks)
                                       \/ (~gives /\ w \in CsdWorks /\ ~(eos /\ In("pending") = {}))
                                    THEN "done" ELSE "pending"]
      BY <2>2 DEF Dequeue
    <3> QED BY <3>1, <3>2, <3>3, <3>4
  <2>9. /\ Settled /\ Settled' /\ ~AtEnd /\ ~AtEnd'
        /\ \A o \in Answers : ~Queued(tasks', o)
    <3>1. \A o \in Answers : ~Queued(tasks, o)
      BY <1>2 DEF Answers, HealthInv, Drains, Resets
    <3> QED BY <1>2, <2>4, <2>5, <3>1 DEF Settled, AtEnd, PictureQueue
  <2>10. \A v \in In("pending") : v \notin NoBufferWorks
    BY <1>2, <2>9 DEF DeliveryInv, EndOfDrain, In
  <2>11. /\ In("pending")' = In("pending") \cup {w} /\ In("abandoned")' = In("abandoned")
         /\ In("queue")' \subseteq In("queue") /\ \A v \in Works : Begun(v)' <=> Begun(v) \/ v = w
    BY <2>3, <2>8 DEF In, Begun, TypeOK
  <2>12. \A v \in Works \ {w} : (Pictured(v)' <=> Pictured(v)) /\ (Given(v)' <=> Given(v))
    <3>1. \A v \in Works : /\ Told(v)' <=> Told(v)
                           /\ Returning(v)' <=> Returning(v)
                           /\ Sending(v)' <=> Sending(v)
      BY <2>4, <2>7 DEF PictureQueue, Sending
    <3> QED BY <2>6, <3>1 DEF Pictured, Told, Given
  <2>13. (gives => Pictured(w)' /\ Given(w)') /\ (~gives => w \notin inputHeld')
    BY <2>3, <2>5, <2>6 DEF Pictured, Given, DeliveryInv, HeldBegun
  <2>14. PictureOrder(tasks') /\ AllMade' /\ AllTold'
    BY <2>4, <2>9 DEF PictureQueue, AllMade, AllTold
  <2>15. Coming' /\ HeldBegun'
    BY <2>3, <2>5, <2>9, <2>11, <2>12, <2>13 DEF DeliveryInv, Coming, HeldBegun, In, TypeOK
  <2>16. EndOfDrain' /\ EndsDrain'
    BY <2>5, <2>7, <2>8, <2>10, <2>11 DEF DeliveryInv, EndOfDrain, EndsDrain
  <2>17. Cloneable'
    BY <2>3, <2>5, <2>7, <2>8, <2>9, <2>12 DEF DeliveryInv, Cloneable, TypeOK
  <2>18. Drained' /\ StopAbandons'
    BY <1>2, <2>9, <2>11 DEF DeliveryInv, Drained, StopAbandons, AtEnd
  <2> QED BY <2>14, <2>15, <2>16, <2>17, <2>18 DEF DeliveryInv
<1> QED
  BY <1>1, <1>2

\* onInputBufferDone(): a work leaves only when its picture is attached.
LEMMA InputDelivers ==
    ASSUME AllInv, DeliveryInv, Delivering, onInputBufferDone
    PROVE  DeliveryInv'
<1> USE DEF AllInv, status, client
<1>1. PICK w \in Works : w = Head(tasks).w
  BY HeadIs, OpsDiffer DEF onInputBufferDone, Run
<1>2. Take("onInputBufferDone") /\ Head(tasks) = TaskFor("onInputBufferDone", w)
  BY <1>1, HeadIs, OpsDiffer DEF onInputBufferDone, Run
<1>3. Follow(<<>>) \/ \E next \in (Op \ WorkOp) \cap Plain : Follow(<<Task(next)>>)
  <2>1. Follow(<<>>) \/ Follow(<<Task("sendOutputBufferToWorkIfAnyTask")>>)
    BY DEF onInputBufferDone
  <2>2. "sendOutputBufferToWorkIfAnyTask" \in (Op \ WorkOp) \cap Plain
    BY OpsDiffer DEF Plain
  <2> QED BY <2>1, <2>2
<1>4. /\ PictureOrder(tasks')
      /\ \A o \in Answers : Queued(tasks', o) => Queued(tasks, o)
      /\ \A v \in Works : (Told(v)' <=> Told(v)) /\ (v # w => (Returning(v)' <=> Returning(v)))
      /\ Returning(w) /\ step = "idle"
  <2>1. \A v \in Works : /\ Head(tasks) # TaskFor("onOutputBufferDone", v)
                         /\ v # w => Head(tasks) # TaskFor("onInputBufferDone", v)
    BY <1>2 DEF TaskFor
  <2>2. Returning(w)
    BY <1>2, <1>3, FollowFacts DEF HealthInv, Returning
  <2> QED BY <1>2, <1>3, <2>1, <2>2, PictureTake DEF DeliveryInv, Take
<1>5. loc[w] = "pending"
  BY <1>4 DEF HealthInv, GivenPending, Given
<1>6. /\ inputHeld' = inputHeld \ {w}
      /\ \/ UNCHANGED loc
         \/ w \in ready /\ ~KeptForEos(w) /\ loc' = [loc EXCEPT ![w] = "done"]
      /\ UNCHANGED <<status, step, mDrainMode, ready, out, hal>>
  BY <1>1, <1>5 DEF onInputBufferDone, reportWorkIfFinished, Delivering
<1>7. /\ (AtEnd' <=> AtEnd) /\ (Settled' <=> Settled) /\ ~AtEnd
      /\ \A v \in Works : /\ Pictured(v)' <=> Pictured(v)
                          /\ v # w => (Given(v)' <=> Given(v)) /\ loc'[v] = loc[v]
                          /\ Begun(v)' <=> Begun(v)
  BY <1>4, <1>5, <1>6 DEF AtEnd, Settled, Pictured, Told, Sending, Given, Begun, TypeOK
<1>8. /\ In("pending")' \subseteq In("pending") /\ In("queue")' = In("queue")
      /\ In("abandoned")' = In("abandoned")
  BY <1>5, <1>6 DEF In, TypeOK
<1>9. AllMade' /\ AllTold'
  BY <1>4, <1>6, <1>7 DEF DeliveryInv, AllMade, AllTold
<1>10. Coming' /\ HeldBegun'
  <2>1. \A v \in inputHeld' : v \in inputHeld /\ v # w /\ v \in Works
    BY <1>6 DEF TypeOK
  <2>2. Coming'
    BY <1>7, <1>8, <2>1 DEF DeliveryInv, Coming, In
  <2>3. HeldBegun'
    BY <1>7, <2>1 DEF DeliveryInv, HeldBegun
  <2> QED BY <2>2, <2>3
<1>11. EndOfDrain' /\ EndsDrain'
  BY <1>6, <1>7, <1>8 DEF DeliveryInv, EndOfDrain, EndsDrain
<1>12. Cloneable'
  <2>1. \A v \in Works : loc'[v] # "pending" => loc[v] # "pending" \/ w \in ready
    BY <1>6, <1>7
  <2> QED BY <1>6, <1>7, <2>1 DEF DeliveryInv, Cloneable
<1>13. Drained' /\ StopAbandons'
  BY <1>4, <1>6, <1>8 DEF DeliveryInv, Drained, StopAbandons
<1> QED
  BY <1>4, <1>9, <1>10, <1>11, <1>12, <1>13 DEF DeliveryInv

\* onOutputBufferDone(): a picture of a pending work is kept to be sent.
LEMMA OutputDelivers ==
    ASSUME AllInv, DeliveryInv, TypeOK', onOutputBufferDone
    PROVE  DeliveryInv'
<1> USE DEF AllInv, status, work, client
<1>1. PICK w \in Works : w = Head(tasks).w
  BY HeadIs, OpsDiffer DEF onOutputBufferDone, Run
<1>2. Take("onOutputBufferDone") /\ Head(tasks) = TaskFor("onOutputBufferDone", w)
  BY <1>1, HeadIs, OpsDiffer DEF onOutputBufferDone, Run
<1>3. /\ PictureOrder(tasks')
      /\ \A o \in Answers : Queued(tasks', o) => Queued(tasks, o)
      /\ \A v \in Works : /\ Told(v)' => Told(v)
                          /\ v # w => (Told(v)' <=> Told(v))
                          /\ Returning(v)' <=> Returning(v)
      /\ Told(w) /\ step = "idle"
  <2>1. \A v \in Works : /\ Head(tasks) # TaskFor("onInputBufferDone", v)
                         /\ v # w => Head(tasks) # TaskFor("onOutputBufferDone", v)
    BY <1>2 DEF TaskFor
  <2>2. Follow(<<>>)
    BY DEF onOutputBufferDone
  <2>3. Told(w)
    BY <1>2, <2>2, FollowFacts DEF HealthInv, Told
  <2> QED BY <1>2, <2>1, <2>2, <2>3, PictureTake DEF DeliveryInv, Take
<1>4. UNCHANGED <<mComponentState, loc, mDrainMode, inputHeld, ready, hal>>
  BY DEF onOutputBufferDone
<1>5. /\ out'.eos = out.eos /\ out'.cloneable = out.cloneable
      /\ \/ out'.buffers = out.buffers /\ step' = step /\ ~(Settled /\ loc[w] = "pending")
         \/ out'.buffers = Append(out.buffers, w) /\ step' = "sending"
  <2>1. \/ out' = [out EXCEPT !.last = w] /\ step' = step /\ mComponentState = "FLUSHING"
        \/ out' = out /\ step' = step /\ loc[w] # "pending"
        \/ /\ out' = [out EXCEPT !.sent = @ \cup {w}, !.last = w, !.errorFrames = 0,
                                 !.buffers = Append(@, w)]
           /\ step' = "sending"
    BY <1>1 DEF onOutputBufferDone
  <2> QED BY <2>1 DEF TypeOK, OutSet, Settled
<1>6. \A v \in Works : /\ v # w => (Sending(v)' <=> Sending(v))
                       /\ Sending(w)' => Sending(w) \/ step' = "sending"
                       /\ Sending(w) => Sending(w)'
                       /\ Settled /\ loc[w] = "pending" => Sending(w)'
  <2>1. out.buffers \in Seq(Works)
    BY OutFields DEF TypeOK
  <2>2. CASE out'.buffers = out.buffers
    BY <1>5, <2>1, <2>2 DEF Sending
  <2>3. CASE out'.buffers = Append(out.buffers, w)
    <3> DEFINE b == Append(out.buffers, w)
    <3>1. /\ \A i \in 1..Len(out.buffers) : i \in 1..Len(b) /\ b[i] = out.buffers[i]
          /\ \A i \in 1..Len(b) : (i \in 1..Len(out.buffers) /\ b[i] = out.buffers[i]) \/ b[i] = w
          /\ Len(b) \in 1..Len(b) /\ b[Len(b)] = w
      BY <2>1
    <3>2. out'.buffers = b
      BY <2>3
    <3> HIDE DEF b
    <3>3. \A v \in Works : Sending(v)' <=> Sending(v) \/ v = w
      BY <3>1, <3>2 DEF Sending
    <3>4. step' = "sending" \/ Sending(w)
      <4>1. out.buffers # b
        BY <2>1 DEF b
      <4> QED BY <1>5, <3>2, <4>1
    <3> QED BY <3>3, <3>4
  <2> QED BY <1>5, <2>2, <2>3
<1>7. /\ (AtEnd' <=> AtEnd) /\ (Settled' <=> Settled) /\ ~AtEnd
      /\ UNCHANGED <<In("pending"), In("queue"), In("abandoned")>>
      /\ \A v \in Works : Given(v)' <=> Given(v)
      /\ \A v \in Works : Begun(v)' <=> Begun(v)
  BY <1>3, <1>4, <1>5 DEF AtEnd, Settled, In, Given, Begun
<1>8. \A v \in Works : /\ Pictured(v)' => Pictured(v)
                       /\ Settled /\ loc[v] = "pending" /\ Pictured(v) => Pictured(v)'
  <2>1. \A v \in Works : Pictured(v)' => Pictured(v)
    BY <1>3, <1>4, <1>6 DEF Pictured, Told
  <2> QED BY <1>3, <1>4, <1>6, <2>1 DEF Pictured, Told
<1>9. AllMade' /\ AllTold'
  BY <1>3, <1>4, <1>7 DEF DeliveryInv, AllMade, AllTold
<1>10. Coming' /\ HeldBegun'
  BY <1>4, <1>7, <1>8 DEF DeliveryInv, Coming, HeldBegun, In, TypeOK
<1>11. EndOfDrain' /\ EndsDrain'
  BY <1>4, <1>5, <1>7 DEF DeliveryInv, EndOfDrain, EndsDrain
<1>12. Cloneable'
  BY <1>4, <1>5, <1>7, <1>8 DEF DeliveryInv, Cloneable
<1>13. Drained' /\ StopAbandons'
  BY <1>3, <1>4, <1>5, <1>7 DEF DeliveryInv, Drained, StopAbandons
<1> QED
  BY <1>3, <1>9, <1>10, <1>11, <1>12, <1>13 DEF DeliveryInv

\* NothingToSend: all the buffers are sent.
LEMMA NothingDelivers ==
    ASSUME AllInv, DeliveryInv, NothingToSend
    PROVE  DeliveryInv'
<1> USE DEF AllInv, status, work, client
<1>1. /\ UNCHANGED <<mComponentState, tasks, loc, mDrainMode, inputHeld, ready, out, hal>>
      /\ out.buffers = <<>> /\ (AtEnd' <=> AtEnd)
  BY DEF NothingToSend, AtEnd
<1>2. /\ (Settled' <=> Settled) /\ UNCHANGED <<In("pending"), In("queue"), In("abandoned")>>
      /\ \A v \in Works : /\ Pictured(v)' <=> Pictured(v)
                          /\ Told(v)' <=> Told(v)
                          /\ Given(v)' <=> Given(v)
                          /\ Begun(v)' <=> Begun(v)
  BY <1>1 DEF Settled, In, Pictured, Told, Sending, Given, Returning, Begun
<1>3. PictureOrder(tasks') /\ AllMade' /\ AllTold'
  BY <1>1, <1>2 DEF DeliveryInv, AllMade, AllTold
<1>4. Coming' /\ HeldBegun' /\ EndOfDrain' /\ EndsDrain'
  BY <1>1, <1>2 DEF DeliveryInv, Coming, HeldBegun, EndOfDrain, EndsDrain, In, TypeOK
<1>5. Cloneable' /\ Drained' /\ StopAbandons'
  BY <1>1, <1>2 DEF DeliveryInv, Cloneable, Drained, StopAbandons
<1> QED
  BY <1>3, <1>4, <1>5 DEF DeliveryInv

LEMMA TailDiffers == ASSUME NEW b \in Seq(Works), b # <<>> PROVE b # Tail(b)
<1> DEFINE t == Tail(b)
<1>1. Len(b) \in Nat /\ Len(t) = Len(b) - 1
  OBVIOUS
<1> HIDE DEF t
<1>2. b # t
  BY <1>1
<1> QED
  BY <1>2 DEF t

\* One round of sendOutputBufferToWorkIfAny(): a picture goes with its work, or as a
\* clone; at the end of a drain only the work kept for EOS makes the others wait.
LEMMA SendDelivers ==
    ASSUME AllInv, DeliveryInv, sendOutputBufferToWorkIfAny
    PROVE  DeliveryInv'
<1> USE DEF AllInv, status, work, client
<1>a. /\ out.buffers \in Seq(Works) /\ out.buffers # <<>> /\ out \in OutSet
      /\ step \in {"sending", "draining"}
  BY OutFields DEF sendOutputBufferToWorkIfAny, TypeOK
<1>b. PICK w \in Works : w = Head(out.buffers)
  BY <1>a
<1>0. /\ out.buffers \in Seq(Works) /\ out.buffers # <<>> /\ w \in Works
      /\ step \in {"sending", "draining"} /\ out \in OutSet
  BY <1>a
<1>1. /\ UNCHANGED <<mComponentState, tasks, mDrainMode, inputHeld, hal>>
      /\ (AtEnd' <=> AtEnd)
  BY DEF sendOutputBufferToWorkIfAny, AtEnd
<1>2. Sending(w) /\ Pictured(w) /\ Begun(w)
  <2>1. 1 \in 1..Len(out.buffers) /\ out.buffers[1] = w
    BY <1>0, <1>b
  <2> QED BY <1>0, <2>1 DEF Sending, Pictured, FrameInv
<1>3. /\ out'.eos = out.eos /\ (out.cloneable => out'.cloneable)
      /\ \/ /\ out'.buffers = out.buffers /\ UNCHANGED <<loc, ready>>
            /\ loc[w] = "pending" /\ w \in inputHeld
         \/ /\ out'.buffers = out.buffers /\ UNCHANGED loc /\ ready' = ready \cup {w}
            /\ KeptForEos(w) /\ out'.cloneable
         \/ /\ out'.buffers = Tail(out.buffers) /\ ready' = ready \cup {w} /\ out'.cloneable
            /\ loc[w] = "pending" /\ loc' = [loc EXCEPT ![w] = "done"]
            /\ step' # "drained"
         \/ /\ out'.buffers = Tail(out.buffers) /\ UNCHANGED <<loc, ready>>
            /\ loc[w] # "pending"
            /\ out.cloneable => step' # "drained"
  <2>1. \/ out' = out /\ UNCHANGED <<loc, ready>> /\ loc[w] = "pending" /\ w \in inputHeld
        \/ /\ out' = [out EXCEPT !.cloneable = TRUE] /\ UNCHANGED loc /\ ready' = ready \cup {w}
           /\ KeptForEos(w)
        \/ /\ out' = [out EXCEPT !.buffers = Tail(@), !.cloneable = TRUE]
           /\ loc[w] = "pending" /\ loc' = [loc EXCEPT ![w] = "done"] /\ ready' = ready \cup {w}
           /\ step' = step
        \/ /\ out' = [out EXCEPT !.buffers = Tail(@), !.clones = @ + 1]
           /\ UNCHANGED <<loc, ready, step>> /\ loc[w] # "pending"
        \/ /\ out' = [out EXCEPT !.buffers = Tail(@)] /\ ~out.cloneable
           /\ UNCHANGED <<loc, ready>> /\ loc[w] # "pending"
    BY <1>b DEF sendOutputBufferToWorkIfAny, FrontWaits
  <2> QED BY <1>0, <2>1 DEF OutSet
<1>4. /\ \A v \in Works : Sending(v)' => Sending(v)
      /\ \A v \in Works : v # w /\ Sending(v) => Sending(v)'
      /\ loc'[w] = "pending" => Sending(w)'
  <2>1. CASE out'.buffers = out.buffers
    BY <1>2, <2>1 DEF Sending
  <2>2. CASE out'.buffers = Tail(out.buffers)
    <3> DEFINE t == Tail(out.buffers)
    <3>1. /\ \A i \in 1..Len(t) : i + 1 \in 1..Len(out.buffers) /\ t[i] = out.buffers[i + 1]
          /\ \A i \in 1..Len(out.buffers) :
                 out.buffers[i] = w \/ (i - 1 \in 1..Len(t) /\ t[i - 1] = out.buffers[i])
      BY <1>0, <1>b
    <3>2. out'.buffers = t
      BY <2>2
    <3>3. out.buffers # Tail(out.buffers)
      BY <1>0, TailDiffers
    <3>4. loc'[w] # "pending"
      BY <1>0, <1>3, <2>2, <3>3 DEF TypeOK
    <3> HIDE DEF t
    <3>5. ASSUME NEW v \in Works, Sending(v)' PROVE Sending(v)
      BY <3>1, <3>2, <3>5 DEF Sending
    <3>6. ASSUME NEW v \in Works, v # w, Sending(v) PROVE Sending(v)'
      <4>1. PICK i \in 1..Len(out.buffers) : out.buffers[i] = v
        BY <3>6 DEF Sending
      <4>2. i - 1 \in 1..Len(t) /\ t[i - 1] = v
        BY <3>1, <3>6, <4>1
      <4> QED BY <3>2, <4>2 DEF Sending
    <3> QED BY <3>4, <3>5, <3>6
  <2> QED BY <1>3, <2>1, <2>2
<1>5. /\ \A v \in Works : loc'[v] = loc[v] \/ (v = w /\ loc[v] = "pending" /\ loc'[v] = "done")
      /\ ready' = ready \/ out'.cloneable
      /\ UNCHANGED loc \/ out'.cloneable
  BY <1>0, <1>3 DEF TypeOK
<1>6. /\ (Settled' <=> Settled)
      /\ In("pending")' \subseteq In("pending") /\ In("queue")' = In("queue")
      /\ In("abandoned")' = In("abandoned")
      /\ \A v \in Works : /\ Told(v)' <=> Told(v)
                          /\ Given(v)' <=> Given(v)
                          /\ Begun(v)' <=> Begun(v)
  BY <1>1, <1>5 DEF Settled, In, Told, Given, Returning, Begun
<1>7. /\ \A v \in Works : Pictured(v)' => Pictured(v)
      /\ \A v \in In("pending")' : Pictured(v) => Pictured(v)'
  <2>1. \A v \in Works : loc'[v] = "pending" /\ Sending(v) => Sending(v)'
    BY <1>4
  <2>2. \A v \in In("pending")' : v \in Works /\ loc'[v] = "pending"
    BY DEF In
  <2> QED BY <1>1, <1>4, <2>1, <2>2 DEF Pictured
<1>8. PictureOrder(tasks') /\ AllMade' /\ AllTold'
  BY <1>1, <1>6 DEF DeliveryInv, AllMade, AllTold
<1>9. Coming' /\ HeldBegun'
  BY <1>1, <1>6, <1>7 DEF DeliveryInv, Coming, HeldBegun, In, TypeOK
<1>10. EndOfDrain' /\ EndsDrain'
  BY <1>1, <1>3, <1>6 DEF DeliveryInv, EndOfDrain, EndsDrain
<1>11. Cloneable'
  BY <1>3, <1>5, <1>6, <1>7 DEF DeliveryInv, Cloneable
<1>12. Drained'
  <2> SUFFICES ASSUME step' = "drained", Settled
               PROVE  out'.cloneable /\ \E v \in Works : In("pending")' = {v}
    BY <1>6 DEF Drained
  <2>1. AtEnd
    BY <1>1 DEF AtEnd
  <2>2. ~Given(w)
    BY <1>0, <2>1, NoneGiven DEF HealthInv, Drains
  <2>3. ~(loc[w] = "pending" /\ w \in inputHeld)
    BY <1>0, <2>2 DEF DeliveryInv, Coming, In
  <2>4. loc[w] # "pending" => out.cloneable
    BY <1>0, <1>2 DEF DeliveryInv, Cloneable
  <2>5. KeptForEos(w) /\ UNCHANGED loc /\ out'.cloneable
    BY <1>3, <2>3, <2>4
  <2>6. In("pending")' = {w}
    BY <2>5 DEF KeptForEos, In
  <2> QED BY <1>0, <2>5, <2>6
<1>13. StopAbandons'
  BY <1>1, <1>6 DEF DeliveryInv, StopAbandons
<1> QED
  BY <1>8, <1>9, <1>10, <1>11, <1>12, <1>13 DEF DeliveryInv

\* onDrain(): works with a picture to come are drained.
LEMMA DrainDelivers ==
    ASSUME AllInv, DeliveryInv, Delivering, NEW mode \in DrainMode, onDrain(mode)
    PROVE  DeliveryInv'
<1> USE DEF AllInv, client
<1>1. CASE UNCHANGED <<mComponentState, hal, out>>
  BY <1>1, PlainHandlers
<1>2. CASE ~UNCHANGED <<mComponentState, hal, out>>
  <2>1. PICK op \in {"onDrainWithEos", "onDrainNoEos"} : Take(op)
    BY DEF onDrain, Run
  <2>2. PictureQueue /\ step = "idle"
    BY <2>1, PictureTake DEF onDrain, DeliveryInv, Take
  <2>3. /\ mComponentState = "STARTED" /\ mComponentState' = "DRAINING"
        /\ hal'.in = hal.in /\ hal'.owes = hal.owes
        /\ out'.buffers = out.buffers /\ out'.cloneable = out.cloneable
        /\ UNCHANGED <<step, loc, mDrainMode, inputHeld, ready>>
    BY <1>2 DEF onDrain, TypeOK, HalSet, OutSet
  <2>4. /\ Settled /\ Settled' /\ ~AtEnd /\ ~AtEnd'
        /\ UNCHANGED <<In("pending"), In("queue"), In("abandoned")>>
        /\ \A v \in Works : /\ Pictured(v)' <=> Pictured(v)
                            /\ Given(v)' <=> Given(v)
                            /\ Begun(v)' <=> Begun(v)
    <3>1. \A v \in Works : (Pictured(v)' <=> Pictured(v)) /\ (Given(v)' <=> Given(v))
      BY <2>2, <2>3 DEF PictureQueue, Pictured, Told, Sending, Given
    <3> QED BY <2>2, <2>3, <3>1 DEF Settled, AtEnd, In, Begun
  <2>5. PictureOrder(tasks') /\ AllMade' /\ AllTold'
    BY <2>2, <2>3, <2>4 DEF DeliveryInv, PictureQueue, AllMade, AllTold
  <2>6. Coming' /\ HeldBegun'
    BY <2>3, <2>4 DEF DeliveryInv, Coming, HeldBegun, In, TypeOK
  <2>7. EndOfDrain' /\ EndsDrain'
    BY <2>3, <2>4 DEF DeliveryInv, EndOfDrain, EndsDrain
  <2>8. Cloneable' /\ Drained' /\ StopAbandons'
    BY <2>3, <2>4 DEF DeliveryInv, Cloneable, Drained, StopAbandons, AtEnd
  <2> QED BY <2>5, <2>6, <2>7, <2>8 DEF DeliveryInv
<1> QED
  BY <1>1, <1>2

\* When all is to be thrown away no picture is missed.
LEMMA UnsettledDelivers ==
    ASSUME ~Settled', PictureOrder(tasks'), AllMade', AllTold', HeldBegun', EndsDrain',
           ready' # {} => out'.cloneable, StopAbandons'
    PROVE  DeliveryInv'
  BY DEF DeliveryInv, Coming, EndOfDrain, Cloneable, Drained

\* onDrainDone(): all the pictures are there.
LEMMA DrainDoneDelivers ==
    ASSUME AllInv, DeliveryInv, onDrainDone
    PROVE  DeliveryInv'
<1> USE DEF AllInv
<1>1. Take("onDrainDone") /\ Follow(<<>>)
  BY DEF onDrainDone, Run
<1>2. /\ PictureQueue /\ step = "idle" /\ Queued(tasks, "onDrainDone")
      /\ \A v \in Works : ~Told(v)'
  BY <1>1, PictureTake DEF DeliveryInv, Take, Answers
<1>3. /\ mComponentState \in {"DRAINING", "FLUSHING", "STOPPING"}
      /\ out.eos => In("pending") # {}
  BY <1>2 DEF HealthInv, Drains
<1>4. \A v \in Works : hal.owes[v] = "nothing"
  BY <1>2 DEF DeliveryInv, AllMade, Answers
<1>5. UNCHANGED <<mDrainMode, inputHeld, ready, hal>>
  BY DEF onDrainDone
<1>6. PictureOrder(tasks') /\ AllMade' /\ AllTold'
  BY <1>2, <1>4, <1>5 DEF PictureQueue, AllMade, AllTold
<1>7. CASE DrainMayEnd
  <2>1. /\ mComponentState' = IF mComponentState = "DRAINING" THEN "STARTED" ELSE "FLUSHING"
        /\ step' = "draining" /\ UNCHANGED <<loc, out>>
    BY <1>7 DEF onDrainDone, DrainMayEnd, DrainEnds
  <2>2. /\ (Settled' <=> Settled) /\ AtEnd'
        /\ UNCHANGED <<In("pending"), In("queue"), In("abandoned")>>
        /\ \A v \in Works : /\ Pictured(v)' <=> Pictured(v)
                            /\ Given(v)' <=> Given(v)
                            /\ Begun(v)' <=> Begun(v)
    <3>1. \A v \in Works : (Pictured(v)' <=> Pictured(v)) /\ (Given(v)' <=> Given(v))
      BY <1>2, <1>5, <2>1 DEF PictureQueue, Pictured, Told, Sending, Given
    <3> QED BY <1>3, <1>7, <2>1, <3>1 DEF Settled, AtEnd, In, Begun, DrainMayEnd
  <2>3. Coming' /\ HeldBegun'
    BY <1>5, <2>1, <2>2 DEF DeliveryInv, Coming, HeldBegun, In, TypeOK
  <2>4. EndOfDrain' /\ EndsDrain'
    BY <1>5, <2>1, <2>2 DEF DeliveryInv, EndOfDrain, EndsDrain
  <2>5. Cloneable' /\ Drained' /\ StopAbandons'
    BY <1>5, <1>7, <2>1, <2>2 DEF DeliveryInv, Cloneable, Drained, StopAbandons, DrainMayEnd
  <2> QED BY <1>6, <2>3, <2>4, <2>5 DEF DeliveryInv
<1>8. CASE ~DrainMayEnd
  <2>1. mComponentState = "STOPPING"
    BY <1>3, <1>8 DEF DrainMayEnd
  <2>2. UNCHANGED step /\ IF out.eos THEN reportEOSWork ELSE UNCHANGED <<status, loc, out>>
    BY <1>8, <2>1 DEF onDrainDone, DrainMayEnd
  <2>3. /\ mComponentState' = "STOPPING" /\ out'.cloneable = out.cloneable
        /\ \A v \in Works : loc'[v] = loc[v] \/ (loc[v] \in {"pending", "abandoned"}
                                                  /\ loc'[v] \in {"eos", "notFound"})
    <3>1. CASE out.eos
      <4>1. reportEOSWork /\ In("pending") # {}
        BY <1>3, <2>2, <3>1
      <4>2. out'.cloneable = out.cloneable
        BY <4>1 DEF reportEOSWork, TypeOK, OutSet
      <4> QED BY <2>1, <4>1, <4>2, EosReported DEF status
    <3>2. CASE ~out.eos
      BY <2>1, <2>2, <3>2 DEF status
    <3> QED BY <3>1, <3>2
  <2>4. ~Settled' /\ HeldBegun' /\ EndsDrain' /\ StopAbandons'
    BY <1>5, <2>3 DEF DeliveryInv, Settled, HeldBegun, EndsDrain, StopAbandons, Begun, In, TypeOK
  <2> QED
    BY <1>5, <1>6, <2>3, <2>4, UnsettledDelivers DEF DeliveryInv, Cloneable
<1> QED
  BY <1>7, <1>8

\* and its end: what is pending still is one work, or none has a picture.
LEMMA OneIsLeft ==
    ASSUME TypeOK, DeliveryInv, step = "drained", Settled
    PROVE  /\ \A v, w \in In("pending") : v = w
           /\ \A v \in In("pending") : Pictured(v) => out.cloneable
<1>1. CASE out.buffers = <<>>
  <2>1. AtEnd
    BY DEF AtEnd
  <2>2. \A v \in Works : ~Pictured(v)
    BY <1>1, <2>1 DEF DeliveryInv, AllMade, AllTold, Pictured, Told, Sending
  <2>3. \A v \in In("pending") : v \in Works /\ v \in NoBufferWorks
    BY <2>2 DEF DeliveryInv, Coming, In
  <2> QED BY <2>2, <2>3 DEF DeliveryInv, EndOfDrain
<1>2. CASE out.buffers # <<>>
  BY <1>2 DEF DeliveryInv, Drained
<1> QED
  BY <1>1, <1>2

LEMMA DrainTailDelivers ==
    ASSUME AllInv, DeliveryInv, DrainDoneTail
    PROVE  /\ DeliveryInv'
           /\ Settled => \A w \in Works : loc'[w] = "notFound" => loc[w] = "notFound"
<1> USE DEF AllInv
<1>1. AtEnd /\ step = "drained" /\ step' = "idle" /\ ~AtEnd'
  BY DEF DrainDoneTail, AtEnd
<1>2. /\ out.eos => In("pending") # {}
      /\ mComponentState \in {"STARTED", "FLUSHING"}
  BY <1>1 DEF HealthInv, Drains
<1>3. /\ UNCHANGED <<mDrainMode, inputHeld, ready, hal>> /\ Post(Task("onDequeueWork"))
      /\ IF out.eos THEN reportEOSWork ELSE UNCHANGED <<status, loc, out>>
  BY <1>2 DEF DrainDoneTail
<1>4. PictureQueue
  <2>1. Task("onDequeueWork") \in TaskSet /\ Task("onDequeueWork").op = "onDequeueWork"
    BY TaskTypes, OpsDiffer DEF Task
  <2> QED BY <1>3, <2>1, PicturePost DEF DeliveryInv, Answers
<1>5. PictureOrder(tasks') /\ AllMade' /\ AllTold'
  BY <1>1, <1>3, <1>4 DEF DeliveryInv, PictureQueue, AllMade, AllTold
<1>6. CASE out.eos
  <2>1. PICK w \in In("pending") :
            loc' = [v \in Works |->
                       IF v = w THEN "eos"
                       ELSE IF loc[v] = "pending" THEN "notFound"
                       ELSE IF loc[v] = "abandoned" /\ In("pending") # {w} THEN "notFound"
                       ELSE loc[v]]
    BY <1>2, <1>3, <1>6 DEF reportEOSWork
  <2>2. /\ mComponentState' = mComponentState
        /\ out'.cloneable = out.cloneable /\ out'.buffers = out.buffers
    BY <1>2, <1>3, <1>6 DEF reportEOSWork, status, TypeOK, OutSet
  <2>3. /\ w \in Works /\ loc[w] = "pending" /\ In("abandoned") = {}
        /\ In("pending")' = {} /\ In("queue")' = In("queue") /\ In("abandoned")' = {}
        /\ \A v \in Works : Begun(v) => Begun(v)'
    BY <1>2, <2>1 DEF DeliveryInv, StopAbandons, In, Begun
  <2>4. \A v \in Works : Pictured(v)' <=> Pictured(v)
    BY <1>3, <1>4, <2>2 DEF PictureQueue, Pictured, Told, Sending
  <2>5. Settled' <=> Settled
    BY <2>2 DEF Settled
  <2>6. Coming' /\ HeldBegun' /\ EndOfDrain' /\ EndsDrain'
    BY <1>3, <2>3 DEF DeliveryInv, Coming, HeldBegun, EndOfDrain, EndsDrain, TypeOK
  <2>7. Cloneable'
    BY <1>1, <1>3, <2>2, <2>3, <2>4, <2>5, OneIsLeft DEF DeliveryInv, Cloneable, In
  <2>8. Drained' /\ StopAbandons'
    BY <1>1, <2>3 DEF Drained, StopAbandons
  <2>9. Settled => \A v \in Works : loc'[v] = "notFound" => loc[v] = "notFound"
    <3>1. Settled => \A v \in Works : loc[v] = "pending" => v = w
      BY <1>1, OneIsLeft DEF In
    <3>2. \A v \in Works : loc[v] # "abandoned"
      BY <2>3 DEF In
    <3> QED BY <2>1, <3>1, <3>2
  <2> QED BY <1>5, <2>6, <2>7, <2>8, <2>9 DEF DeliveryInv
<1>7. CASE ~out.eos
  <2>1. UNCHANGED <<mComponentState, loc, out>>
    BY <1>3, <1>7 DEF status
  <2>2. /\ (Settled' <=> Settled)
        /\ UNCHANGED <<In("pending"), In("queue"), In("abandoned")>>
        /\ \A v \in Works : /\ Pictured(v)' <=> Pictured(v)
                            /\ Given(v)' <=> Given(v)
                            /\ Begun(v)' <=> Begun(v)
    <3>1. \A v \in Works : (Pictured(v)' <=> Pictured(v)) /\ (Given(v)' <=> Given(v))
      BY <1>3, <1>4, <2>1 DEF PictureQueue, Pictured, Told, Sending, Given
    <3> QED BY <2>1, <3>1 DEF Settled, In, Begun
  <2>3. Coming' /\ HeldBegun' /\ EndsDrain'
    BY <1>3, <2>1, <2>2 DEF DeliveryInv, Coming, HeldBegun, EndsDrain, In, TypeOK
  <2>4. EndOfDrain'
    BY <1>7, <2>2 DEF DeliveryInv, EndOfDrain
  <2>5. Cloneable' /\ Drained' /\ StopAbandons'
    BY <1>1, <1>3, <2>1, <2>2 DEF DeliveryInv, Cloneable, Drained, StopAbandons
  <2> QED BY <1>5, <2>1, <2>3, <2>4, <2>5 DEF DeliveryInv
<1> QED
  BY <1>6, <1>7

\* onFlush() and onStop(): all that is left will be thrown away.
LEMMA FlushAndStopDeliver ==
    ASSUME AllInv, DeliveryInv, onFlush \/ onStop
    PROVE  DeliveryInv'
<1> USE DEF AllInv, work, client
<1>1. PICK op \in {"onFlush", "onStop"} : /\ Take(op) /\ Follow(<<>>)
                                          /\ op = "onFlush" => onFlush
                                          /\ op = "onStop" => onStop
  BY DEF onFlush, onStop, Run
<1>2. PictureQueue /\ step = "idle" /\ Queued(tasks, op)
  BY <1>1, PictureTake DEF DeliveryInv, Take
<1>3. mComponentState \in {"STARTED", "DRAINING"}
  <2>1. CASE op = "onFlush"
    <3>1. flusher \notin {"idle", "signalled"} /\ ctl = "idle" /\ mState = "RUNNING"
      BY <1>2, <2>1 DEF HealthInv, OneCall
    <3>2. Queued(tasks, "onFlush")
      BY <1>2, <2>1
    <3> QED BY <3>1, <3>2, StateNames DEF HealthInv, Stage, TypeOK
  <2>2. CASE op = "onStop"
    <3>1. ~No(tasks, {"onStop"}) /\ ~No(tasks, StopOrWork)
      BY <1>2, <2>2 DEF No, Queued, StopOrWork
    <3>2. ctl = "stopping" /\ mState = "RUNNING" /\ flusher = "idle"
      BY <3>1 DEF StopInv, StopOfStopping, HealthInv, OneCall
    <3> QED BY <3>1, <3>2, StateNames DEF HealthInv, Stage, StopInv, StoppingIsAlone, TypeOK
  <2> QED BY <2>1, <2>2
<1>4. /\ mComponentState' \in {"FLUSHING", "STOPPING"}
      /\ hal'.owes = hal.owes /\ out'.cloneable = out.cloneable
      /\ UNCHANGED <<step, mDrainMode, inputHeld, ready>>
      /\ \/ UNCHANGED loc
         \/ loc' = Moved(In("queue"), "abandoned") /\ mComponentState' = "STOPPING"
  <2>1. CASE op = "onFlush"
    BY <1>1, <1>3, <2>1 DEF onFlush, SetState, TypeOK, HalSet, OutSet
  <2>2. CASE op = "onStop"
    BY <1>1, <1>3, <2>2 DEF onStop, HealthInv, Quiet, TypeOK, HalSet
  <2> QED BY <2>1, <2>2
<1>5. /\ ~Settled' /\ ~AtEnd'
      /\ \A v \in Works : Begun(v) => Begun(v)'
      /\ In("queue")' \subseteq In("queue")
  BY <1>2, <1>4 DEF Settled, AtEnd, Begun, Moved, In
<1>6. PictureOrder(tasks') /\ AllMade' /\ AllTold'
  BY <1>2, <1>4, <1>5 DEF DeliveryInv, PictureQueue, AllMade, AllTold
<1>7. HeldBegun' /\ EndsDrain'
  BY <1>4, <1>5 DEF DeliveryInv, HeldBegun, EndsDrain, TypeOK
<1>8. StopAbandons'
  <2>1. In("abandoned") = {}
    BY <1>3 DEF DeliveryInv, StopAbandons
  <2> QED BY <1>4, <2>1 DEF StopAbandons, In
<1> QED
  BY <1>4, <1>5, <1>6, <1>7, <1>8, UnsettledDelivers DEF DeliveryInv, Cloneable

\* A component without pending works misses none.
LEMMA EmptyDelivers ==
    ASSUME PictureOrder(tasks'), AllMade', ~AtEnd', In("pending")' = {}, In("abandoned")' = {},
           HeldBegun', EndsDrain',
           ready' # {} => out'.cloneable,
           Settled' => \A w \in Works : Pictured(w)' => out'.cloneable
    PROVE  DeliveryInv'
  BY DEF DeliveryInv, AllTold, Coming, EndOfDrain, Cloneable, Drained, StopAbandons, AtEnd

\* onFlushOrStopDone(): it is done, for the pending works and for the pictures.
LEMMA ResetDoneDelivers ==
    ASSUME AllInv, DeliveryInv, onFlushOrStopDone
    PROVE  DeliveryInv'
<1> USE DEF AllInv
<1>1. Take("onFlushOrStopDone") /\ Follow(<<>>)
  BY DEF onFlushOrStopDone, Run
<1>2. /\ PictureQueue /\ Queued(tasks, "onFlushOrStopDone")
      /\ \A v \in Works : ~Told(v)'
  BY <1>1, PictureTake DEF DeliveryInv, Answers
<1>3. mComponentState \in {"FLUSHING", "STOPPING"}
  BY <1>2 DEF HealthInv, Resets
<1>4. \A v \in Works : hal.owes[v] = "nothing"
  BY <1>2 DEF DeliveryInv, AllMade, Answers
<1>5. UNCHANGED <<mDrainMode, inputHeld, ready, hal>> /\ step' = "resetInfo"
  BY <1>3 DEF onFlushOrStopDone
<1>6. /\ In("pending")' = {} /\ In("abandoned")' = {} /\ In("queue")' \subseteq In("queue")
      /\ \A v \in Works : Begun(v) => Begun(v)'
      /\ out'.buffers = <<>> /\ out'.cloneable = out.cloneable
  <2>1. CASE mComponentState = "FLUSHING"
    <3>1. onFlushDone
      BY <2>1 DEF onFlushOrStopDone, HealthInv, Quiet
    <3>2. \A v \in Works : loc'[v] = IF loc[v] \in FlushedPlaces THEN "flushList"
                                     ELSE IF loc[v] = "flushList" THEN "destroyed" ELSE loc[v]
      BY <3>1 DEF onFlushDone
    <3>3. out'.buffers = <<>> /\ out'.cloneable = out.cloneable
      BY <3>1 DEF onFlushDone, TypeOK, OutSet
    <3> QED BY <3>2, <3>3 DEF In, Begun, FlushedPlaces
  <2>2. CASE mComponentState = "STOPPING"
    <3>1. onStopDone(In("pending") \cup In("abandoned"))
      BY <2>2 DEF onFlushOrStopDone
    <3>2. loc' = Moved(In("pending") \cup In("abandoned"), "notFound")
      BY <3>1 DEF onStopDone, reportAbandonedWorks
    <3>3. out'.buffers = <<>> /\ out'.cloneable = out.cloneable
      BY <3>1 DEF onStopDone, TypeOK, OutSet
    <3> QED BY <3>2, <3>3 DEF In, Begun, Moved
  <2> QED BY <1>3, <2>1, <2>2
<1>7. PictureOrder(tasks') /\ AllMade' /\ ~AtEnd'
  BY <1>2, <1>4, <1>5 DEF PictureQueue, AllMade, AtEnd
<1>8. HeldBegun' /\ EndsDrain'
  BY <1>5, <1>6 DEF DeliveryInv, HeldBegun, EndsDrain, TypeOK
<1>9. \A v \in Works : ~Pictured(v)'
  BY <1>2, <1>4, <1>5, <1>6 DEF Pictured, Told, Sending
<1> QED
  BY <1>5, <1>6, <1>7, <1>8, <1>9, EmptyDelivers DEF DeliveryInv, Cloneable

\* onStart() and onDestroy(): there are no works.
LEMMA StartDelivers ==
    ASSUME AllInv, DeliveryInv, NEW outcome \in StartOutcomes, onStart(outcome)
    PROVE  DeliveryInv'
<1> USE DEF AllInv, work
<1>1. Take("onStart") /\ Follow(<<>>)
  BY DEF onStart, Run
<1>2. PictureQueue /\ Queued(tasks, "onStart") /\ step = "idle"
  BY <1>1, PictureTake DEF DeliveryInv, Answers, Take
<1>3. /\ \A w \in Works : loc[w] \notin InComponent
      /\ mComponentState \in {"UNINITIALIZED", "STARTING"}
  <2>1. ~No(tasks, {"onStart"})
    BY <1>2 DEF No, Queued
  <2>2. ctl = "starting"
    BY <2>1 DEF StopInv, StartOfStarting
  <2> QED BY <2>2, StateNames DEF HealthInv, OneCall, LoadedEmpty, Emptied, Stage, TypeOK
<1>4. /\ \A w \in Works : hal'.owes[w] = "nothing"
      /\ UNCHANGED <<step, loc, mDrainMode, inputHeld, ready, out>>
  BY DEF onStart, IdleHal
<1>5. In("pending")' = {} /\ In("abandoned")' = {} /\ In("queue")' = In("queue")
  BY <1>3, <1>4 DEF In, InComponent
<1>6. PictureOrder(tasks') /\ AllMade' /\ ~AtEnd'
  BY <1>2, <1>4 DEF PictureQueue, AllMade, AtEnd
<1>7. HeldBegun' /\ EndsDrain'
  BY <1>4, <1>5 DEF DeliveryInv, HeldBegun, EndsDrain, Begun, TypeOK
<1>8. \A w \in Works : Pictured(w)' => Pictured(w)
  BY <1>2, <1>4 DEF PictureQueue, Pictured, Told, Sending
<1>9. \A w \in Works : Pictured(w)' => out'.cloneable
  BY <1>3, <1>4, <1>8 DEF DeliveryInv, Cloneable, Settled, InComponent
<1> QED
  BY <1>4, <1>5, <1>6, <1>7, <1>9, EmptyDelivers DEF DeliveryInv, Cloneable

LEMMA DestroyDelivers ==
    ASSUME AllInv, DeliveryInv, onDestroy
    PROVE  DeliveryInv'
<1> USE DEF AllInv
<1>1. Take("onDestroy") /\ tasks \in Seq(TaskSet)
  BY DEF onDestroy, Run, TypeOK
<1>2. Queued(tasks, "onDestroy") /\ step = "idle"
  BY <1>1 DEF Take, Queued
<1>3. \A w \in Works : loc[w] \notin InComponent
  BY <1>2 DEF HealthInv, OneCall, LoadedEmpty, Emptied
<1>4. /\ \A w \in Works : hal'.owes[w] = "nothing"
      /\ tasks' = <<>> /\ out'.buffers = <<>> /\ out'.cloneable = out.cloneable
      /\ UNCHANGED <<step, loc, mDrainMode, inputHeld, ready>>
  BY DestroyHealth DEF onDestroy, IdleHal, TypeOK, OutSet
<1>5. In("pending")' = {} /\ In("abandoned")' = {} /\ In("queue")' = In("queue")
  BY <1>3, <1>4 DEF In, InComponent
<1>6. PictureOrder(tasks') /\ AllMade' /\ ~AtEnd'
  BY <1>2, <1>4 DEF PictureOrder, After, AllMade, AtEnd
<1>7. HeldBegun' /\ EndsDrain'
  BY <1>4, <1>5 DEF DeliveryInv, HeldBegun, EndsDrain, Begun, TypeOK
<1>8. \A w \in Works : ~Pictured(w)'
  BY <1>4 DEF Pictured, Sending, Has
<1> QED
  BY <1>4, <1>5, <1>6, <1>7, <1>8, EmptyDelivers DEF DeliveryInv, Cloneable

\* No frame fails, and the decoder asks for no retry.
LEMMA NoneFails ==
    ASSUME AllInv, Delivering,
           \/ onErrorFrame \/ onNoOutFrameNotify \/ onReportNoOutFrameFinished
           \/ ReportNoOutFrame \/ onReportError
    PROVE  FALSE
<1> USE DEF AllInv
<1>1. \A op : Take(op) => Queued(tasks, op)
  BY DEF Take, Queued, TypeOK
<1>2. ~onErrorFrame
  <2> SUFFICES ASSUME onErrorFrame PROVE FALSE
    OBVIOUS
  <2>1. \E w \in Works : Failing(w)
    BY ErrorFrameTypes, ErrorFrames
  <2> QED BY <2>1 DEF FrameInv, Delivering
<1> QED
  BY <1>1, <1>2
  DEF onNoOutFrameNotify, onReportNoOutFrameFinished, ReportNoOutFrame, onReportError, Run,
      HealthInv, Quiet

LEMMA NextDelivers ==
    ASSUME Delivering, AllInv, DeliveryInv, [Next]_vars, Orderly'
    PROVE  DeliveryInv'
<1>1. CASE Client
  BY <1>1, ClientDelivers
<1>2. CASE Handler
  <2>1. TypeOK'
    BY NextType DEF AllInv
  <2> QED
    BY <1>2, <2>1, PlainHandlers, DequeueDelivers, InputDelivers, OutputDelivers, NothingDelivers,
       SendDelivers, DrainDelivers, DrainDoneDelivers, DrainTailDelivers, FlushAndStopDeliver,
       ResetDoneDelivers, StartDelivers, DestroyDelivers, NoneFails
    DEF Handler
<1>3. CASE Decoder
  BY <1>3, DecoderDelivers
<1>4. CASE UNCHANGED vars
  <2>1. PictureQueue
    BY <1>4, PictureSame DEF vars, thread, DeliveryInv
  <2>2. Undisturbed /\ WorksUndisturbed
    BY <1>4, <2>1
    DEF vars, status, thread, work, Undisturbed, WorksUndisturbed, AtEnd, Begun
  <2> QED BY <2>2, DeliveryKept DEF AllInv
<1> QED
  BY <1>1, <1>2, <1>3, <1>4 DEF Next

LEMMA InitDelivers == Init => DeliveryInv
<1> SUFFICES ASSUME Init PROVE DeliveryInv
  OBVIOUS
<1>1. /\ PictureOrder(tasks) /\ AllMade /\ AllTold
      /\ \A w \in Works : ~Pictured(w)
  BY DEF Init, PictureOrder, After, AllMade, AllTold, AtEnd, Queued, Pictured, Sending, Has, IdleHal
<1>2. In("pending") = {} /\ In("queue") = {} /\ In("abandoned") = {}
  BY DEF Init, In
<1>3. inputHeld = {} /\ ready = {} /\ step = "idle"
  BY DEF Init
<1> QED
  BY <1>1, <1>2, <1>3
  DEF DeliveryInv, Coming, HeldBegun, EndOfDrain, EndsDrain, Cloneable, Drained, StopAbandons

\* DeliveryInv holds as long as the session is orderly.
DeliveredInv == OrderlyInv /\ (Orderly => DeliveryInv)

LEMMA DeliveryCorrect ==
    ASSUME Delivering
    PROVE  Spec => []DeliveredInv
<1>1. Init => DeliveryInv
  BY InitDelivers
<1>2. OrderlyInv /\ DeliveredInv /\ [Next]_vars => (Orderly => DeliveryInv)'
  <2> SUFFICES ASSUME OrderlyInv, DeliveredInv, [Next]_vars, Orderly' PROVE DeliveryInv'
    OBVIOUS
  <2>1. Orderly
    BY CountsGrow DEF OrderlyInv
  <2> QED BY <2>1, NextDelivers DEF OrderlyInv, DeliveredInv, AllInv
<1>3. Spec => []OrderlyInv
  BY HealthCorrect DEF Delivering
<1> QED
  BY <1>1, <1>2, <1>3, PTL DEF Spec, DeliveredInv

\* With no error and no early end of a wait allowed, every session is orderly.
LEMMA AlwaysOrderly ==
    ASSUME MaxCalls["halError"] = 0, MaxCalls["earlyTimeout"] = 0
    PROVE  Spec => []Orderly
<1>1. Init => Orderly
  BY DEF Init, Orderly, Call
<1>2. TypeOK /\ Orderly /\ [Next]_vars => Orderly'
  <2> SUFFICES ASSUME TypeOK, Orderly, [Next]_vars PROVE Orderly'
    OBVIOUS
  <2>1. calls \in [Call -> Nat]
    BY DEF TypeOK
  <2>2. UNCHANGED calls \/ \E c \in Call : May(c) /\ Count(c)
    BY CallsMade DEF Call
  <2>3. ASSUME NEW c \in Call, May(c), Count(c) PROVE Orderly'
    <3>1. c \notin {"halError", "earlyTimeout"}
      BY <2>3 DEF May, Orderly
    <3> QED BY <2>1, <2>3, <3>1 DEF Count, Orderly, Call
  <2> QED BY <2>2, <2>3 DEF Orderly
<1> QED
  BY <1>1, <1>2, TypeCorrect, PTL DEF Spec

\* reportEOSWork() at the end of a drain finds one work at most to be reported.
THEOREM DrainDeliversCorrect ==
    ASSUME Delivering, MaxCalls["halError"] = 0, MaxCalls["earlyTimeout"] = 0
    PROVE  Spec => DrainDeliversPictures
<1> DEFINE Delivers == step = "drained" /\ mComponentState = "STARTED"
                          => \A w \in Works : loc'[w] = "notFound" => loc[w] = loc'[w]
<1>1. OrderlyInv /\ Orderly /\ DeliveredInv /\ [Next]_vars => [Delivers]_vars
  <2> SUFFICES ASSUME OrderlyInv, Orderly, DeliveredInv, [Next]_vars,
                      step = "drained", mComponentState = "STARTED",
                      NEW w \in Works, loc'[w] = "notFound"
               PROVE  loc[w] = "notFound"
    OBVIOUS
  <2> USE DEF OrderlyInv, DeliveredInv, status, thread, work, client
  <2>1. CASE Client
    <3>1. \/ UNCHANGED loc
          \/ \E v \in Works : loc' = [loc EXCEPT ![v] = "posted"]
          \/ loc' = Moved(In("flushList"), "flushed")
      BY <2>1 DEF Client, queue_nb, drain_nb, flush_sm, FlushWait, FlushTimeout, FlushReturn,
         start, StartReturn, stop, StopReturn, release
    <3> QED BY <3>1 DEF Moved, TypeOK
  <2>2. CASE Handler
    <3>1. DrainDoneTail
      BY <2>2
      DEF Handler, Skip, onQueueWork, onDequeueWork, onInputBufferDone, onOutputBufferDone,
          sendOutputBufferToWorkIfAnyTask, sendOutputBufferToWorkIfAny, NothingToSend, onDrain,
          onDrainDone, onFlush, onStop, onFlushOrStopDone, resetInputAndOutputBufInfo,
          onErrorFrame, onNoOutFrameNotify, onReportNoOutFrameFinished, ReportNoOutFrame,
          onReportError, onDestroy, onStart, Run, Take
    <3>2. Settled
      BY DEF Settled
    <3> QED BY <3>1, <3>2, DrainTailDelivers DEF AllInv
  <2>3. CASE Decoder
    BY <2>3
    DEF Decoder, NotifyEndOfBitstreamBuffer, PictureReady, NotifyEvent, NotifyFlushDone,
        NotifyFlushOrStopDone, NotifyError, HalOnly
  <2>4. CASE UNCHANGED vars
    BY <2>4 DEF vars
  <2> QED BY <2>1, <2>2, <2>3, <2>4 DEF Next
<1>2. Spec => []OrderlyInv /\ []Orderly /\ []DeliveredInv
  BY HealthCorrect, AlwaysOrderly, DeliveryCorrect DEF Delivering
<1>3. [][Delivers]_vars => DrainDeliversPictures
  BY DEF DrainDeliversPictures
<1> QED
  BY <1>1, <1>2, <1>3, PTL DEF Spec

-----------------------------------------------------------------------------
(* The contract of WorkContract.  Its session and its places are functions  *)
(* of mState, ctl and loc.                                                   *)

Session == IF ctl = "released" THEN "released"
           ELSE IF mState = "LOADED" THEN "stopped" ELSE "running"
PlaceOf(l) == CASE l = "client"    -> "client"
                [] l \in Held      -> "held"
                [] l \in Reported  -> "reported"
                [] l = "flushed"   -> "flushed"
                [] l = "destroyed" -> "lost"
Place == [w \in Works |-> PlaceOf(loc[w])]

\* Places tell apart what the contract tells apart.
LEMMA Places ==
    /\ PlaceOf("client") = "client"
    /\ \A l \in Held : PlaceOf(l) = "held"
    /\ \A l \in Reported : PlaceOf(l) = "reported"
    /\ PlaceOf("flushed") = "flushed"
    /\ PlaceOf("destroyed") = "lost"
    /\ \A l \in Loc : PlaceOf(l) = "held" => l \in Held
    /\ \A l \in Loc : PlaceOf(l) = "lost" => l = "destroyed"
  BY DEF PlaceOf, Held, Reported, Returned, Loc

\* The abstract steps, of Session and Place.
AbsMove(S, to) == Place' = [w \in Works |-> IF w \in S THEN to ELSE Place[w]]
HeldOnes == {w \in Works : Place[w] = "held"}

LEMMA ContractIs ==
    /\ Contract!Init <=> Session = "stopped" /\ Place = [w \in Works |-> "client"] /\ timedOut = FALSE
    /\ Contract!Start <=> Session = "stopped" /\ Session' = "running" /\ UNCHANGED <<Place, timedOut>>
    /\ \A w \in Works : Contract!Accept(w) <=>
          Session = "running" /\ Place[w] = "client" /\ AbsMove({w}, "held") /\ UNCHANGED <<Session, timedOut>>
    /\ \A S \in SUBSET Works : Contract!Report(S) <=>
          Session = "running" /\ S # {} /\ S \subseteq HeldOnes /\ AbsMove(S, "reported")
          /\ UNCHANGED <<Session, timedOut>>
    /\ Session = "running" /\ AbsMove(HeldOnes, "flushed") /\ UNCHANGED <<Session, timedOut>>
          => Contract!Flush
    /\ Contract!FlushTimesOut <=> Session = "running" /\ timedOut' = TRUE /\ UNCHANGED <<Session, Place>>
    /\ \A S \in SUBSET Works : Contract!Lose(S) <=>
          timedOut /\ S \subseteq HeldOnes /\ AbsMove(S, "lost") /\ UNCHANGED <<Session, timedOut>>
    /\ Contract!Stop <=> Session = "running" /\ (timedOut \/ HeldOnes = {}) /\ Session' = "stopped"
                         /\ UNCHANGED <<Place, timedOut>>
    /\ Contract!Release <=> Session = "stopped" /\ Session' = "released" /\ UNCHANGED <<Place, timedOut>>
    /\ UNCHANGED Contract!vars <=> UNCHANGED <<Session, Place, timedOut>>
<1> USE DEF Session, Place, PlaceOf, AbsMove, HeldOnes
<1>1. Contract!Init <=> Session = "stopped" /\ Place = [w \in Works |-> "client"] /\ timedOut = FALSE
  BY DEF Contract!Init
<1>2. Contract!Start <=> Session = "stopped" /\ Session' = "running" /\ UNCHANGED <<Place, timedOut>>
  BY DEF Contract!Start
<1>3. \A w \in Works : Contract!Accept(w) <=>
          Session = "running" /\ Place[w] = "client" /\ AbsMove({w}, "held") /\ UNCHANGED <<Session, timedOut>>
  BY DEF Contract!Accept, Contract!Move
<1>4. \A S \in SUBSET Works : Contract!Report(S) <=>
          Session = "running" /\ S # {} /\ S \subseteq HeldOnes /\ AbsMove(S, "reported")
          /\ UNCHANGED <<Session, timedOut>>
  BY DEF Contract!Report, Contract!Move, Contract!HeldWorks
<1>5. Session = "running" /\ AbsMove(HeldOnes, "flushed") /\ UNCHANGED <<Session, timedOut>>
          => Contract!Flush
  BY DEF Contract!Flush, Contract!Move, Contract!HeldWorks
<1>6. Contract!FlushTimesOut <=> Session = "running" /\ timedOut' = TRUE /\ UNCHANGED <<Session, Place>>
  BY DEF Contract!FlushTimesOut
<1>7. \A S \in SUBSET Works : Contract!Lose(S) <=>
          timedOut /\ S \subseteq HeldOnes /\ AbsMove(S, "lost") /\ UNCHANGED <<Session, timedOut>>
  BY DEF Contract!Lose, Contract!Move, Contract!HeldWorks
<1>8. Contract!Stop <=> Session = "running" /\ (timedOut \/ HeldOnes = {}) /\ Session' = "stopped"
                         /\ UNCHANGED <<Place, timedOut>>
  BY DEF Contract!Stop, Contract!HeldWorks
<1>9. Contract!Release <=> Session = "stopped" /\ Session' = "released" /\ UNCHANGED <<Place, timedOut>>
  BY DEF Contract!Release
<1>10. UNCHANGED Contract!vars <=> UNCHANGED <<Session, Place, timedOut>>
  BY DEF Contract!vars
<1> QED
  BY <1>1, <1>2, <1>3, <1>4, <1>5, <1>6, <1>7, <1>8, <1>9, <1>10

\* A step that moves works within the component, or reports them.
WorksReported ==
    \A w \in Works : \/ loc'[w] = loc[w]
                     \/ loc[w] \in InComponent /\ loc'[w] \in InComponent \cup {"flushList"} \cup Reported

LEMMA ReportingStep ==
    ASSUME TypeOK, TypeOK', HealthInv, UNCHANGED <<Session, timedOut>>, WorksReported
    PROVE  Contract!Next \/ UNCHANGED Contract!vars
<1> DEFINE S == {w \in Works : loc[w] \in InComponent /\ loc'[w] \in Reported}
<1>1. InComponent \cup {"flushList"} \subseteq Held /\ Held \cap Reported = {}
  BY DEF Held, InComponent, Reported
<1>2. \A w \in Works : PlaceOf(loc'[w]) = IF w \in S THEN "reported" ELSE PlaceOf(loc[w])
  BY <1>1, Places DEF WorksReported
<1>3. AbsMove(S, "reported") /\ S \in SUBSET Works /\ S \subseteq HeldOnes
  BY <1>1, <1>2, Places DEF AbsMove, Place, HeldOnes
<1>4. CASE S = {}
  <2>1. Place' = Place
    BY <1>2, <1>4 DEF Place
  <2> QED BY <2>1, ContractIs
<1>5. CASE S # {}
  <2>1. mState = "RUNNING" /\ ctl # "released"
    BY <1>5 DEF HealthInv, LoadedEmpty, Emptied, OneCall
  <2>2. Session = "running"
    BY <2>1 DEF Session
  <2> QED BY <1>3, <1>5, <2>2, ContractIs DEF Contract!Next
<1> QED
  BY <1>4, <1>5

\* Only the client's calls begin and end a session.
LEMMA HandlerSession ==
    ASSUME AllInv, OneCall', Handler, ~onDestroy
    PROVE  UNCHANGED <<Session, timedOut>>
<1>1. UNCHANGED timedOut /\ (UNCHANGED ctl \/ (ctl # "released" /\ ctl' # "released"))
  <2>1. CASE onStop \/ onFlushOrStopDone
    BY <2>1 DEF onStop, onFlushOrStopDone, onStopDone, Run, Take
  <2>2. CASE \E outcome \in StartOutcomes : onStart(outcome)
    <3>1. PICK outcome \in StartOutcomes : onStart(outcome)
      BY <2>2
    <3>2. outcome \in {"success", "initFailed", "noProfile"}
      BY CallAssumption DEF StartOutcome
    <3> QED BY <3>1, <3>2 DEF onStart, Run, Take
  <2>3. CASE onDrainDone \/ DrainDoneTail
    BY <2>3 DEF onDrainDone, DrainDoneTail
  <2> QED
    BY <2>1, <2>2, <2>3
    DEF Handler, Skip, onQueueWork, onDequeueWork, onInputBufferDone, onOutputBufferDone,
        sendOutputBufferToWorkIfAnyTask, sendOutputBufferToWorkIfAny, NothingToSend, onDrain,
        onFlush, resetInputAndOutputBufInfo, onErrorFrame, onNoOutFrameNotify,
        onReportNoOutFrameFinished, ReportNoOutFrame, onReportError, client
<1>2. reportError => mState' \in {mState, "ERROR"}
  BY DEF reportError, status
<1>3. reportEOSWork => mState' \in {mState, "ERROR"}
  BY <1>2 DEF reportEOSWork, status
<1>4. mState' \in {mState, "ERROR"}
  <2>1. CASE onDrainDone \/ DrainDoneTail
    BY <1>2, <1>3, <2>1 DEF onDrainDone, DrainDoneTail, DrainEnds, status
  <2>2. CASE onInputBufferDone \/ onErrorFrame \/ ReportNoOutFrame \/ onReportError \/ onFlushOrStopDone
    BY <1>2, <2>2
    DEF onInputBufferDone, onErrorFrame, ReportNoOutFrame, onReportError, onFlushOrStopDone, status
  <2> QED
    BY <2>1, <2>2
    DEF Handler, Skip, onQueueWork, onDequeueWork, onOutputBufferDone, onStart, onDrain,
        sendOutputBufferToWorkIfAnyTask, sendOutputBufferToWorkIfAny, NothingToSend, onFlush,
        onStop, resetInputAndOutputBufInfo, onNoOutFrameNotify, onReportNoOutFrameFinished, status
<1>5. mState' = mState
  BY <1>4 DEF OneCall
<1> QED
  BY <1>1, <1>5 DEF Session

\* A handler takes works into the component or reports them: none is lost.
LEMMA HandlerWorks ==
    ASSUME AllInv, Handler, ~onDestroy, ~onFlushOrStopDone
    PROVE  WorksReported
<1> USE DEF AllInv
<1>1. loc \in [Works -> Loc]
  BY DEF TypeOK
<1>2. CASE UNCHANGED loc
  BY <1>2 DEF WorksReported
<1>3. CASE Skip
  <2>1. Head(tasks).op # "onQueueWork"
    <3>1. ASSUME Head(tasks).op = "onQueueWork" PROVE FALSE
      <4>1. Queued(tasks, "onQueueWork")
        BY <1>3, <3>1, FollowFacts DEF Skip, Take, HealthInv
      <4>2. mComponentState \in {"STARTED", "DRAINING"} /\ ~mCompHasError
        BY <4>1 DEF HealthInv, QueueRuns, Quiet
      <4> QED BY <1>3, <4>2 DEF Skip, Alive
    <3> QED BY <3>1
  <2> QED BY <1>2, <1>3, <2>1 DEF Skip
<1>4. CASE onQueueWork
  <2>1. Take("onQueueWork") /\ tasks # <<>> /\ Head(tasks) = TaskFor("onQueueWork", Head(tasks).w)
    BY <1>4, HeadIs, OpsDiffer DEF onQueueWork, Run, Take
  <2>2. PICK w \in Works : w = Head(tasks).w
    BY <2>1, HeadIs, OpsDiffer
  <2>3. Has(tasks, TaskFor("onQueueWork", w))
    BY <2>1, <2>2 DEF Has, TypeOK
  <2>4. loc[w] = "posted"
    BY <2>3 DEF FrameInv, Carries, Has
  <2> QED BY <1>1, <1>4, <2>2, <2>4 DEF onQueueWork, WorksReported, InComponent
<1>5. CASE onDequeueWork
  <2>1. CASE UNCHANGED loc
    BY <1>2, <2>1
  <2>2. ASSUME NEW w \in In("queue"), NEW o, Dequeue(w, o) PROVE WorksReported
    BY <1>1, <2>2 DEF Dequeue, WorksReported, In, InComponent, Reported
  <2> QED BY <1>5, <2>1, <2>2 DEF onDequeueWork
<1>7. CASE onInputBufferDone
  BY <1>1, <1>7 DEF onInputBufferDone, reportWorkIfFinished, WorksReported, InComponent, Reported
<1>8. CASE onErrorFrame
  BY <1>1, <1>8 DEF onErrorFrame, reportWorkIfFinished, WorksReported, InComponent, Reported
<1>9. CASE sendOutputBufferToWorkIfAny
  BY <1>1, <1>9 DEF sendOutputBufferToWorkIfAny, WorksReported, InComponent, Reported
<1>10. CASE onDrainDone \/ DrainDoneTail
  BY <1>10 DEF onDrainDone, DrainDoneTail, DrainEnds, reportEOSWork, WorksReported, InComponent, Reported, In
<1>11. CASE onStop
  BY <1>11 DEF onStop, onStopDone, reportAbandonedWorks, Moved, WorksReported, InComponent, Reported, In
<1>12. CASE ReportNoOutFrame
  BY <1>12 DEF ReportNoOutFrame, HealthInv, Quiet
<1> QED
  BY <1>2, <1>3, <1>4, <1>5, <1>7, <1>8, <1>9, <1>10, <1>11, <1>12
  DEF Handler, onOutputBufferDone, sendOutputBufferToWorkIfAnyTask, NothingToSend, onDrain, onFlush,
      resetInputAndOutputBufInfo, onNoOutFrameNotify, onReportNoOutFrameFinished, onReportError,
      onStart, work

\* The client's calls are those of the contract.
LEMMA ClientContract ==
    ASSUME AllInv, AllInv', SerialClient, Client
    PROVE  Contract!Next \/ UNCHANGED Contract!vars
<1> USE DEF AllInv, status, client, work
<1>1. ASSUME NEW w \in Works, queue_nb(w) PROVE Contract!Next
  <2>1. mState = "RUNNING" /\ ctl = "idle" /\ loc[w] = "client" /\ UNCHANGED <<mState, ctl, timedOut>>
        /\ loc' = [loc EXCEPT ![w] = "posted"]
    BY <1>1 DEF queue_nb, MayQueue, First, In
  <2>2. Session = "running" /\ UNCHANGED <<Session, timedOut>>
    BY <2>1 DEF Session
  <2>3. Place[w] = "client" /\ AbsMove({w}, "held")
    <3>1. "posted" \in Held /\ loc \in [Works -> Loc]
      BY DEF Held, TypeOK
    <3>2. \A v \in Works : PlaceOf(loc'[v]) = IF v = w THEN "held" ELSE PlaceOf(loc[v])
      BY <2>1, <3>1, Places
    <3> QED BY <2>1, <3>2, Places DEF AbsMove, Place
  <2> QED BY <2>2, <2>3, ContractIs DEF Contract!Next
<1>2. ASSUME \/ \E mode \in DrainMode : drain_nb(mode)
             \/ flush_sm \/ FlushWait \/ start \/ stop \/ release
      PROVE  UNCHANGED Contract!vars
  <2>1. UNCHANGED <<mState, loc, timedOut>> /\ ctl' # "released" /\ (ctl # "released" \/ UNCHANGED ctl)
    BY <1>2 DEF drain_nb, flush_sm, FlushWait, start, stop, release, MayQueue, MayControl, HealthInv,
       OneCall
  <2>2. ctl # "released"
    BY <1>2, <2>1 DEF drain_nb, flush_sm, FlushWait, start, stop, release, MayQueue, MayControl
  <2> QED BY <2>1, <2>2, ContractIs DEF Session, Place
<1>3. CASE FlushTimeout
  <2>1. mState = "RUNNING" /\ ctl = "idle" /\ UNCHANGED <<mState, ctl, loc>> /\ timedOut' = TRUE
    BY <1>3 DEF FlushTimeout, HealthInv, OneCall
  <2>2. Contract!FlushTimesOut
    BY <2>1, ContractIs DEF Session, Place
  <2> QED BY <2>2 DEF Contract!Next
<1>4. CASE FlushReturn
  <2>1. mState = "RUNNING" /\ ctl = "idle" /\ UNCHANGED <<mState, ctl, timedOut>>
        /\ loc' = Moved(In("flushList"), "flushed") /\ flusher = "signalled"
    BY <1>4 DEF FlushReturn, HealthInv, OneCall
  <2>2. Emptied
    BY <2>1 DEF HealthInv, OneCall, FlushedEmpty, FlushIsOver
  <2>3. \A w \in Works : loc[w] \in Held <=> loc[w] = "flushList"
    BY <2>2 DEF Emptied, InComponent, Held
  <2>4. \A w \in Works : PlaceOf(loc'[w]) = IF Place[w] = "held" THEN "flushed" ELSE PlaceOf(loc[w])
    <3>1. ASSUME NEW w \in Works
          PROVE  PlaceOf(loc'[w]) = IF Place[w] = "held" THEN "flushed" ELSE PlaceOf(loc[w])
      <4>1. Place[w] = "held" <=> loc[w] = "flushList"
        BY <2>3, Places DEF Place, TypeOK
      <4>2. loc'[w] = IF loc[w] = "flushList" THEN "flushed" ELSE loc[w]
        BY <2>1 DEF Moved, In
      <4> QED BY <4>1, <4>2, Places
    <3> QED BY <3>1
  <2>5. AbsMove(HeldOnes, "flushed")
    BY <2>4 DEF AbsMove, HeldOnes, Place
  <2>6. Contract!Flush
    BY <2>1, <2>5, ContractIs DEF Session
  <2> QED BY <2>6 DEF Contract!Next
<1>5. CASE StartReturn
  <2>1. UNCHANGED <<loc, timedOut>> /\ mState = "LOADED" /\ ctl # "released" /\ ctl' = "idle"
        /\ (mState' = "RUNNING" \/ UNCHANGED mState)
    BY <1>5 DEF StartReturn, HealthInv, OneCall
  <2>2. CASE mState' = "RUNNING"
    <3>1. Contract!Start
      BY <2>1, <2>2, ContractIs DEF Session, Place
    <3> QED BY <3>1 DEF Contract!Next
  <2>3. CASE UNCHANGED mState
    BY <2>1, <2>3, ContractIs DEF Session, Place
  <2> QED BY <2>1, <2>2, <2>3
<1>6. CASE StopReturn
  <2>1. UNCHANGED <<loc, timedOut, flusher>> /\ mState = "RUNNING" /\ ctl = "stopped" /\ ctl' = "idle"
        /\ mState' = "LOADED"
    BY <1>6 DEF StopReturn, HealthInv, OneCall
  <2>2. \A w \in Works : loc[w] \notin InComponent
    BY <2>1 DEF HealthInv, LoadedEmpty, Emptied
  <2>3. timedOut \/ \A w \in Works : loc[w] # "flushList"
    BY <2>1 DEF HealthInv, ListOfFlush, FlushIsOver, OneCall, In
  <2>4. timedOut \/ HeldOnes = {}
    BY <2>2, <2>3, Places DEF HeldOnes, Place, InComponent, Held, TypeOK
  <2>5. Contract!Stop
    BY <2>1, <2>4, ContractIs DEF Session, Place
  <2> QED BY <2>5 DEF Contract!Next
<1> QED
  BY <1>1, <1>2, <1>3, <1>4, <1>5, <1>6 DEF Client

\* The answer of a reset: a stop reports, and a flush makes its list; an old list,
\* which only a flush that timed out leaves behind, is lost.
LEMMA ResetDoneContract ==
    ASSUME AllInv, AllInv', onFlushOrStopDone
    PROVE  Contract!Next \/ UNCHANGED Contract!vars
<1> USE DEF AllInv
<1>1. Handler /\ ~onDestroy
  BY OpsDiffer DEF Handler, onFlushOrStopDone, onDestroy, Run, Take
<1>2. UNCHANGED <<Session, timedOut>>
  BY <1>1, HandlerSession DEF HealthInv
<1>3. CASE UNCHANGED loc
  BY <1>2, <1>3, ReportingStep DEF WorksReported
<1>4. CASE mComponentState = "FLUSHING" /\ onFlushDone
  <2>0. PICK S \in SUBSET Works : S = In("flushList")
    BY DEF In
  <2>1. \A w \in Works : PlaceOf(loc'[w]) = IF w \in S THEN "lost" ELSE PlaceOf(loc[w])
    <3>1. FlushedPlaces \subseteq Held /\ "flushList" \in Held
      BY DEF FlushedPlaces, Held
    <3>2. ASSUME NEW w \in Works
          PROVE  PlaceOf(loc'[w]) = IF w \in S THEN "lost" ELSE PlaceOf(loc[w])
      <4>1. CASE loc[w] \in FlushedPlaces
        <5>1. loc'[w] = "flushList" /\ w \notin S
          BY <1>4, <2>0, <4>1 DEF onFlushDone, In, FlushedPlaces
        <5> QED BY <3>1, <4>1, <5>1, Places
      <4>2. CASE loc[w] \notin FlushedPlaces
        <5>1. loc'[w] = IF w \in S THEN "destroyed" ELSE loc[w]
          BY <1>4, <2>0, <4>2 DEF onFlushDone, In
        <5> QED BY <5>1, Places
      <4> QED BY <4>1, <4>2
    <3> QED BY <3>2
  <2>2. S \subseteq HeldOnes /\ AbsMove(S, "lost")
    BY <2>0, <2>1, Places DEF In, HeldOnes, Place, AbsMove, Held
  <2>3. CASE S = {}
    BY <1>2, <2>1, <2>3, ContractIs DEF Place
  <2>4. CASE S # {}
    <3>1. timedOut
      BY <1>4, <2>0, <2>4 DEF HealthInv, ListOfFlush, FlushIsOver
    <3>2. Contract!Lose(S)
      BY <1>2, <2>2, <3>1, ContractIs
    <3> QED BY <2>2, <3>2 DEF Contract!Next
  <2> QED BY <2>3, <2>4
<1>5. CASE onStopDone(In("pending") \cup In("abandoned"))
  <2>1. WorksReported
    BY <1>5 DEF onStopDone, reportAbandonedWorks, Moved, WorksReported, InComponent, Reported, In
  <2> QED BY <1>2, <2>1, ReportingStep
<1> QED
  BY <1>3, <1>4, <1>5 DEF onFlushOrStopDone

\* Every step is one of the contract, or none.
LEMMA ContractSteps ==
    ASSUME AllInv, AllInv', SerialClient, [Next]_vars
    PROVE  Contract!Next \/ UNCHANGED Contract!vars
<1> USE DEF AllInv
<1>1. CASE Client
  BY <1>1, ClientContract
<1>2. CASE Handler
  <2>1. CASE onDestroy
    <3>1. UNCHANGED <<mState, timedOut>> /\ ctl # "released" /\ ctl' = "released"
      BY <2>1 DEF onDestroy, Run, Take
    <3>2. UNCHANGED loc /\ mState = "LOADED"
      BY <2>1, DestroyHealth, <3>1 DEF HealthInv, OneCall
    <3>3. Contract!Release
      BY <3>1, <3>2, ContractIs DEF Session, Place
    <3> QED BY <3>3 DEF Contract!Next
  <2>2. CASE onFlushOrStopDone
    BY <2>2, ResetDoneContract
  <2>3. CASE ~onDestroy /\ ~onFlushOrStopDone
    BY <1>2, <2>3, HandlerSession, HandlerWorks, ReportingStep DEF HealthInv
  <2> QED BY <2>1, <2>2, <2>3
<1>3. CASE Decoder
  <2>1. UNCHANGED <<mState, ctl, loc, timedOut>>
    BY <1>3
    DEF Decoder, NotifyEndOfBitstreamBuffer, PictureReady, NotifyEvent, NotifyFlushDone,
        NotifyFlushOrStopDone, NotifyError, HalOnly, status, work
  <2> QED BY <2>1, ContractIs DEF Session, Place
<1>4. CASE UNCHANGED vars
  BY <1>4, ContractIs DEF vars, status, work, client, Session, Place
<1> QED
  BY <1>1, <1>2, <1>3, <1>4 DEF Next

\* The component keeps the contract of its client: each work it accepts comes back
\* once, a flush takes back all works, and stop() leaves none behind.
THEOREM ContractCorrect ==
    ASSUME Healthy, MaxCalls["halError"] = 0, MaxCalls["earlyTimeout"] = 0
    PROVE  Spec => ImplementsContract
<1>1. Init => Orderly /\ Contract!Init
  <2> SUFFICES ASSUME Init PROVE Orderly /\ Contract!Init
    OBVIOUS
  <2>1. Orderly
    BY DEF Init, Orderly, Call
  <2>2. Session = "stopped" /\ Place = [w \in Works |-> "client"] /\ timedOut = FALSE
    BY Places DEF Init, Session, Place
  <2> QED BY <2>1, <2>2, ContractIs
<1>2. TypeOK /\ Orderly /\ [Next]_vars => Orderly'
  <2> SUFFICES ASSUME TypeOK, Orderly, [Next]_vars PROVE Orderly'
    OBVIOUS
  <2>1. calls \in [Call -> Nat] /\ ~May("halError") /\ ~May("earlyTimeout")
    BY DEF TypeOK, Orderly, May
  <2>2. UNCHANGED calls \/ \E c \in {"start", "flush", "drain"} : Count(c)
    BY <2>1, CallsMade DEF Call
  <2> QED BY <2>1, <2>2 DEF Orderly, Count, Call
<1>3. OrderlyInv /\ OrderlyInv' /\ Orderly /\ Orderly' /\ [Next]_vars
        => [Contract!Next]_(Contract!vars)
  BY ContractSteps DEF OrderlyInv, AllInv, Healthy
<1>4. OrderlyInv => TypeOK
  BY DEF OrderlyInv
<1> QED
  BY <1>1, <1>2, <1>3, <1>4, HealthCorrect, PTL DEF Spec, ImplementsContract, Contract!Spec
=============================================================================
