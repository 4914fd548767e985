-------------------------- MODULE C2VencComponent --------------------------
(***************************************************************************)
(* The framework of the video encoders, C2VencComponent, with its worker   *)
(* thread (ThreadWorker) and, for the request of a sync frame, the encoder *)
(* C2VencHCodec.                                                           *)
(*                                                                         *)
(* The client makes one call at a time and works beside the worker.        *)
(* queue_nb(), stop() and the worker change mQueue under mInputQueueLock;  *)
(* flush_sm() does not take it, so that its steps and the worker's, which  *)
(* each move the first work out and then remove its entry, may cross.      *)
(* stop() asks the worker to exit, waits 500 ms for its signal with        *)
(* mProcessDoneLock, joins it with that lock held, and closes the encoder. *)
(*                                                                         *)
(* Works are numbers in the order they are queued; an entry of mQueue      *)
(* whose work was moved out is 0.                                          *)
(*                                                                         *)
(* An operator with a suffix (Join_NotWaited) is the one before the        *)
(* underscore with a plausible bug; no action uses it.                     *)
(***************************************************************************)
EXTENDS Integers, Sequences

CONSTANTS
    NumWorks,    \* works the client may queue over the component's life
    EmptyWorks,  \* works without input buffer
    SyncWorks,   \* works whose configUpdate requests a sync frame
    MaxCalls     \* bound on each kind of call and failure

Works == 1..NumWorks
Call == {"start", "stop", "flush", "request", "timeout", "threadError", "inputError",
         "poolError", "outputError", "headerError", "csdError", "encodeError"}

ASSUME WorksAssumption ==
    /\ NumWorks \in Nat
    /\ EmptyWorks \subseteq Works
    /\ SyncWorks \subseteq Works
ASSUME CallAssumption == MaxCalls \in [Call -> Nat]

VARIABLES
    mComponentState,
    loc,       \* who has each work
    mQueue,
    thread,    \* mRunning and mExitRequested of ThreadWorker
    worker,    \* where the worker is, and what it has on its stack
    ctl,       \* the client inside flush_sm() or stop()
    flushing,  \* the work that flush_sm() has moved out of the first entry, or 0
    enc,       \* the encoder and what the component keeps for it
    sync,      \* the parameter that requests a sync frame
    csdSent,   \* a work with codec config was reported
    crashed,   \* undefined behaviour was reached
    calls      \* calls and failures so far, for MaxCalls

queueVars  == <<loc, mQueue>>
clientVars == <<mComponentState, ctl, flushing>>
vars == <<queueVars, clientVars, thread, worker, enc, sync, csdSent, crashed, calls>>

\* A work is reported with a frame (done) or without (empty), returned by
\* flush_sm(), or destroyed: by stop(), by a failure, or as the entry that was
\* removed in place of another.
Loc == {"client", "queue", "worker", "flushing", "done", "empty", "flushed",
        "cleared", "dropped", "overrun"}
Pc == {"none", "loop", "take", "pop", "configure", "input", "read", "clear", "encode",
       "signal", "exited"}
Encoding == {"input", "read", "clear", "encode"}

At(pc)   == [pc |-> pc, work |-> 0, idr |-> FALSE, csd |-> FALSE]
NoThread == At("none")

In(place) == {w \in Works : loc[w] = place}
May(c)   == calls[c] < MaxCalls[c]
Fail(c)  == May(c) /\ calls' = [calls EXCEPT ![c] = @ + 1]

Init ==
    /\ mComponentState = "UNINITIALIZED"
    /\ loc = [w \in Works |-> "client"]
    /\ mQueue = <<>>
    /\ thread = [mRunning |-> FALSE, mExitRequested |-> FALSE]
    /\ worker = NoThread
    /\ ctl = "idle"
    /\ flushing = 0
    /\ enc = [mCodecHandle |-> FALSE, mSpsPpsHeaderReceived |-> FALSE,
              mOutBlock |-> FALSE, mOutputBlockPool |-> FALSE]
    /\ sync = [value |-> FALSE, seen |-> TRUE, wanted |-> FALSE]
    /\ csdSent = FALSE
    /\ crashed = FALSE
    /\ calls = [c \in Call |-> 0]
-----------------------------------------------------------------------------
(* The client's calls.                                                      *)

\* The worker holds mInputQueueLock while it takes a work out of mQueue.
InputQueueUnlocked == worker.pc # "pop"

\* In any state: works queued after stop() wait for the next start().
queue_nb(w) ==
    /\ ctl = "idle"
    /\ InputQueueUnlocked
    /\ loc[w] = "client" /\ \A v \in In("client") : w <= v
    /\ mQueue' = Append(mQueue, w)
    /\ loc' = [loc EXCEPT ![w] = "queue"]
    /\ UNCHANGED <<clientVars, thread, worker, enc, sync, csdSent, crashed, calls>>

\* Init() of the encoder.
Open == enc' = [enc EXCEPT !.mCodecHandle = TRUE]

\* ThreadWorker::start(); stop() has left no thread and no request to exit.
ThreadStart(created) ==
    /\ thread' = [mRunning |-> created, mExitRequested |-> FALSE]
    /\ worker' = IF created THEN At("loop") ELSE NoThread

\* Loading the encoder may fail, and changes nothing then.  What
\* ThreadWorker::start() returns is ignored.
start(created) ==
    /\ ctl = "idle"
    /\ mComponentState = "UNINITIALIZED"
    /\ May("start")
    /\ created \/ May("threadError")
    /\ calls' = [c \in Call |-> IF c = "start" \/ (c = "threadError" /\ ~created)
                                THEN calls[c] + 1 ELSE calls[c]]
    /\ Open
    /\ ThreadStart(created)
    /\ mComponentState' = "STARTED"
    /\ UNCHANGED <<queueVars, ctl, flushing, sync, csdSent, crashed>>

\* flush_sm(), without the lock: the first work is moved out...
FlushFront ==
    /\ mQueue # <<>>
    /\ \/ ctl = "idle" /\ Fail("flush")
       \/ ctl = "flushing" /\ UNCHANGED calls
    /\ ctl' = "flushPop"
    /\ flushing' = Head(mQueue)
    /\ mQueue' = <<0>> \o Tail(mQueue)
    /\ loc' = [w \in Works |-> IF w = Head(mQueue) THEN "flushing" ELSE loc[w]]
    /\ UNCHANGED <<mComponentState, thread, worker, enc, sync, csdSent, crashed>>

\* pop_front() of mQueue: of the entry that is first now, whichever it is; of an
\* empty list it is undefined behaviour.
PopFront(done, place) ==
    /\ mQueue' = IF mQueue = <<>> THEN <<>> ELSE Tail(mQueue)
    /\ crashed' = (mQueue = <<>>)
    /\ loc' = [w \in Works |-> IF w = done THEN place
                               ELSE IF mQueue # <<>> /\ w = Head(mQueue) THEN "overrun"
                               ELSE loc[w]]

\* ... and its entry removed.
FlushPop ==
    /\ ctl = "flushPop"
    /\ PopFront(flushing, "flushed")
    /\ flushing' = 0
    /\ ctl' = "flushing"
    /\ UNCHANGED <<mComponentState, thread, worker, enc, sync, csdSent, calls>>

FlushReturn ==
    /\ ctl = "flushing"
    /\ mQueue = <<>>
    /\ ctl' = "idle"
    /\ UNCHANGED <<queueVars, mComponentState, flushing, thread, worker, enc, sync,
                   csdSent, crashed, calls>>

\* config_vb() of the interface, in any state and beside any call.
Request ==
    /\ Fail("request")
    /\ sync' = [value |-> TRUE, seen |-> FALSE, wanted |-> TRUE]
    /\ UNCHANGED <<queueVars, clientVars, thread, worker, enc, csdSent, crashed>>
-----------------------------------------------------------------------------
(* stop(), which reset() and release() call.  In UNINITIALIZED it closes the *)
(* encoder, which is closed.                                                *)

RequestExit == thread' = [thread EXCEPT !.mExitRequested = TRUE]

\* Close(), after which reset() also gives up the output block.
Close(keepsBlock) ==
    enc' = [enc EXCEPT !.mCodecHandle = FALSE, !.mOutBlock = @ /\ keepsBlock]

\* Without a worker there is nothing to wait for.
stop(keepsBlock) ==
    /\ ctl = "idle"
    /\ mComponentState # "UNINITIALIZED"
    /\ InputQueueUnlocked
    /\ Fail("stop")
    /\ mQueue' = <<>>
    /\ loc' = [w \in Works |-> IF loc[w] = "queue" THEN "cleared" ELSE loc[w]]
    /\ IF thread.mRunning
       THEN /\ RequestExit
            /\ mComponentState' = "STOPPING"
            /\ ctl' = "waiting"
            /\ UNCHANGED enc
       ELSE /\ mComponentState' = "UNINITIALIZED"
            /\ Close(keepsBlock)
            /\ UNCHANGED <<thread, ctl>>
    /\ UNCHANGED <<flushing, worker, sync, csdSent, crashed>>

\* The wait ends with the worker's signal, after which the worker is gone, or after
\* 500 ms; either way with mProcessDoneLock taken again.
StopSignalled ==
    /\ ctl = "waiting"
    /\ worker.pc = "exited"
    /\ ctl' = "joining"
    /\ UNCHANGED <<queueVars, mComponentState, flushing, thread, worker, enc, sync,
                   csdSent, crashed, calls>>

StopTimeout ==
    /\ ctl = "waiting"
    /\ worker.pc # "exited"
    /\ Fail("timeout")
    /\ ctl' = "joining"
    /\ UNCHANGED <<queueVars, mComponentState, flushing, thread, worker, enc, sync,
                   csdSent, crashed>>

Join_NotWaited(keepsBlock) ==
    /\ ctl = "joining"
    /\ thread' = [mRunning |-> FALSE, mExitRequested |-> TRUE]
    /\ mComponentState' = "UNINITIALIZED"
    /\ Close(keepsBlock)
    /\ ctl' = "idle"
    /\ UNCHANGED <<queueVars, flushing, worker, sync, csdSent, crashed, calls>>

\* ThreadWorker::stop() waits for the end of the thread; then stop() ends.
Join(keepsBlock) ==
    /\ ctl = "joining"
    /\ worker.pc = "exited"
    /\ thread' = [mRunning |-> FALSE, mExitRequested |-> FALSE]
    /\ worker' = NoThread
    /\ mComponentState' = "UNINITIALIZED"
    /\ Close(keepsBlock)
    /\ ctl' = "idle"
    /\ UNCHANGED <<queueVars, flushing, sync, csdSent, crashed, calls>>
-----------------------------------------------------------------------------
(* The worker: threadLoop() around ProcessData().                           *)

LoopCheck ==
    /\ worker.pc = "loop"
    /\ worker' = At(IF thread.mExitRequested THEN "signal" ELSE "take")
    /\ UNCHANGED <<queueVars, clientVars, thread, enc, sync, csdSent, crashed, calls>>

\* The end of threadLoop() takes mProcessDoneLock, which stop() holds when its wait
\* is over.
Signal ==
    /\ worker.pc = "signal"
    /\ ctl # "joining"
    /\ worker' = At("exited")
    /\ UNCHANGED <<queueVars, clientVars, thread, enc, sync, csdSent, crashed, calls>>

\* The first work is moved out, under the lock...
Take ==
    /\ worker.pc = "take"
    /\ IF mQueue = <<>>
       THEN worker' = At("loop") /\ UNCHANGED queueVars
       ELSE /\ worker' = [At("pop") EXCEPT !.work = Head(mQueue)]
            /\ mQueue' = <<0>> \o Tail(mQueue)
            /\ loc' = [w \in Works |-> IF w = Head(mQueue) THEN "worker" ELSE loc[w]]
    /\ UNCHANGED <<clientVars, thread, enc, sync, csdSent, crashed, calls>>

Pop_NullNotChecked ==
    /\ worker.pc = "pop"
    /\ PopFront(0, "worker")
    /\ worker' = [worker EXCEPT !.pc = "configure"]
    /\ UNCHANGED <<clientVars, thread, enc, sync, csdSent, calls>>

\* ... its entry removed, and the lock given back.  There is no work if a flush had
\* moved it out.
Pop ==
    /\ worker.pc = "pop"
    /\ PopFront(0, "worker")
    /\ worker' = IF worker.work = 0 THEN At("loop") ELSE [worker EXCEPT !.pc = "configure"]
    /\ UNCHANGED <<clientVars, thread, enc, sync, csdSent, calls>>

\* The configUpdate of the work is applied to the interface.
Configure ==
    /\ worker.pc = "configure"
    /\ sync' = IF worker.work \in SyncWorks
               THEN [value |-> TRUE, seen |-> FALSE, wanted |-> TRUE] ELSE sync
    /\ worker' = [worker EXCEPT !.pc = "input"]
    /\ UNCHANGED <<queueVars, clientVars, thread, enc, csdSent, crashed, calls>>

\* ProcessData() ends; the work is reported or, as the unique_ptr goes out of scope,
\* destroyed.
Leave(place) ==
    /\ loc' = [loc EXCEPT ![worker.work] = place]
    /\ worker' = At("loop")

EmptyInput_Unreported ==
    /\ worker.pc = "input"
    /\ worker.work \in EmptyWorks
    /\ Leave("dropped")
    /\ UNCHANGED <<mQueue, clientVars, thread, enc, sync, csdSent, crashed, calls>>

EmptyInput ==
    /\ worker.pc = "input"
    /\ worker.work \in EmptyWorks
    /\ Leave("empty")
    /\ UNCHANGED <<mQueue, clientVars, thread, enc, sync, csdSent, crashed, calls>>

\* A buffer that cannot be processed is reported; one that cannot be mapped, or has
\* no known type, is not.
InputError(place) ==
    /\ worker.pc = "input"
    /\ worker.work \notin EmptyWorks
    /\ Fail("inputError")
    /\ Leave(place)
    /\ UNCHANGED <<mQueue, clientVars, thread, enc, sync, csdSent, crashed>>

\* Without a block pool the client is told of an error, and the pool used all the same.
PoolError ==
    /\ worker.pc = "input"
    /\ worker.work \notin EmptyWorks
    /\ ~enc.mOutputBlockPool
    /\ Fail("poolError")
    /\ crashed' = TRUE
    /\ UNCHANGED <<queueVars, clientVars, thread, worker, enc, sync, csdSent>>

WithBlock == [enc EXCEPT !.mOutputBlockPool = TRUE, !.mOutBlock = TRUE]

\* No output block can be fetched, if there is none, or the block not mapped.
OutputError(fetched) ==
    /\ worker.pc = "input"
    /\ worker.work \notin EmptyWorks
    /\ fetched \/ ~enc.mOutBlock
    /\ Fail("outputError")
    /\ enc' = [WithBlock EXCEPT !.mOutBlock = fetched]
    /\ Leave("empty")
    /\ UNCHANGED <<mQueue, clientVars, thread, sync, csdSent, crashed>>

HeaderError_FlagSetFirst ==
    /\ worker.pc = "input"
    /\ worker.work \notin EmptyWorks
    /\ ~enc.mSpsPpsHeaderReceived
    /\ Fail("headerError")
    /\ enc' = [WithBlock EXCEPT !.mSpsPpsHeaderReceived = TRUE]
    /\ Leave("empty")
    /\ UNCHANGED <<mQueue, clientVars, thread, sync, csdSent, crashed>>

HeaderError ==
    /\ worker.pc = "input"
    /\ worker.work \notin EmptyWorks
    /\ ~enc.mSpsPpsHeaderReceived
    /\ Fail("headerError")
    /\ enc' = WithBlock
    /\ Leave("empty")
    /\ UNCHANGED <<mQueue, clientVars, thread, sync, csdSent, crashed>>

\* The header is generated, and the codec config that should carry it not allocated.
CsdError ==
    /\ worker.pc = "input"
    /\ worker.work \notin EmptyWorks
    /\ ~enc.mSpsPpsHeaderReceived
    /\ Fail("csdError")
    /\ enc' = [WithBlock EXCEPT !.mSpsPpsHeaderReceived = TRUE]
    /\ Leave("empty")
    /\ UNCHANGED <<mQueue, clientVars, thread, sync, csdSent, crashed>>

\* The first work takes the header of the stream along.
Prepare ==
    /\ worker.pc = "input"
    /\ worker.work \notin EmptyWorks
    /\ enc' = [WithBlock EXCEPT !.mSpsPpsHeaderReceived = TRUE]
    /\ worker' = [worker EXCEPT !.pc = "read", !.csd = ~enc.mSpsPpsHeaderReceived]
    /\ UNCHANGED <<queueVars, clientVars, thread, sync, csdSent, crashed, calls>>

\* ProcessOneFrame(), under the lock of the interface: the request is compared, as an
\* object, with the one seen last.
ReadRequest ==
    /\ worker.pc = "read"
    /\ worker' = [worker EXCEPT !.pc = IF ~sync.seen /\ sync.value THEN "clear" ELSE "encode"]
    /\ sync' = [sync EXCEPT !.seen = TRUE]
    /\ UNCHANGED <<queueVars, clientVars, thread, enc, csdSent, crashed, calls>>

\* Without that lock, a new one is unset, which makes another object of it.
ClearRequest ==
    /\ worker.pc = "clear"
    /\ worker' = [worker EXCEPT !.pc = "encode", !.idr = TRUE]
    /\ sync' = [sync EXCEPT !.value = FALSE, !.seen = FALSE]
    /\ UNCHANGED <<queueVars, clientVars, thread, enc, csdSent, crashed, calls>>

\* The work is reported with the output block, and with what it carries.
finishWork ==
    /\ Leave("done")
    /\ enc' = [enc EXCEPT !.mOutBlock = FALSE]
    /\ csdSent' = (csdSent \/ worker.csd)

Encode_ClearsRequest ==
    /\ worker.pc = "encode"
    /\ finishWork
    /\ sync' = [sync EXCEPT !.value = FALSE, !.wanted = @ /\ ~worker.idr]
    /\ UNCHANGED <<mQueue, clientVars, thread, crashed, calls>>

\* The frame is encoded, as an IDR frame if the request says so.
Encode ==
    /\ worker.pc = "encode"
    /\ finishWork
    /\ sync' = [sync EXCEPT !.wanted = @ /\ ~worker.idr]
    /\ UNCHANGED <<mQueue, clientVars, thread, crashed, calls>>

\* The work is not reported, and takes the codec config along.
EncodeError ==
    /\ worker.pc = "encode"
    /\ Fail("encodeError")
    /\ Leave("dropped")
    /\ UNCHANGED <<mQueue, clientVars, thread, enc, sync, csdSent, crashed>>
-----------------------------------------------------------------------------
Worker ==
    \/ LoopCheck \/ Signal \/ Take \/ Pop \/ Configure
    \/ EmptyInput \/ PoolError \/ HeaderError \/ CsdError \/ Prepare
    \/ \E place \in {"empty", "dropped"} : InputError(place)
    \/ \E fetched \in BOOLEAN : OutputError(fetched)
    \/ ReadRequest \/ ClearRequest \/ Encode \/ EncodeError

InsideCall ==
    \/ FlushFront /\ ctl = "flushing"
    \/ FlushPop \/ FlushReturn
    \/ StopSignalled
    \/ \E keepsBlock \in BOOLEAN : Join(keepsBlock)

Client ==
    \/ \E w \in Works : queue_nb(w)
    \/ \E created \in BOOLEAN : start(created)
    \/ \E keepsBlock \in BOOLEAN : stop(keepsBlock)
    \/ FlushFront /\ ctl = "idle"
    \/ Request
    \/ StopTimeout
    \/ InsideCall

Next == ~crashed /\ (Client \/ Worker)

Spec == Init /\ [][Next]_vars

\* The worker is a thread of its own, and a call goes on when it can.
FairSpec == Spec /\ WF_vars(~crashed /\ Worker) /\ WF_vars(~crashed /\ InsideCall)
-----------------------------------------------------------------------------
(* Properties.                                                              *)

Entry     == 0..NumWorks
ThreadSet == [mRunning : BOOLEAN, mExitRequested : BOOLEAN]
WorkerSet == [pc : Pc, work : Entry, idr : BOOLEAN, csd : BOOLEAN]
EncSet    == [mCodecHandle : BOOLEAN, mSpsPpsHeaderReceived : BOOLEAN,
              mOutBlock : BOOLEAN, mOutputBlockPool : BOOLEAN]
SyncSet   == [value : BOOLEAN, seen : BOOLEAN, wanted : BOOLEAN]

\* The worker has a work from when its entry is removed until it leaves.
HasWork == worker.pc \in Encoding \cup {"configure"} => worker.work \in Works

\* Values of the variables, and HasWork.
TypeOK ==
    /\ mComponentState \in {"UNINITIALIZED", "STARTED", "STOPPING"}
    /\ ctl \in {"idle", "flushing", "flushPop", "waiting", "joining"}
    /\ loc \in [Works -> Loc]
    /\ mQueue \in Seq(Entry)
    /\ flushing \in Entry
    /\ thread \in ThreadSet
    /\ worker \in WorkerSet
    /\ HasWork
    /\ enc \in EncSet
    /\ sync \in SyncSet
    /\ csdSent \in BOOLEAN
    /\ crashed \in BOOLEAN
    /\ calls \in [Call -> Nat]

\* The worker never encodes with a handle that Close() has destroyed: stop() joins it
\* first, even if it did not signal in time.
EncoderOpenWhileUsed == worker.pc \in Encoding => enc.mCodecHandle

\* A request of a sync frame is not lost: until an IDR frame is encoded after it, it is
\* in the interface and unseen, or in the hands of the worker, whenever it was made
\* between the steps of ProcessOneFrame().  Only a frame that fails takes it along.
SyncRequestHonoured ==
    sync.wanted /\ calls["encodeError"] = 0 =>
        \/ sync.value /\ ~sync.seen
        \/ worker.pc = "clear"
        \/ worker.pc = "encode" /\ worker.idr

\* The client has the codec config with the first frame, although the header of the
\* first work may have failed, unless the work that carried it was lost.
CsdComesFirst ==
    In("done") # {} => csdSent \/ calls["encodeError"] > 0 \/ calls["csdError"] > 0

Reported == In("done") \cup In("empty")

\* After stop() has returned the listener hears of no work until the next start().
NothingReportedWhenStopped ==
    [][mComponentState = "UNINITIALIZED" => Reported' = Reported]_vars

\* flush_sm() and stop() return, unless the wait of stop() ends before the signal.
CallsReturn == ctl # "idle" ~> ctl = "idle" \/ crashed \/ calls["timeout"] > 0

\* A work that a running component has comes back to the client or is cleared by
\* stop(); one that is lost was lost to a failure or to a flush beside the worker.
WorksComeBack ==
    \A w \in Works :
        loc[w] = "queue" /\ mComponentState = "STARTED" /\ thread.mRunning
            ~> \/ loc[w] \in {"done", "empty", "flushed", "cleared"}
               \/ loc[w] = "dropped" /\ calls["encodeError"] + calls["inputError"] > 0
               \/ loc[w] = "overrun" /\ calls["flush"] > 0
               \/ crashed

\* Calls return and no work stays behind.
Progress == CallsReturn /\ WorksComeBack
=============================================================================
