-------------------------- MODULE C2VdecComponent --------------------------
(***************************************************************************)
(* The hardware video decoder component, non-tunnel mode: what its client  *)
(* may call (queue_nb, drain_nb, flush_sm, start, stop, release), the      *)
(* handlers that run one after the other on mThread, and the callbacks of  *)
(* the decoder below it.  The client has three threads: one queues and     *)
(* drains, one flushes, one starts and stops.  All of them and the decoder *)
(* reach the component by appending to the task queue of mThread.          *)
(*                                                                         *)
(* Works are numbers in the order they are queued, which is also the order *)
(* of their bitstream ids.  A C2Work is owned by one unique_ptr, so one    *)
(* function, loc, says which container or party holds each work.  Output   *)
(* blocks, formats and the dequeue thread are left to other modules.       *)
(*                                                                         *)
(* An operator with a suffix, as KeptForEos_Always, is the operator named  *)
(* before the suffix with a plausible bug in it: the properties are tested *)
(* by putting it in the place of the correct one.                          *)
(***************************************************************************)
EXTENDS Integers, Sequences

CONSTANTS
    NumWorks,        \* works the client may queue over the component's life
    EosWorks,        \* works with FLAG_END_OF_STREAM
    CsdWorks,        \* works with FLAG_CODEC_CONFIG
    NoBufferWorks,   \* works without input buffer
    HalOutcomes,     \* what the decoder may make of a frame
    PictureBeforeInput, \* TRUE: a picture may come before its input is given back
    StartOutcomes,   \* what onStart() may meet
    SerialClient,    \* TRUE: one call at a time, and nothing queued after EOS
    MaxErrorFrames,  \* mSkipErrFrameTimeOut * fps: error frames in a row
    MaxCalls         \* bound on each kind of call, error or early timeout

Works == 1..NumWorks
Outcome == {"picture", "twoPictures", "errorFrame", "noOutFrame", "nothing"}
StartOutcome == {"success", "initFailed", "noProfile"}
Call == {"start", "flush", "drain", "halError", "earlyTimeout"}

ASSUME WorksAssumption ==
    /\ NumWorks \in Nat
    /\ EosWorks \subseteq Works
    /\ CsdWorks \subseteq Works
    /\ NoBufferWorks \subseteq Works
ASSUME HalAssumption ==
    /\ HalOutcomes \subseteq Outcome
    /\ PictureBeforeInput \in BOOLEAN
    /\ MaxErrorFrames \in Nat
ASSUME CallAssumption ==
    /\ StartOutcomes \subseteq StartOutcome
    /\ SerialClient \in BOOLEAN
    /\ MaxCalls \in [Call -> Nat]

VARIABLES
    mState,          \* what the client's calls look at
    mComponentState, \* what the handlers look at
    mCompHasError,
    tasks,           \* the task queue of mThread
    step,            \* where mThread is in a handler of several steps
    loc,             \* who holds each work
    mDrainMode,      \* drain mode of each work in mQueue
    inputHeld,       \* works whose input buffer is not given back
    ready,           \* works with an output buffer, or flagged FLAG_DROP_FRAME
    out,             \* what mThread knows of the output
    mHasQueuedWork,
    hal,             \* the decoder behind VideoDecWraper (external)
    ctl,             \* the client thread inside start(), stop() or release()
    flusher,         \* the client thread inside flush_sm()
    clientEos,       \* whether the client has told, and been given, EOS
    timedOut,        \* some flush_sm() has timed out
    calls            \* calls made, errors and early timeouts, for MaxCalls

thread == <<tasks, step>>
status == <<mState, mComponentState, mCompHasError>>
work   == <<loc, mDrainMode, inputHeld, ready>>
client == <<ctl, flusher, clientEos, timedOut, calls>>
vars   == <<status, thread, work, out, mHasQueuedWork, hal, client>>

State == {"LOADED", "RUNNING", "ERROR"}
ComponentState == {"UNINITIALIZED", "STARTING", "STARTED", "DRAINING",
                   "FLUSHING", "STOPPING", "DESTROYED"}

\* Where a work ends: reported with C2_OK, with the EOS flag, as C2_NOT_FOUND,
\* through flush_sm()'s list, or destroyed without a word to the client.
Reported == {"done", "eos", "notFound"}
Returned == Reported \cup {"flushed"}
Held     == {"posted", "queue", "pending", "abandoned", "flushList"}
Loc      == {"client"} \cup Held \cup Returned \cup {"destroyed"}

In(place) == {w \in Works : loc[w] = place}
First(S, w) == w \in S /\ \A v \in S : w <= v
Last(S, w)  == w \in S /\ \A v \in S : v <= w
Moved(S, place) == [w \in Works |-> IF w \in S THEN place ELSE loc[w]]

IdleHal == [in |-> {}, owes |-> [w \in Works |-> "nothing"],
            eos |-> FALSE, resets |-> 0]

May(c)   == calls[c] < MaxCalls[c]
Count(c) == calls' = [calls EXCEPT ![c] = @ + 1]
-----------------------------------------------------------------------------
Init ==
    /\ mState = "LOADED"
    /\ mComponentState = "UNINITIALIZED"
    /\ mCompHasError = FALSE
    /\ tasks = <<>>
    /\ step = "idle"
    /\ loc = [w \in Works |-> "client"]
    /\ mDrainMode = [w \in Works |-> "none"]
    /\ inputHeld = {}
    /\ ready = {}
    /\ out = [buffers |-> <<>>, eos |-> FALSE, last |-> 0, sent |-> {},
              cloneable |-> FALSE, clones |-> 0, errorFrames |-> 0, noOut |-> <<>>]
    /\ mHasQueuedWork = FALSE
    /\ hal = IdleHal
    /\ ctl = "idle"
    /\ flusher = "idle"
    /\ clientEos = "none"
    /\ timedOut = FALSE
    /\ calls = [c \in Call |-> 0]
-----------------------------------------------------------------------------
(* The client's calls.                                                      *)

\* updateComponentState(s): a new state, and no error.
SetState(s) == mComponentState' = s /\ mCompHasError' = FALSE

Task(op) == [op |-> op, w |-> 0]
TaskFor(op, w) == [op |-> op, w |-> w]
Post(t) == tasks' = Append(tasks, t)

\* A client that makes one call at a time and sends nothing after EOS before it
\* flushes or stops; the others interleave as they like.
MayQueue   == SerialClient => ctl = "idle" /\ flusher = "idle" /\ clientEos = "none"
MayControl == SerialClient => ctl = "idle" /\ flusher = "idle"

queue_nb(w) ==
    /\ MayQueue
    /\ mState = "RUNNING"
    /\ First(In("client"), w)
    /\ mHasQueuedWork' = TRUE
    /\ loc' = [loc EXCEPT ![w] = "posted"]
    /\ clientEos' = IF w \in EosWorks THEN "told"
                    ELSE IF clientEos = "given" THEN "none" ELSE clientEos
    /\ Post(TaskFor("onQueueWork", w))
    /\ UNCHANGED <<status, step, mDrainMode, inputHeld, ready, out, hal,
                   ctl, flusher, timedOut, calls>>

drain_nb(mode) ==
    /\ MayQueue
    /\ mState = "RUNNING"
    /\ May("drain") /\ Count("drain")
    /\ clientEos' = IF mode = "withEos" THEN "told" ELSE clientEos
    /\ Post(Task(IF mode = "withEos" THEN "onDrainWithEos" ELSE "onDrainNoEos"))
    /\ UNCHANGED <<status, step, work, out, mHasQueuedWork, hal,
                   ctl, flusher, timedOut>>

\* flush_sm() posts onFlush, and only then takes mFlushDoneLock and waits: a
\* signal given in between is lost.  With no queued work it does nothing.
flush_sm ==
    /\ MayControl
    /\ flusher = "idle"
    /\ mState = "RUNNING"
    /\ mHasQueuedWork
    /\ May("flush") /\ Count("flush")
    /\ flusher' = "posted"
    /\ clientEos' = "none"
    /\ Post(Task("onFlush"))
    /\ UNCHANGED <<status, step, work, out, mHasQueuedWork, hal, ctl, timedOut>>

FlushWait ==
    /\ flusher = "posted"
    /\ flusher' = "waiting"
    /\ UNCHANGED <<status, thread, work, out, mHasQueuedWork, hal,
                   ctl, clientEos, timedOut, calls>>

\* No handler is left that could signal mFlushDoneCond.
Posted(op) == \E i \in 1..Len(tasks) : tasks[i].op = op
NoSignalComing ==
    /\ ~Posted("onFlush")
    /\ mComponentState = "FLUSHING" =>
           mCompHasError \/ (hal.resets = 0 /\ ~Posted("onFlushOrStopDone"))

\* The 500 ms are over: flush_sm() itself declares the component STARTED.
FlushTimeout ==
    /\ flusher = "waiting"
    /\ \/ NoSignalComing /\ UNCHANGED calls
       \/ May("earlyTimeout") /\ Count("earlyTimeout")
    /\ flusher' = "idle"
    /\ timedOut' = TRUE
    /\ SetState("STARTED")
    /\ UNCHANGED <<mState, thread, work, out, mHasQueuedWork, hal, ctl, clientEos>>

\* Signalled: the works are handed to the client and dequeueing starts again.
FlushReturn ==
    /\ flusher = "signalled"
    /\ flusher' = "idle"
    /\ loc' = Moved(In("flushList"), "flushed")
    /\ Post(Task("onDequeueWork"))
    /\ UNCHANGED <<status, step, mDrainMode, inputHeld, ready, out, mHasQueuedWork,
                   hal, ctl, clientEos, timedOut, calls>>

start ==
    /\ MayControl
    /\ ctl = "idle"
    /\ mState = "LOADED"
    /\ May("start") /\ Count("start")
    /\ ctl' = "starting"
    /\ Post(Task("onStart"))
    /\ UNCHANGED <<status, step, work, out, mHasQueuedWork, hal,
                   flusher, clientEos, timedOut>>

\* start() stores RUNNING without a look at what happened since onStart.
StartReturn ==
    /\ ctl \in {"started", "startFailed"}
    /\ mState' = IF ctl = "started" THEN "RUNNING" ELSE mState
    /\ ctl' = "idle"
    /\ UNCHANGED <<mComponentState, mCompHasError, thread, work, out, mHasQueuedWork,
                   hal, flusher, clientEos, timedOut, calls>>

\* stop(), and the part of reset() and release() that stops; in LOADED they return.
\* (A stop() that mVdecComponentStopDone refuses does nothing; reset() clears it.)
stop ==
    /\ MayControl
    /\ ctl = "idle"
    /\ mState \in {"RUNNING", "ERROR"}
    /\ ctl' = "stopping"
    /\ clientEos' = "none"
    /\ Post(Task("onStop"))
    /\ UNCHANGED <<status, step, work, out, mHasQueuedWork, hal,
                   flusher, timedOut, calls>>

StopReturn ==
    /\ ctl = "stopped"
    /\ mState' = "LOADED"
    /\ ctl' = "idle"
    /\ UNCHANGED <<mComponentState, mCompHasError, thread, work, out, mHasQueuedWork,
                   hal, flusher, clientEos, timedOut, calls>>

\* The rest of release(): onDestroy, then the thread is stopped.
release ==
    /\ MayControl
    /\ ctl = "idle"
    /\ mState = "LOADED"
    /\ ctl' = "releasing"
    /\ Post(Task("onDestroy"))
    /\ UNCHANGED <<status, step, work, out, mHasQueuedWork, hal,
                   flusher, clientEos, timedOut, calls>>
-----------------------------------------------------------------------------
(* The handlers on mThread.                                                 *)

\* RETURN_ON_UNINITIALIZED_OR_ERROR
Alive == ~mCompHasError /\ mComponentState \notin {"UNINITIALIZED", "DESTROYED"}
Guarded == {"onQueueWork", "onDequeueWork", "onDrainWithEos", "onDrainNoEos",
            "onInputBufferDone", "onOutputBufferDone", "onDrainDone"}

Take(op) ==
    /\ step = "idle"
    /\ ctl # "released"
    /\ tasks # <<>>
    /\ Head(tasks).op = op
Run(op) == Take(op) /\ (op \in Guarded => Alive)
Follow(posted) == tasks' = Tail(tasks) \o posted

reportError ==
    IF mComponentState \in {"UNINITIALIZED", "DESTROYED"}
    THEN UNCHANGED status
    ELSE /\ mState' = "ERROR"
         /\ mCompHasError' = TRUE
         /\ UNCHANGED mComponentState

\* A guarded handler that finds the component dead; a work posted with it is lost.
Skip ==
    /\ \E op \in Guarded : Take(op)
    /\ ~Alive
    /\ loc' = IF Head(tasks).op = "onQueueWork"
              THEN [loc EXCEPT ![Head(tasks).w] = "destroyed"] ELSE loc
    /\ Follow(<<>>)
    /\ UNCHANGED <<status, step, mDrainMode, inputHeld, ready, out, mHasQueuedWork,
                   hal, client>>

\* A new VideoDecWraper replaces the old one, whatever that was doing.  Without
\* a supported profile the handler returns before it signals start().
onStart(outcome) ==
    /\ Run("onStart")
    /\ SetState(IF outcome = "success" THEN "STARTED" ELSE "STARTING")
    /\ ctl' = CASE outcome = "success"    -> "started"
                [] outcome = "initFailed" -> "startFailed"
                [] outcome = "noProfile"  -> ctl
    /\ hal' = IdleHal
    /\ Follow(<<>>)
    /\ UNCHANGED <<mState, step, work, out, mHasQueuedWork, flusher, clientEos, timedOut, calls>>

onQueueWork ==
    /\ Run("onQueueWork")
    /\ LET w == Head(tasks).w IN
        /\ loc' = [loc EXCEPT ![w] = "queue"]
        /\ mDrainMode' = [mDrainMode EXCEPT ![w] = IF w \in EosWorks THEN "withEos" ELSE "none"]
    /\ Follow(<<Task("onDequeueWork")>>)
    /\ UNCHANGED <<status, step, inputHeld, ready, out, mHasQueuedWork, hal, client>>

KeptForEos_Always(w) == out.eos

\* mPendingOutputEOS keeps the last pending work for reportEOSWork().
KeptForEos(w) == out.eos /\ In("pending") = {w}

\* reportWorkIfFinished(), when the input of w is back and it needs no more output.
reportWorkIfFinished(w) ==
    loc' = IF KeptForEos(w) THEN loc ELSE [loc EXCEPT ![w] = "done"]

\* The outcomes a decoder may choose for the frame it is given.
OutcomesOf(w) == IF w \in CsdWorks THEN {"nothing"} ELSE HalOutcomes

\* One work goes from mQueue to the decoder and to mPendingWorks; an empty one
\* is reported at once.  eosFlush() of a drain follows its input.
Dequeue(w, outcome) ==
    LET hasBuffer == w \notin NoBufferWorks
        drains    == mDrainMode[w] # "none"
        eos       == IF drains THEN mDrainMode[w] = "withEos" ELSE out.eos
        emptyWork == ~hasBuffer /\ w \notin EosWorks \cup CsdWorks
        emptyCsd  == ~hasBuffer /\ w \in CsdWorks
        reported  == emptyWork \/ (emptyCsd /\ ~(eos /\ In("pending") = {}))
    IN  /\ loc' = [loc EXCEPT ![w] = IF reported THEN "done" ELSE "pending"]
        /\ inputHeld' = IF hasBuffer THEN inputHeld \cup {w} ELSE inputHeld
        /\ hal' = [hal EXCEPT !.in = IF hasBuffer THEN @ \cup {w} ELSE @,
                              !.owes[w] = IF hasBuffer THEN outcome ELSE @,
                              !.eos = @ \/ drains]
        /\ out' = [out EXCEPT !.eos = eos]
        /\ mComponentState' = IF drains THEN "DRAINING" ELSE mComponentState
        /\ Follow(IF In("queue") = {w} THEN <<>> ELSE <<Task("onDequeueWork")>>)

onDequeueWork ==
    /\ Run("onDequeueWork")
    /\ IF mComponentState = "STARTED" /\ In("queue") # {}
       THEN \E w \in In("queue") :
                /\ First(In("queue"), w)
                /\ \E outcome \in OutcomesOf(w) : Dequeue(w, outcome)
       ELSE /\ Follow(<<>>)
            /\ UNCHANGED <<loc, inputHeld, hal, out, mComponentState>>
    /\ UNCHANGED <<mState, mCompHasError, step, mDrainMode, ready, mHasQueuedWork, client>>

onInputBufferDone ==
    /\ Run("onInputBufferDone")
    /\ LET w == Head(tasks).w
           needsNoOutput == w \in CsdWorks \cup ready
       IN IF loc[w] # "pending"
          THEN /\ reportError
               /\ Follow(<<>>)
               /\ UNCHANGED <<loc, inputHeld>>
          ELSE /\ inputHeld' = inputHeld \ {w}
               /\ IF needsNoOutput THEN reportWorkIfFinished(w) ELSE UNCHANGED loc
               /\ Follow(IF ~needsNoOutput /\ out.buffers # <<>>
                         THEN <<Task("sendOutputBufferToWorkIfAnyTask")>> ELSE <<>>)
               /\ UNCHANGED status
    /\ UNCHANGED <<step, mDrainMode, ready, out, mHasQueuedWork, hal, client>>

\* A picture of a work neither pending nor known to have had one is not wanted.
onOutputBufferDone ==
    /\ Run("onOutputBufferDone")
    /\ LET w == Head(tasks).w
           wanted == out.last = w \/ loc[w] = "pending" \/ w \in out.sent
       IN IF mComponentState = "FLUSHING"
          THEN out' = [out EXCEPT !.last = w] /\ UNCHANGED step
          ELSE IF ~wanted
          THEN UNCHANGED <<out, step>>
          ELSE /\ out' = [out EXCEPT !.sent = @ \cup {w}, !.last = w, !.errorFrames = 0,
                                     !.buffers = Append(@, w)]
               /\ step' = "sending"
    /\ Follow(<<>>)
    /\ UNCHANGED <<status, work, mHasQueuedWork, hal, client>>

sendOutputBufferToWorkIfAnyTask ==
    /\ Run("sendOutputBufferToWorkIfAnyTask")
    /\ step' = "sending"
    /\ Follow(<<>>)
    /\ UNCHANGED <<status, work, out, mHasQueuedWork, hal, client>>

FrontWaits_NotForInput ==
    LET w == Head(out.buffers) IN loc[w] = "pending" /\ KeptForEos(w)

\* The first pending buffer waits: for its work's input, or for the EOS report.
FrontWaits ==
    LET w == Head(out.buffers) IN
    /\ loc[w] = "pending"
    /\ w \in inputHeld \/ KeptForEos(w)

\* One round of the loop of sendOutputBufferToWorkIfAny().  A work that has left
\* mPendingWorks is answered by a clone of the last one that had a picture.
\* (mSetOutInfo only keeps a buffer from being attached twice; a clone whose buffer
\* the client already has is sent without it.)
sendOutputBufferToWorkIfAny ==
    /\ step \in {"sending", "draining"}
    /\ out.buffers # <<>>
    /\ LET w == Head(out.buffers)
           leave == step' = IF step = "draining" THEN "drained" ELSE "idle"
       IN IF FrontWaits
          THEN /\ leave
               /\ UNCHANGED loc
               /\ IF w \in inputHeld
                  THEN UNCHANGED <<out, ready>>
                  ELSE /\ out' = [out EXCEPT !.cloneable = TRUE]
                       /\ ready' = ready \cup {w}
          ELSE IF loc[w] = "pending"
          THEN /\ loc' = [loc EXCEPT ![w] = "done"]
               /\ ready' = ready \cup {w}
               /\ out' = [out EXCEPT !.buffers = Tail(@), !.cloneable = TRUE]
               /\ UNCHANGED step
          ELSE /\ IF out.cloneable
                  THEN /\ out' = [out EXCEPT !.buffers = Tail(@), !.clones = @ + 1]
                       /\ UNCHANGED step
                  ELSE /\ out' = [out EXCEPT !.buffers = Tail(@)]
                       /\ leave
               /\ UNCHANGED <<loc, ready>>
    /\ UNCHANGED <<status, tasks, mDrainMode, inputHeld, mHasQueuedWork, hal, client>>

NothingToSend ==
    /\ step \in {"sending", "draining"}
    /\ out.buffers = <<>>
    /\ step' = IF step = "draining" THEN "drained" ELSE "idle"
    /\ UNCHANGED <<status, tasks, work, out, mHasQueuedWork, hal, client>>

\* mQueue.back()
LastQueued(w) == Last(In("queue"), w)

\* DRAINING, entered by onDrain or by a work that carries its drain mode.
onDrain(mode) ==
    /\ Run(IF mode = "withEos" THEN "onDrainWithEos" ELSE "onDrainNoEos")
    /\ IF In("queue") # {}
       THEN /\ \E w \in In("queue") :
                  /\ LastQueued(w)
                  /\ mDrainMode' = [mDrainMode EXCEPT ![w] = IF @ = "none" THEN mode ELSE @]
            /\ UNCHANGED <<mComponentState, hal, out>>
       ELSE IF In("pending") # {} /\ mComponentState = "STARTED"
       THEN /\ hal' = [hal EXCEPT !.eos = TRUE]
            /\ mComponentState' = "DRAINING"
            /\ out' = [out EXCEPT !.eos = (mode = "withEos")]
            /\ UNCHANGED mDrainMode
       ELSE UNCHANGED <<mDrainMode, mComponentState, hal, out>>
    /\ Follow(<<>>)
    /\ UNCHANGED <<mState, mCompHasError, step, loc, inputHeld, ready, mHasQueuedWork, client>>

\* reportEOSWork(): the last pending work carries the EOS flag, and the others,
\* with which the decoder has not come to an end, are abandoned.
reportEOSWork ==
    IF In("pending") = {}
    THEN reportError /\ UNCHANGED <<loc, out, clientEos>>
    ELSE /\ \E w \in In("pending") :
              /\ Last(In("pending"), w)
              /\ loc' = [v \in Works |->
                            IF v = w THEN "eos"
                            ELSE IF loc[v] = "pending" THEN "notFound"
                            ELSE IF loc[v] = "abandoned" /\ In("pending") # {w} THEN "notFound"
                            ELSE loc[v]]
         /\ out' = [out EXCEPT !.eos = FALSE]
         /\ clientEos' = IF clientEos = "told" THEN "given" ELSE clientEos
         /\ UNCHANGED status

DrainMayEnd_NotFlushing == mComponentState = "DRAINING"

\* In FLUSHING, onFlush() came first and the reset is still to be answered.
DrainMayEnd == mComponentState \in {"DRAINING", "FLUSHING"}

\* The pending buffers are sent first, and then EOS is reported.
DrainEnds ==
    /\ mComponentState' = IF mComponentState = "DRAINING" THEN "STARTED" ELSE "FLUSHING"
    /\ step' = "draining"
    /\ UNCHANGED <<mState, mCompHasError, loc, out, clientEos>>

onDrainDone ==
    /\ Run("onDrainDone")
    /\ \/ DrainMayEnd /\ DrainEnds
       \/ /\ mComponentState = "STOPPING"
          /\ IF out.eos THEN reportEOSWork ELSE UNCHANGED <<status, loc, out, clientEos>>
          /\ UNCHANGED step
       \/ /\ ~DrainMayEnd /\ mComponentState # "STOPPING"
          /\ reportError
          /\ UNCHANGED <<step, loc, out, clientEos>>
    /\ Follow(<<>>)
    /\ UNCHANGED <<mDrainMode, inputHeld, ready, mHasQueuedWork, hal,
                   ctl, flusher, timedOut, calls>>

DrainDoneTail_ForgetsEos ==
    /\ step = "drained"
    /\ step' = "idle"
    /\ Post(Task("onDequeueWork"))
    /\ UNCHANGED <<status, loc, out, clientEos, mDrainMode, inputHeld, ready, mHasQueuedWork,
                   hal, ctl, flusher, timedOut, calls>>

\* The end of onDrainDone(), after the pending buffers: the EOS report, and
\* dequeueing again unless the report failed.
DrainDoneTail ==
    /\ step = "drained"
    /\ step' = "idle"
    /\ IF out.eos THEN reportEOSWork ELSE UNCHANGED <<status, loc, out, clientEos>>
    /\ IF out.eos /\ In("pending") = {} THEN UNCHANGED tasks ELSE Post(Task("onDequeueWork"))
    /\ UNCHANGED <<mDrainMode, inputHeld, ready, mHasQueuedWork, hal,
                   ctl, flusher, timedOut, calls>>

\* Not guarded: it runs, and clears the error, in every other state.
onFlush ==
    /\ Run("onFlush")
    /\ IF mComponentState \in {"FLUSHING", "STOPPING"}
       THEN UNCHANGED <<mComponentState, mCompHasError, out, hal>>
       ELSE /\ SetState("FLUSHING")
            /\ out' = [out EXCEPT !.last = 0]
            /\ hal' = [hal EXCEPT !.resets = @ + 1]
    /\ Follow(<<>>)
    /\ UNCHANGED <<mState, step, work, mHasQueuedWork, client>>

\* reportAbandonedWorks(): to the client, with C2_NOT_FOUND.
reportAbandonedWorks(S) == loc' = Moved(S, "notFound")

onStopDone_OnlyPending(abandoned) ==
    /\ reportAbandonedWorks(In("pending"))
    /\ out' = [out EXCEPT !.eos = FALSE, !.buffers = <<>>, !.noOut = <<>>, !.sent = {}]
    /\ mHasQueuedWork' = FALSE
    /\ SetState("UNINITIALIZED")
    /\ ctl' = "stopped"

\* onStopDone(): everything left is reported as abandoned, and stop() is signalled.
onStopDone(abandoned) ==
    /\ reportAbandonedWorks(abandoned)
    /\ out' = [out EXCEPT !.eos = FALSE, !.buffers = <<>>, !.noOut = <<>>, !.sent = {}]
    /\ mHasQueuedWork' = FALSE
    /\ SetState("UNINITIALIZED")
    /\ ctl' = "stopped"

\* Works of mQueue are abandoned.  STOPPING is set before FLUSHING is looked for,
\* so that a reset is requested even if onFlush() has one on its way.
onStop ==
    /\ Run("onStop")
    /\ IF mComponentState = "UNINITIALIZED"
       THEN UNCHANGED <<mComponentState, mCompHasError, loc, out, mHasQueuedWork, hal, ctl>>
       ELSE IF mCompHasError
       THEN onStopDone(In("queue") \cup In("pending") \cup In("abandoned")) /\ UNCHANGED hal
       ELSE /\ mComponentState' = "STOPPING"
            /\ loc' = Moved(In("queue"), "abandoned")
            /\ hal' = [hal EXCEPT !.resets = @ + 1]
            /\ UNCHANGED <<mCompHasError, out, mHasQueuedWork, ctl>>
    /\ Follow(<<>>)
    /\ UNCHANGED <<mState, step, mDrainMode, inputHeld, ready, flusher, clientEos, timedOut, calls>>

FlushedPlaces_NotPending == {"queue", "abandoned"}

\* What onFlushDone() empties into mFlushPendingWorkList.
FlushedPlaces == {"queue", "pending", "abandoned"}

onFlushDone_ClearsLast ==
    /\ loc' = Moved({w \in Works : loc[w] \in FlushedPlaces \cup {"flushList"}}, "destroyed")
    /\ out' = [out EXCEPT !.buffers = <<>>, !.sent = {}]
    /\ SetState("STARTED")
    /\ flusher' = IF flusher = "waiting" THEN "signalled" ELSE flusher

\* onFlushDone(): all works of the component become the new mFlushPendingWorkList,
\* of which the old content is destroyed, and flush_sm() is signalled.
onFlushDone ==
    /\ loc' = [w \in Works |->
                 IF loc[w] \in FlushedPlaces THEN "flushList"
                 ELSE IF loc[w] = "flushList" THEN "destroyed" ELSE loc[w]]
    /\ out' = [out EXCEPT !.buffers = <<>>, !.sent = {}]
    /\ SetState("STARTED")
    /\ flusher' = IF flusher = "waiting" THEN "signalled" ELSE flusher

onFlushOrStopDone ==
    /\ Run("onFlushOrStopDone")
    /\ \/ /\ mComponentState = "UNINITIALIZED"
          /\ UNCHANGED <<status, step, loc, out, mHasQueuedWork, ctl, flusher>>
       \/ /\ mComponentState = "FLUSHING"
          /\ step' = "resetInfo"
          /\ IF mCompHasError
             THEN UNCHANGED <<mComponentState, mCompHasError, loc, out, flusher>>
             ELSE onFlushDone
          /\ UNCHANGED <<mState, mHasQueuedWork, ctl>>
       \/ /\ mComponentState = "STOPPING"
          /\ step' = "resetInfo"
          /\ onStopDone(In("pending") \cup In("abandoned"))
          /\ UNCHANGED <<mState, flusher>>
       \/ /\ mComponentState \notin {"UNINITIALIZED", "FLUSHING", "STOPPING"}
          /\ reportError
          /\ UNCHANGED <<step, loc, out, mHasQueuedWork, ctl, flusher>>
    /\ Follow(<<>>)
    /\ UNCHANGED <<mDrainMode, inputHeld, ready, hal, clientEos, timedOut, calls>>

resetInputAndOutputBufInfo_Decrements ==
    /\ step = "resetInfo"
    /\ step' = "idle"
    /\ mHasQueuedWork' = FALSE
    /\ out' = [out EXCEPT !.errorFrames = @ - 1]
    /\ UNCHANGED <<status, tasks, work, hal, client>>

\* The end of onFlushOrStopDone(), when the client may already have been woken.
resetInputAndOutputBufInfo ==
    /\ step = "resetInfo"
    /\ step' = "idle"
    /\ mHasQueuedWork' = FALSE
    /\ out' = [out EXCEPT !.errorFrames = 0]
    /\ UNCHANGED <<status, tasks, work, hal, client>>

\* The decoder could not decode the work: it is flagged, and reported if its
\* input is back; too many of them in a row are an error of the component.
onErrorFrame ==
    /\ Run("onErrorFrame")
    /\ LET w == Head(tasks).w IN
       IF loc[w] # "pending"
       THEN UNCHANGED <<status, loc, ready, out>>
       ELSE /\ ready' = ready \cup {w}
            /\ IF w \in inputHeld THEN UNCHANGED loc ELSE reportWorkIfFinished(w)
            /\ IF out.errorFrames + 1 > MaxErrorFrames
               THEN reportError /\ out' = [out EXCEPT !.errorFrames = 0]
               ELSE UNCHANGED status /\ out' = [out EXCEPT !.errorFrames = @ + 1]
    /\ Follow(<<>>)
    /\ UNCHANGED <<step, mDrainMode, inputHeld, mHasQueuedWork, hal, client>>

onNoOutFrameNotify ==
    /\ Run("onNoOutFrameNotify")
    /\ out' = [out EXCEPT !.noOut = Append(@, Head(tasks).w)]
    /\ Follow(<<Task("onReportNoOutFrameFinished")>>)
    /\ UNCHANGED <<status, step, work, mHasQueuedWork, hal, client>>

onReportNoOutFrameFinished ==
    /\ Run("onReportNoOutFrameFinished")
    /\ step' = "noOutFrame"
    /\ Follow(<<>>)
    /\ UNCHANGED <<status, work, out, mHasQueuedWork, hal, client>>

\* One round of its loop: the first work without output is reported, or it ends
\* the loop and stays first, because it is unknown or its input is not back.
ReportNoOutFrame ==
    /\ step = "noOutFrame"
    /\ IF out.noOut = <<>>
       THEN step' = "idle" /\ UNCHANGED <<status, loc, out>>
       ELSE LET w == Head(out.noOut) IN
            IF loc[w] # "pending"
            THEN reportError /\ step' = "idle" /\ UNCHANGED <<loc, out>>
            ELSE IF w \in inputHeld
            THEN step' = "idle" /\ UNCHANGED <<status, loc, out>>
            ELSE /\ loc' = [loc EXCEPT ![w] = "done"]
                 /\ out' = [out EXCEPT !.noOut = Tail(@)]
                 /\ UNCHANGED <<status, step>>
    /\ UNCHANGED <<tasks, mDrainMode, inputHeld, ready, mHasQueuedWork, hal, client>>

onReportError ==
    /\ Run("onReportError")
    /\ reportError
    /\ Follow(<<>>)
    /\ UNCHANGED <<step, work, out, mHasQueuedWork, hal, client>>

\* The decoder is destroyed and the thread stopped: what is still posted is lost.
onDestroy ==
    /\ Run("onDestroy")
    /\ SetState("DESTROYED")
    /\ tasks' = <<>>
    /\ loc' = Moved(In("posted"), "destroyed")
    /\ out' = [out EXCEPT !.buffers = <<>>, !.sent = {}, !.noOut = <<>>]
    /\ hal' = IdleHal
    /\ ctl' = "released"
    /\ UNCHANGED <<mState, step, mDrainMode, inputHeld, ready, mHasQueuedWork,
                   flusher, clientEos, timedOut, calls>>
-----------------------------------------------------------------------------
(* The decoder: each of its callbacks posts one task.                        *)

HalOnly == UNCHANGED <<status, step, work, out, mHasQueuedWork, ctl, flusher,
                       clientEos, timedOut>>

NotifyEndOfBitstreamBuffer(w) ==
    /\ w \in hal.in
    /\ hal' = [hal EXCEPT !.in = @ \ {w}]
    /\ Post(TaskFor("onInputBufferDone", w))
    /\ HalOnly /\ UNCHANGED calls

PictureReady(w) ==
    /\ hal.owes[w] \in {"picture", "twoPictures"}
    /\ PictureBeforeInput \/ w \notin hal.in
    /\ hal' = [hal EXCEPT !.owes[w] = IF @ = "twoPictures" THEN "picture" ELSE "nothing"]
    /\ Post(TaskFor("onOutputBufferDone", w))
    /\ HalOnly /\ UNCHANGED calls

NotifyEvent(w) ==
    /\ hal.owes[w] \in {"errorFrame", "noOutFrame"}
    /\ PictureBeforeInput \/ w \notin hal.in
    /\ hal' = [hal EXCEPT !.owes[w] = "nothing"]
    /\ Post(TaskFor(IF hal.owes[w] = "errorFrame" THEN "onErrorFrame" ELSE "onNoOutFrameNotify", w))
    /\ HalOnly /\ UNCHANGED calls

\* Every frame given before eosFlush() is dealt with.
NotifyFlushDone ==
    /\ hal.eos
    /\ hal.in = {}
    /\ \A w \in Works : hal.owes[w] = "nothing"
    /\ hal' = [hal EXCEPT !.eos = FALSE]
    /\ Post(Task("onDrainDone"))
    /\ HalOnly /\ UNCHANGED calls

\* A reset drops all frames; every request is answered.
NotifyFlushOrStopDone ==
    /\ hal.resets > 0
    /\ hal' = [IdleHal EXCEPT !.resets = hal.resets - 1]
    /\ Post(Task("onFlushOrStopDone"))
    /\ HalOnly /\ UNCHANGED calls

NotifyError ==
    /\ calls["start"] > 0 /\ ctl # "released"   \* there is a VideoDecWraper
    /\ May("halError") /\ Count("halError")
    /\ Post(Task("onReportError"))
    /\ HalOnly /\ UNCHANGED hal
-----------------------------------------------------------------------------
DrainMode == {"withEos", "noEos"}

Client ==
    \/ \E w \in Works : queue_nb(w)
    \/ \E mode \in DrainMode : drain_nb(mode)
    \/ flush_sm \/ FlushWait \/ FlushTimeout \/ FlushReturn
    \/ start \/ StartReturn \/ stop \/ StopReturn \/ release

Handler ==
    \/ Skip \/ onQueueWork \/ onDequeueWork \/ onInputBufferDone \/ onOutputBufferDone
    \/ sendOutputBufferToWorkIfAnyTask \/ sendOutputBufferToWorkIfAny \/ NothingToSend
    \/ onDrainDone \/ DrainDoneTail \/ onFlush \/ onStop
    \/ onFlushOrStopDone \/ resetInputAndOutputBufInfo
    \/ onErrorFrame \/ onNoOutFrameNotify \/ onReportNoOutFrameFinished \/ ReportNoOutFrame
    \/ onReportError \/ onDestroy
    \/ \E outcome \in StartOutcomes : onStart(outcome)
    \/ \E mode \in DrainMode : onDrain(mode)

Decoder ==
    \/ \E w \in Works : NotifyEndOfBitstreamBuffer(w) \/ PictureReady(w) \/ NotifyEvent(w)
    \/ NotifyFlushDone \/ NotifyFlushOrStopDone \/ NotifyError

Next == Client \/ Handler \/ Decoder

Spec == Init /\ [][Next]_vars
-----------------------------------------------------------------------------
Op == Guarded \cup {"onStart", "sendOutputBufferToWorkIfAnyTask", "onFlush", "onStop",
                    "onFlushOrStopDone", "onErrorFrame", "onNoOutFrameNotify",
                    "onReportNoOutFrameFinished", "onReportError", "onDestroy"}
Step == {"idle", "sending", "draining", "drained", "resetInfo", "noOutFrame"}
WorkOp == {"onQueueWork", "onInputBufferDone", "onOutputBufferDone",
           "onErrorFrame", "onNoOutFrameNotify"}
TaskSet == [op : Op \ WorkOp, w : {0}] \cup [op : WorkOp, w : Works]
OutSet == [buffers : Seq(Works), eos : BOOLEAN, last : {0} \cup Works, sent : SUBSET Works,
           cloneable : BOOLEAN, clones : Nat, errorFrames : Nat, noOut : Seq(Works)]
HalSet == [in : SUBSET Works, owes : [Works -> Outcome], eos : BOOLEAN, resets : Nat]

\* Every variable has its type.
TypeOK ==
    /\ mState \in State
    /\ mComponentState \in ComponentState
    /\ mCompHasError \in BOOLEAN
    /\ tasks \in Seq(TaskSet)
    /\ step \in Step
    /\ loc \in [Works -> Loc]
    /\ mDrainMode \in [Works -> DrainMode \cup {"none"}]
    /\ inputHeld \subseteq Works
    /\ ready \subseteq Works
    /\ out \in OutSet
    /\ mHasQueuedWork \in BOOLEAN
    /\ hal \in HalSet
    /\ ctl \in {"idle", "starting", "started", "startFailed", "stopping", "stopped",
                "releasing", "released"}
    /\ flusher \in {"idle", "posted", "waiting", "signalled"}
    /\ clientEos \in {"none", "told", "given"}
    /\ timedOut \in BOOLEAN
    /\ calls \in [Call -> Nat]
-----------------------------------------------------------------------------
(* What is certain of the component's environment.                          *)

\* mThread runs its tasks, a client inside a call goes on with it, a wait ends
\* when its time is over, and the decoder answers what it was asked.
Fairness ==
    /\ WF_vars(Handler)
    /\ WF_vars(StartReturn) /\ WF_vars(StopReturn)
    /\ WF_vars(FlushWait) /\ WF_vars(FlushReturn) /\ WF_vars(FlushTimeout /\ NoSignalComing)
    /\ WF_vars(NotifyFlushDone) /\ WF_vars(NotifyFlushOrStopDone)
    /\ \A w \in Works : /\ WF_vars(NotifyEndOfBitstreamBuffer(w))
                        /\ WF_vars(PictureReady(w))
                        /\ WF_vars(NotifyEvent(w))

FairSpec == Spec /\ Fairness
-----------------------------------------------------------------------------
(* What the client relies on.  Clean: no error of the decoder, no late flush. *)

Clean == calls["halError"] = 0 /\ ~timedOut

\* No C2Work is destroyed unreported: not by a handler that finds the component
\* dead (onQueueWork), nor when onFlushDone() renews its list, nor in the tasks a
\* stopped thread leaves behind.
NoWorkLost == Clean => In("destroyed") = {}

\* When onStopDone() has run, no work is left in the component, even if it was
\* in an error state, draining, or had works in mQueue (only a flush that timed
\* out leaves its list of works behind).
StopReturnsEverything ==
    mComponentState = "UNINITIALIZED" => \A w \in Works : loc[w] \notin Held \ {"flushList"}

\* The decoder reads an input buffer only as long as its work is pending: no
\* report, flush or stop releases the buffer (or hands it to the client) before
\* the decoder has given it back or has been reset.
InputKeptForDecoder == Clean => hal.in \subseteq In("pending")

\* A decoder that does nothing wrong never makes the component report an error,
\* whatever stale callbacks a drain, flush or stop leaves in the task queue.
NoSpuriousError == Clean => ~mCompHasError

\* reportEOSWork() at the end of a drain abandons only works without any output:
\* a picture the decoder delivered before the drain was done is not thrown away
\* (unless the drain ends while a flush throws everything away).
DrainDeliversPictures ==
    [][step = "drained" /\ mComponentState = "STARTED"
          => \A w \in Works : loc'[w] = "notFound" => loc[w] = loc'[w]]_vars

\* Work by work and call by call, the component keeps the contract of its client.
Contract == INSTANCE WorkContract WITH
    Work    <- Works,
    session <- IF ctl = "released" THEN "released"
               ELSE IF mState = "LOADED" THEN "stopped" ELSE "running",
    place   <- [w \in Works |-> CASE loc[w] = "client"       -> "client"
                                 [] loc[w] \in Held          -> "held"
                                 [] loc[w] \in Reported      -> "reported"
                                 [] loc[w] = "flushed"       -> "flushed"
                                 [] loc[w] = "destroyed"     -> "lost"],
    excused <- timedOut
ImplementsContract == Contract!Spec

CallsReturn ==
    /\ ctl = "starting" ~> ctl = "idle"
    /\ flusher = "posted" ~> flusher = "idle"
    /\ ctl = "stopping" ~> ctl = "idle"

\* out.noOut # <<>>: the decoder said that it would retry an input and never does.
WorksComeBack ==
    \A w \in Works : loc[w] \in Held /\ clientEos = "told"
                       ~> loc[w] \in Returned \/ ~Clean \/ out.noOut # <<>>

\* start(), flush_sm() and stop() return, and a client that queues its last work
\* with EOS gets every work back, unless the decoder owes the answer of an input.
Progress == CallsReturn /\ WorksComeBack
=============================================================================
