-------------------------- MODULE SoftVdecComponent --------------------------
(***************************************************************************)
(* The software video decoder: its framework, C2SoftVdecComponent, and     *)
(* the decoder above it, C2SoftVdec, which calls the FFmpeg library.       *)
(*                                                                         *)
(* The library gives its pictures some frames late.  The decoder keeps the *)
(* indexes of the works that wait for a picture in a list of its own       *)
(* (mPendingWorkFrameIndexes), the framework keeps the works               *)
(* (mPendingWork), and the library keeps the frames: three lists of the    *)
(* same works, which calls of the client change at different times.        *)
(*                                                                         *)
(* The client makes one call at a time.  flush_sm(), stop() and reset()    *)
(* first change the lists of the framework, at any point of what the       *)
(* looper is doing, and then wait for it.  kWhatProcess is a handler of    *)
(* several steps, split where the looper takes the lock of the queue.      *)
(*                                                                         *)
(* Works are numbers in the order they are queued, and their frame indexes *)
(* too.  An operator with a suffix, as Waiting_Current, is the one before  *)
(* the underscore with a plausible bug; no action uses it.                 *)
(***************************************************************************)
EXTENDS Integers, Sequences

CONSTANTS
    NumWorks,    \* works the client may queue over the component's life
    EosWorks,    \* works with FLAG_END_OF_STREAM
    CsdWorks,    \* works with FLAG_CODEC_CONFIG
    Delays,      \* how many frames the library may be late
    MaxPending,  \* MAX_WORK_PENDING_COUNT
    Budgets      \* bounds on each kind of call and failure: one of these holds

Works == 1..NumWorks
Call == {"start", "stop", "reset", "flush", "drain", "corrupt", "fetchError", "mapError",
         "poolError", "initError"}

ASSUME WorksAssumption == NumWorks \in Nat /\ EosWorks \subseteq Works /\ CsdWorks \subseteq Works
ASSUME DelayAssumption == MaxPending \in Nat /\ Delays \subseteq 0..MaxPending
ASSUME CallsAssumption == Budgets \subseteq [Call -> Nat]

VARIABLES
    mState,       \* ExecState, which the client's calls look at
    mRunning,     \* of the WorkHandler, which the looper looks at
    msgs,         \* the messages posted to the looper
    cur,          \* the work in processQueue(), and how far it is
    loc,          \* who has each work
    mQueue,       \* entries of mWorkQueue: a work, or 0 for a drain
    mFlush,       \* a flush the looper has not seen
    mGeneration,
    pool,         \* whether mOutputBlockPool is set
    codec,        \* what the decoder keeps
    library,      \* the works whose frames the library has, and how late it is
    picture,      \* the work whose picture each work was returned with
    feeder,       \* "post": queue_nb() or drain_nb() has still to post kWhatProcess
    ended,        \* the client has queued the end, and neither flushed nor stopped since
    ctl,          \* the client inside start(), flush_sm(), stop(), reset() or release()
    calls,        \* how many calls and failures there may still be
    seen,         \* history: the kinds of calls and failures there were
    strayed       \* history: a case in which the three lists part

queueVars == <<loc, mQueue, mFlush, mGeneration>>
decoderVars == <<codec, library, picture, strayed>>
looper == <<cur, mRunning, pool, decoderVars>>
counts == <<calls, seen>>
clientVars == <<mState, feeder, ended, ctl, counts>>
vars == <<msgs, queueVars, looper, clientVars>>

\* Where a work may be: in mQueue, in the looper's hands or in mPendingWork; given
\* back in one of three ways; or destroyed by stop(), reset() or an error.
Held == {"queue", "processing", "pending"}
Returned == {"done", "notFound", "flushed"}
Loc == {"client"} \cup Held \cup Returned \cup {"destroyed"}

In(place) == {w \in Works : loc[w] = place}
Moved(S, place) == [w \in Works |-> IF w \in S THEN place ELSE loc[w]]
Post(m) == msgs' = Append(msgs, m)
Counted(c) == calls[c] > 0 /\ calls' = [calls EXCEPT ![c] = @ - 1] /\ seen' = seen \cup {c}

IdleCur == [pc |-> "idle", work |-> 0, generation |-> 0, hasQueuedWork |-> FALSE,
            data |-> FALSE, flushPendingWork |-> FALSE, processed |-> FALSE]

\* mPic: a picture left by a frame that failed behind its decoding.
NewCodec == [indexes |-> <<>>, mFirstPictureReviced |-> FALSE, mSignalledOutputEos |-> FALSE,
             mSignalledError |-> FALSE, mPic |-> 0]

Init ==
    /\ mState = "UNINITIALIZED" /\ mRunning = FALSE
    /\ msgs = <<>> /\ cur = IdleCur
    /\ loc = [w \in Works |-> "client"]
    /\ mQueue = <<>> /\ mFlush = FALSE /\ mGeneration = 0
    /\ pool = FALSE
    /\ codec = NewCodec
    /\ \E delay \in Delays : library = [frames |-> <<>>, delay |-> delay]
    /\ picture = [w \in Works |-> 0]
    /\ feeder = "idle" /\ ended = FALSE /\ ctl = "idle"
    /\ calls \in Budgets /\ seen = {}
    /\ strayed = FALSE
-----------------------------------------------------------------------------
(* The client's calls. *)

MayCall == ctl = "idle" /\ feeder = "idle"

\* The looper is told of an entry only if it found the queue empty.
Enqueue(entry) ==
    /\ mQueue' = Append(mQueue, entry)
    /\ feeder' = IF mQueue = <<>> THEN "post" ELSE "idle"

\* The client queues in order, and nothing behind the end but after a flush or a stop.
queue_nb(w) ==
    /\ MayCall /\ mState = "RUNNING"
    /\ loc[w] = "client" /\ \A v \in In("client") : w <= v
    /\ ~ended /\ ended' = (w \in EosWorks)
    /\ loc' = [loc EXCEPT ![w] = "queue"]
    /\ Enqueue(w)
    /\ UNCHANGED <<msgs, mFlush, mGeneration, looper, mState, ctl, counts>>

drain_nb ==
    /\ MayCall /\ mState = "RUNNING"
    /\ Counted("drain")
    /\ Enqueue(0)
    /\ UNCHANGED <<msgs, loc, mFlush, mGeneration, looper, mState, ended, ctl>>

\* The message is posted after the lock is given back.
PostProcess ==
    /\ feeder = "post" /\ feeder' = "idle"
    /\ Post("process")
    /\ UNCHANGED <<queueVars, looper, mState, ended, ctl, counts>>

\* The queued and the pending works are taken back at once ...
flush_sm ==
    /\ MayCall /\ mState = "RUNNING"
    /\ Counted("flush")
    /\ mGeneration' = mGeneration + 1 /\ mFlush' = TRUE
    /\ mQueue' = <<>>
    /\ loc' = Moved(In("queue") \cup In("pending"), "flushed")
    /\ ctl' = "flushing" /\ ended' = FALSE
    /\ UNCHANGED <<msgs, looper, mState, feeder>>

\* mProcessQueueLock is free.
NotProcessing == cur.pc = "idle"

\* ... and the work in the looper's hands is waited for.
FlushReturn ==
    /\ ctl = "flushing" /\ NotProcessing
    /\ ctl' = "idle"
    /\ UNCHANGED <<msgs, queueVars, looper, mState, feeder, ended, counts>>

start ==
    /\ MayCall /\ mState # "RUNNING"
    /\ Counted("start")
    /\ IF mState = "UNINITIALIZED"
       THEN Post("init") /\ ctl' = "initializing" /\ UNCHANGED mState
       ELSE Post("start") /\ mState' = "RUNNING" /\ UNCHANGED ctl
    /\ UNCHANGED <<queueVars, looper, feeder, ended>>

InitReturn ==
    /\ ctl \in {"initialized", "initFailed"}
    /\ mState' = IF ctl = "initialized" THEN "RUNNING" ELSE mState
    /\ ctl' = "idle"
    /\ UNCHANGED <<msgs, queueVars, looper, feeder, ended, counts>>

\* stop() and reset(): the works are destroyed, and the looper is waited for.
Clear(call, message, state) ==
    /\ MayCall
    /\ Counted(call)
    /\ mState' = state
    /\ mQueue' = <<>> /\ loc' = Moved(In("queue") \cup In("pending"), "destroyed")
    /\ Post(message)
    /\ ctl' = message /\ ended' = FALSE
    /\ UNCHANGED <<mFlush, mGeneration, looper, feeder>>

stop == mState = "RUNNING" /\ Clear("stop", "stop", "STOPPED")
reset == Clear("reset", "reset", "UNINITIALIZED")

release ==
    /\ MayCall
    /\ Post("release")
    /\ ctl' = "release"
    /\ UNCHANGED <<queueVars, looper, mState, feeder, ended, counts>>
-----------------------------------------------------------------------------
(* The looper: messages other than kWhatProcess. *)

Take(m) ==
    /\ cur.pc = "idle"
    /\ msgs # <<>> /\ Head(msgs) = m
    /\ msgs' = Tail(msgs)

\* A failed onInit() is answered, and falls through to kWhatStart all the same.
InitMessage(ok) ==
    /\ Take("init")
    /\ IF ok THEN UNCHANGED counts ELSE Counted("initError")
    /\ codec' = IF ok THEN [codec EXCEPT !.mSignalledError = FALSE] ELSE codec
    /\ ctl' = IF ok THEN "initialized" ELSE "initFailed"
    /\ mRunning' = TRUE
    /\ UNCHANGED <<queueVars, cur, pool, library, picture, strayed, mState, feeder, ended>>

StartMessage ==
    /\ Take("start")
    /\ mRunning' = TRUE
    /\ UNCHANGED <<queueVars, cur, pool, decoderVars, clientVars>>

\* onStop(), and what onFlush_sm() does beside emptying its own list: the library
\* is closed and opened again.
resetDecoder(c) ==
    /\ codec' = [c EXCEPT !.mSignalledError = FALSE, !.mSignalledOutputEos = FALSE]
    /\ library' = [library EXCEPT !.frames = <<>>]

\* The indexes and mFirstPictureReviced are left as they are, so that they do not fit
\* the frames of the next session.
onStop ==
    /\ resetDecoder(codec)
    /\ strayed' = (strayed \/ codec.indexes # <<>>
                     \/ (codec.mFirstPictureReviced /\ library.delay > 0))

StopMessage ==
    /\ Take("stop")
    /\ onStop
    /\ pool' = FALSE
    /\ ctl' = "idle"
    /\ UNCHANGED <<queueVars, cur, mRunning, picture, mState, feeder, ended, counts>>

ResetMessage ==
    /\ Take("reset")
    /\ onStop
    /\ pool' = FALSE /\ mRunning' = FALSE
    /\ ctl' = "idle"
    /\ UNCHANGED <<queueVars, cur, picture, mState, feeder, ended, counts>>

ReleaseMessage ==
    /\ Take("release")
    /\ library' = [library EXCEPT !.frames = <<>>]
    /\ pool' = FALSE /\ mRunning' = FALSE
    /\ ctl' = "released"
    /\ UNCHANGED <<queueVars, cur, codec, picture, strayed, mState, feeder, ended, counts>>
-----------------------------------------------------------------------------
(* kWhatProcess: processQueue(). *)

\* The end of the handler, which posts the message again if there was more.
Return ==
    /\ cur' = IdleCur
    /\ msgs' = IF cur.hasQueuedWork THEN Append(msgs, "process") ELSE msgs

ProcessNothing ==
    /\ Take("process")
    /\ ~mRunning \/ mQueue = <<>>
    /\ UNCHANGED <<queueVars, looper, clientVars>>

onFlush_sm_KeepsIndexes ==
    resetDecoder([codec EXCEPT !.mFirstPictureReviced = FALSE])

\* The decoder forgets its list too.
onFlush_sm ==
    resetDecoder([codec EXCEPT !.indexes = <<>>, !.mFirstPictureReviced = FALSE])

\* An entry is taken out of the queue; the decoder is told of a flush since the last.
Pop ==
    /\ Take("process")
    /\ mRunning /\ mQueue # <<>>
    /\ mQueue' = Tail(mQueue) /\ mFlush' = FALSE
    /\ IF mFlush THEN onFlush_sm ELSE UNCHANGED <<codec, library>>
    /\ cur' = [IdleCur EXCEPT !.pc = "popped", !.work = Head(mQueue), !.generation = mGeneration,
                              !.hasQueuedWork = Tail(mQueue) # <<>>]
    /\ loc' = IF Head(mQueue) = 0 THEN loc ELSE [loc EXCEPT ![Head(mQueue)] = "processing"]
    /\ UNCHANGED <<mRunning, mGeneration, pool, picture, strayed, clientVars>>

\* Without a block pool the work is lost, and the client told of an error.
NoPool ==
    /\ cur.pc = "popped" /\ ~pool
    /\ Counted("poolError")
    /\ loc' = IF cur.work = 0 THEN loc ELSE [loc EXCEPT ![cur.work] = "destroyed"]
    /\ Return
    /\ UNCHANGED <<mQueue, mFlush, mGeneration, mRunning, pool, decoderVars, mState, feeder, ended, ctl>>

\* drain() does nothing with the works that are pending.
Drain ==
    /\ cur.pc = "popped" /\ cur.work = 0
    /\ pool' = TRUE
    /\ Return
    /\ UNCHANGED <<queueVars, mRunning, decoderVars, clientVars>>

Ends == cur.work \in EosWorks
Processed(p) == cur' = [cur EXCEPT !.pc = "tail", !.processed = p]

\* C2SoftVdec::process(), up to its loop.  Only the end may come without data.
Process(data) ==
    /\ cur.pc = "popped" /\ cur.work # 0
    /\ data \/ Ends
    /\ pool' = TRUE
    /\ IF codec.mSignalledError \/ codec.mSignalledOutputEos
       THEN Processed(FALSE) /\ UNCHANGED codec
       ELSE IF cur.work \in CsdWorks THEN Processed(TRUE) /\ UNCHANGED codec
       ELSE IF data \/ codec.indexes # <<>>
       THEN /\ cur' = [cur EXCEPT !.pc = "loop", !.data = data,
                                  !.flushPendingWork = Ends /\ codec.indexes # <<>>]
            /\ UNCHANGED codec
       ELSE Processed(TRUE) /\ codec' = [codec EXCEPT !.mSignalledOutputEos = TRUE]
    /\ UNCHANGED <<msgs, queueVars, mRunning, library, picture, strayed, clientVars>>

\* The library has no block to decode to, perhaps for the second time, after a picture
\* of another size: then the picture stays and is output with a later work.
FetchError ==
    /\ cur.pc = "loop"
    /\ Counted("fetchError")
    /\ \/ UNCHANGED <<library, strayed>> /\ codec' = [codec EXCEPT !.mSignalledError = TRUE]
       \/ /\ library.frames # <<>> /\ codec.mPic = 0
          /\ library' = [library EXCEPT !.frames = Tail(@)]
          /\ codec' = [codec EXCEPT !.mSignalledError = TRUE, !.mPic = Head(library.frames)]
          /\ strayed' = TRUE
    /\ Processed(TRUE)
    /\ UNCHANGED <<msgs, queueVars, mRunning, pool, picture, mState, feeder, ended, ctl>>

\* A buffer cannot be mapped: the work is left pending, and nobody waits for it.
MapError ==
    /\ cur.pc = "loop"
    /\ Counted("mapError")
    /\ Processed(FALSE)
    /\ UNCHANGED <<msgs, queueVars, mRunning, pool, decoderVars, mState, feeder, ended, ctl>>

\* What a call of the library leaves: it decodes the frame, and has a picture when it
\* has more frames than it is late, or any at the end.
Decoded(corrupt) ==
    IF cur.data /\ ~corrupt THEN Append(library.frames, cur.work) ELSE library.frames
HasPicture(frames) ==
    IF cur.data THEN Len(frames) > library.delay ELSE frames # <<>>

Room_OneMore == Len(codec.indexes) <= MaxPending
Room == Len(codec.indexes) < MaxPending

\* A work that leaves the loop without a picture: it waits for one, if there was none
\* yet, or comes back without.  The end leaves those behind that wait, if it comes with
\* a frame of its own that gives no picture.
NoPicture(corrupt) ==
    /\ IF Ends
       THEN codec' = [codec EXCEPT !.mSignalledOutputEos = TRUE] /\ Processed(TRUE)
       ELSE IF ~codec.mFirstPictureReviced /\ Room
       THEN codec' = [codec EXCEPT !.indexes = Append(@, cur.work)] /\ Processed(FALSE)
       ELSE Processed(TRUE) /\ UNCHANGED codec
    /\ strayed' = (strayed \/ (corrupt /\ ~codec.mFirstPictureReviced)
                            \/ (cur.data /\ cur.flushPendingWork))
    /\ UNCHANGED <<loc, picture>>

Waiting_Current ==
    IF cur.flushPendingWork THEN codec.indexes ELSE <<cur.work>>

\* The works that wait for a picture, the current one last but at the end.
Waiting ==
    IF cur.flushPendingWork THEN codec.indexes ELSE Append(codec.indexes, cur.work)

GoesOn_Never == FALSE
GoesOn == cur.flushPendingWork /\ Tail(Waiting) # <<>>

\* finishWork(): the picture goes to the work that waits longest: the current one, of
\* which the end sends a clone; or a pending one, unless it was taken back meanwhile.
\* The loop goes on at the end, while works wait.
Picture(p) ==
    LET target == Head(Waiting)
        found == target = cur.work \/ loc[target] = "pending"
    IN  /\ picture' = IF found THEN [picture EXCEPT ![target] = p] ELSE picture
        /\ loc' = IF target # cur.work /\ found THEN [loc EXCEPT ![target] = "done"] ELSE loc
        /\ codec' = [codec EXCEPT !.mFirstPictureReviced = TRUE, !.mPic = 0,
                                  !.indexes = Tail(Waiting),
                                  !.mSignalledOutputEos = Ends /\ ~GoesOn]
        /\ IF GoesOn THEN UNCHANGED cur ELSE Processed(Ends \/ target = cur.work)
        /\ UNCHANGED strayed

\* One round of the loop: a picture left behind, or a call of the library.
Decode(corrupt) ==
    /\ cur.pc = "loop"
    /\ IF corrupt THEN cur.data /\ codec.mPic = 0 /\ Counted("corrupt") ELSE UNCHANGED counts
    /\ LET frames == Decoded(corrupt) IN
       IF codec.mPic # 0 THEN Picture(codec.mPic) /\ UNCHANGED library
       ELSE IF ~corrupt /\ HasPicture(frames)
       THEN Picture(Head(frames)) /\ library' = [library EXCEPT !.frames = Tail(frames)]
       ELSE NoPicture(corrupt) /\ library' = [library EXCEPT !.frames = frames]
    /\ UNCHANGED <<msgs, mQueue, mFlush, mGeneration, mRunning, pool, mState, feeder, ended, ctl>>

\* The work of a generation that was flushed meanwhile is not found any more.
Outdated == mGeneration # cur.generation

\* The end of processQueue(): the work is reported, or waits for its picture.
EndOfProcess ==
    /\ cur.pc = "tail"
    /\ loc' = [loc EXCEPT ![cur.work] =
                   IF Outdated THEN "notFound" ELSE IF cur.processed THEN "done" ELSE "pending"]
    /\ Return
    /\ UNCHANGED <<mQueue, mFlush, mGeneration, mRunning, pool, decoderVars, clientVars>>
-----------------------------------------------------------------------------
Client ==
    \/ \E w \in Works : queue_nb(w)
    \/ drain_nb \/ PostProcess \/ flush_sm \/ FlushReturn \/ start \/ InitReturn
    \/ stop \/ reset \/ release

Looper ==
    \/ \E ok \in BOOLEAN : InitMessage(ok)
    \/ StartMessage \/ StopMessage \/ ResetMessage \/ ReleaseMessage
    \/ ProcessNothing \/ Pop \/ NoPool \/ Drain
    \/ \E data \in BOOLEAN : Process(data)
    \/ FetchError \/ MapError
    \/ \E corrupt \in BOOLEAN : Decode(corrupt)
    \/ EndOfProcess

Next == Client \/ Looper

Spec == Init /\ [][Next]_vars

\* The looper runs, and a call that need not wait goes on.
FairSpec ==
    Spec /\ WF_vars(Looper) /\ WF_vars(PostProcess) /\ WF_vars(InitReturn) /\ WF_vars(FlushReturn)
-----------------------------------------------------------------------------
(* Properties. *)

CurSet == [pc : {"idle", "popped", "loop", "tail"}, work : {0} \cup Works, generation : Nat,
           hasQueuedWork : BOOLEAN, data : BOOLEAN, flushPendingWork : BOOLEAN,
           processed : BOOLEAN]
CodecSet == [indexes : Seq(Works), mFirstPictureReviced : BOOLEAN, mSignalledOutputEos : BOOLEAN,
             mSignalledError : BOOLEAN, mPic : {0} \cup Works]

\* Every variable has its type, the decoder's list is bounded, and the loop is only
\* gone round while a work waits in it.
TypeOK ==
    /\ mState \in {"UNINITIALIZED", "STOPPED", "RUNNING"}
    /\ {mRunning, mFlush, pool, strayed, ended} \subseteq BOOLEAN
    /\ msgs \in Seq({"process", "init", "start", "stop", "reset", "release"})
    /\ cur \in CurSet /\ (cur.pc = "loop" => cur.work # 0)
    /\ cur.pc = "loop" /\ cur.flushPendingWork => codec.indexes # <<>>
    /\ loc \in [Works -> Loc]
    /\ mQueue \in Seq({0} \cup Works)
    /\ mGeneration \in Nat
    /\ codec \in CodecSet /\ Len(codec.indexes) <= MaxPending
    /\ library \in [frames : Seq(Works), delay : Delays]
    /\ picture \in [Works -> {0} \cup Works]
    /\ feeder \in {"idle", "post"}
    /\ ctl \in {"idle", "initializing", "initialized", "initFailed", "flushing", "stop", "reset",
                "release", "released"}
    /\ calls \in [Call -> Nat] /\ seen \subseteq Call

\* The picture a work comes back with was decoded from its own input, unless a frame
\* failed before the first picture, an error left a picture behind, or a session was
\* ended with works that waited.
PictureOfItsWork == ~strayed => \A w \in Works : picture[w] \in {0, w}

Undisturbed ==
    /\ ~strayed
    /\ seen \cap {"stop", "reset", "fetchError", "mapError", "poolError"} = {}

\* When the end of the stream is reported, no earlier work is left in the component.
EosReportedLast ==
    Undisturbed => \A e \in EosWorks : loc[e] = "done" => \A w \in 1..e : loc[w] \notin Held

CallsReturn == ctl \in {"initializing", "flushing", "stop", "reset"} ~> ctl = "idle"

WorksComeBack ==
    \A e \in EosWorks : \A w \in 1..e :
        loc[e] \in Held /\ loc[w] \in Held ~> loc[w] \in Returned \/ ~Undisturbed \/ ctl # "idle"

\* start(), flush_sm(), stop() and reset() return, and a client that queues its last
\* work with EOS gets every work back, however late the library is.
Progress == CallsReturn /\ WorksComeBack
=============================================================================
