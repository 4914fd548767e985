------------------------- MODULE AudioDecComponent -------------------------
(***************************************************************************)
(* The framework of the audio decoders, C2AudioDecComponent, with the      *)
(* decoders above it (AudioDecoders): AAC, whose output lags behind its    *)
(* input, and the others, which finish every work they are given.          *)
(*                                                                         *)
(* The client makes one call at a time.  Its calls change the work queue   *)
(* under a lock, at any point of what the looper thread is doing; stop()   *)
(* and reset() wait for the looper, queue_nb() and flush_sm() do not.  The *)
(* looper handles one message after the other; kWhatProcess is a handler   *)
(* of several steps, split where the looper takes the lock of the queue.   *)
(*                                                                         *)
(* Works are numbers in the order they are queued; loc says who has each.  *)
(* Samples are counted in frames, of which a work decodes to a few.        *)
(*                                                                         *)
(* An operator with a suffix (Decode_OnlyWithFrames) is the one before the    *)
(* underscore with a plausible bug; no action uses it.                     *)
(***************************************************************************)
EXTENDS AudioDecoders

CONSTANTS
    NumWorks,     \* works the client may queue over the component's life
    EosWorks,     \* works with FLAG_END_OF_STREAM
    CsdWorks,     \* works with FLAG_CODEC_CONFIG
    Decoders,     \* the kinds of decoders the component may be
    DrainModes,   \* what the client asks of drain_nb()
    FrameCounts,  \* frames a work may decode to
    OutputDelay,  \* frames the decoder is behind, which are discarded at first
    RingFrames,   \* capacity of mOutputDelayRingBuffer
    MaxCalls      \* bound on each kind of call and failure, for each decoder

Works == 1..NumWorks
DrainMode == {"withEos", "noEos"}
Call == {"start", "stop", "reset", "flush", "drain", "decodeError", "poolError", "initError"}

ASSUME AudioWorksAssumption ==
    /\ NumWorks \in Nat
    /\ EosWorks \subseteq Works
    /\ CsdWorks \subseteq Works
ASSUME AudioDecoderAssumption ==
    /\ Decoders \subseteq Decoder
    /\ DrainModes \subseteq DrainMode
    /\ FrameCounts \subseteq Nat
    /\ OutputDelay \in Nat
    /\ RingFrames \in Nat
    /\ MaxCalls \in [Decoders -> [Call -> Nat]]

VARIABLES
    decoder,   \* which kind of decoder this component is
    mState,    \* ExecState, which the client's calls look at
    mRunning,  \* of the WorkHandler, which the looper looks at
    msgs,      \* the messages posted to the looper
    cur,       \* the work in processQueue(), and how far it is
    loc,       \* who has each work
    mQueue,    \* entries of mWorkQueue: a work, or 0 and a drain mode
    mFlush,    \* a flush the looper has not seen
    mGeneration,
    pool,      \* whether mOutputBlockPool is set
    codec,     \* what the decoder keeps: its infos, samples, error and library
    feeder,    \* "post": queue_nb() or drain_nb() has still to post kWhatProcess
    ctl,       \* the client inside start(), stop(), reset() or release()
    calls      \* calls and failures so far, for MaxCalls

queueVars == <<loc, mQueue, mFlush, mGeneration>>
looper    == <<cur, mRunning, pool, codec>>
clientVars == <<mState, feeder, ctl, calls>>
vars == <<decoder, msgs, queueVars, looper, clientVars>>

\* Where a work may be: in mQueue, in the looper's hands or in mPendingWork; given
\* back in one of three ways; or destroyed by stop(), reset() or an error.
Held     == {"queue", "processing", "pending"}
Returned == {"done", "notFound", "flushed"}
Loc      == {"client"} \cup Held \cup Returned \cup {"destroyed"}

In(place) == {w \in Works : loc[w] = place}
Moved(S, place) == [w \in Works |-> IF w \in S THEN place ELSE loc[w]]
Least(a, b) == IF a < b THEN a ELSE b

IdleCur   == [pc |-> "idle", work |-> 0, generation |-> 0, hasQueuedWork |-> FALSE,
              eos |-> FALSE, processed |-> FALSE]

May(c)   == calls[c] < MaxCalls[decoder][c]
Count(c) == calls' = [calls EXCEPT ![c] = @ + 1]
Post(m)  == msgs' = Append(msgs, m)

Init ==
    /\ decoder \in Decoders
    /\ mState = "UNINITIALIZED"
    /\ mRunning = FALSE
    /\ msgs = <<>>
    /\ cur = IdleCur
    /\ loc = [w \in Works |-> "client"]
    /\ mQueue = <<>>
    /\ mFlush = FALSE
    /\ mGeneration = 0
    /\ pool = FALSE
    /\ codec \in Constructed(decoder)
    /\ feeder = "idle"
    /\ ctl = "idle"
    /\ calls = [c \in Call |-> 0]
-----------------------------------------------------------------------------
(* The client's calls.                                                      *)

MayCall == ctl = "idle" /\ feeder = "idle"

\* The looper is told of an entry only if it found the queue empty.
Enqueue(entry) ==
    /\ mQueue' = Append(mQueue, entry)
    /\ feeder' = IF mQueue = <<>> THEN "post" ELSE "idle"

queue_nb(w) ==
    /\ MayCall
    /\ mState = "RUNNING"
    /\ loc[w] = "client" /\ \A v \in In("client") : w <= v
    /\ loc' = [loc EXCEPT ![w] = "queue"]
    /\ Enqueue([work |-> w, drainMode |-> "none"])
    /\ UNCHANGED <<decoder, msgs, mFlush, mGeneration, looper, mState, ctl, calls>>

drain_nb(mode) ==
    /\ MayCall
    /\ mState = "RUNNING"
    /\ May("drain") /\ Count("drain")
    /\ Enqueue([work |-> 0, drainMode |-> mode])
    /\ UNCHANGED <<decoder, msgs, loc, mFlush, mGeneration, looper, mState, ctl>>

\* The message is posted after the lock is given back.
PostProcess ==
    /\ feeder = "post"
    /\ feeder' = "idle"
    /\ Post("process")
    /\ UNCHANGED <<decoder, queueVars, looper, mState, ctl, calls>>

\* Takes back what is in the queue and what is pending; the work in the looper's
\* hands is left to it.
flush_sm ==
    /\ MayCall
    /\ mState = "RUNNING"
    /\ May("flush") /\ Count("flush")
    /\ mGeneration' = mGeneration + 1
    /\ mFlush' = TRUE
    /\ mQueue' = <<>>
    /\ loc' = Moved(In("queue") \cup In("pending"), "flushed")
    /\ UNCHANGED <<decoder, msgs, looper, mState, feeder, ctl>>

\* After stop() the decoder need not be initialised, and nothing is waited for.
start ==
    /\ MayCall
    /\ mState # "RUNNING"
    /\ May("start") /\ Count("start")
    /\ IF mState = "UNINITIALIZED"
       THEN Post("init") /\ ctl' = "initializing" /\ UNCHANGED mState
       ELSE Post("start") /\ mState' = "RUNNING" /\ UNCHANGED ctl
    /\ UNCHANGED <<decoder, queueVars, looper, feeder>>

InitReturn ==
    /\ ctl \in {"initialized", "initFailed"}
    /\ mState' = IF ctl = "initialized" THEN "RUNNING" ELSE mState
    /\ ctl' = "idle"
    /\ UNCHANGED <<decoder, msgs, queueVars, looper, feeder, calls>>

\* clear() of the queue and of the pending works.
ClearWorks ==
    /\ mQueue' = <<>>
    /\ loc' = Moved(In("queue") \cup In("pending"), "destroyed")

stop ==
    /\ MayCall
    /\ mState = "RUNNING"
    /\ May("stop") /\ Count("stop")
    /\ mState' = "STOPPED"
    /\ ClearWorks
    /\ Post("stop")
    /\ ctl' = "stopping"
    /\ UNCHANGED <<decoder, mFlush, mGeneration, looper, feeder>>

reset ==
    /\ MayCall
    /\ May("reset") /\ Count("reset")
    /\ mState' = "UNINITIALIZED"
    /\ ClearWorks
    /\ Post("reset")
    /\ ctl' = "resetting"
    /\ UNCHANGED <<decoder, mFlush, mGeneration, looper, feeder>>

release ==
    /\ MayCall
    /\ Post("release")
    /\ ctl' = "releasing"
    /\ UNCHANGED <<decoder, queueVars, looper, mState, feeder, calls>>
-----------------------------------------------------------------------------
(* The looper: messages other than kWhatProcess.                            *)

Take(m) ==
    /\ cur.pc = "idle"
    /\ msgs # <<>>
    /\ Head(msgs) = m
    /\ msgs' = Tail(msgs)

\* A failed onInit() is answered, and falls through to kWhatStart all the same.
InitMessage(ok) ==
    /\ Take("init")
    /\ IF ok THEN UNCHANGED calls ELSE May("initError") /\ Count("initError")
    /\ codec' \in Initialized(decoder, codec, ok)
    /\ ctl' = IF InitSucceeds(decoder, codec', ok) THEN "initialized" ELSE "initFailed"
    /\ mRunning' = TRUE
    /\ UNCHANGED <<decoder, queueVars, cur, pool, mState, feeder>>

StartMessage ==
    /\ Take("start")
    /\ mRunning' = TRUE
    /\ UNCHANGED <<decoder, queueVars, cur, pool, codec, clientVars>>

StopMessage ==
    /\ Take("stop")
    /\ codec' = Stopped(decoder, codec)
    /\ pool' = FALSE
    /\ ctl' = "idle"
    /\ UNCHANGED <<decoder, queueVars, cur, mRunning, mState, feeder, calls>>

ResetMessage ==
    /\ Take("reset")
    /\ codec' = WasReset(decoder, codec)
    /\ pool' = FALSE
    /\ mRunning' = FALSE
    /\ ctl' = "idle"
    /\ UNCHANGED <<decoder, queueVars, cur, mState, feeder, calls>>

ReleaseMessage ==
    /\ Take("release")
    /\ codec' = Released(decoder, codec)
    /\ pool' = FALSE
    /\ mRunning' = FALSE
    /\ ctl' = "released"
    /\ UNCHANGED <<decoder, queueVars, cur, mState, feeder, calls>>
-----------------------------------------------------------------------------
(* The AAC decoder's ring buffer, as functions on codec.                    *)

\* drainDecoder(): the frames still in the decoder come out, if there is room.
drainDecoder(c) ==
    LET fits == Least(c.compensated, RingFrames - c.ring) IN
    [c EXCEPT !.ring = @ + fits,
              !.compensated = @ - fits,
              !.mSignalledError = @ \/ fits < c.compensated]

\* onFlush_sm(): nothing decoded is kept.
onFlush_sm(c) ==
    IF decoder = "AAC" THEN [drainDecoder(c) EXCEPT !.infos = <<>>, !.ring = 0]
    ELSE [c EXCEPT !.infos = <<>>]

Decode_OnlyWithFrames(c, w, frames) ==
    LET fits == Least(frames, RingFrames - c.ring) IN
    IF fits = 0 THEN c
    ELSE [c EXCEPT !.ring = @ + fits, !.infos = Append(@, [work |-> w, frames |-> fits])]

\* process() of a frame that decodes: its samples go to the ring buffer, as far as
\* they fit, and its info to the end of mBuffersInfo.
Decode(c, w, frames) ==
    LET fits == Least(frames, RingFrames - c.ring) IN
    [c EXCEPT !.ring = @ + fits, !.infos = Append(@, [work |-> w, frames |-> fits])]

Compensate_WithoutLook(c) ==
    [c EXCEPT !.ring = @ - (OutputDelay - c.compensated), !.compensated = OutputDelay]

\* The first OutputDelay frames are not output.
Compensate(c) ==
    LET discarded == Least(c.ring, OutputDelay - c.compensated) IN
    [c EXCEPT !.ring = @ - discarded, !.compensated = @ + discarded]
-----------------------------------------------------------------------------
(* kWhatProcess: processQueue().                                            *)

Return_Forgets(hasQueuedWork, posted) ==
    /\ cur' = IdleCur
    /\ msgs' = posted

\* The end of the handler, which posts the message again if there was more.
Return(hasQueuedWork, posted) ==
    /\ cur' = IdleCur
    /\ msgs' = IF hasQueuedWork THEN Append(posted, "process") ELSE posted

ProcessNothing ==
    /\ Take("process")
    /\ ~mRunning \/ mQueue = <<>>
    /\ UNCHANGED <<decoder, queueVars, looper, clientVars>>

\* An entry is taken out of the queue; a flush since the last one is passed on
\* to the decoder first.
Pop ==
    /\ Take("process")
    /\ mRunning
    /\ mQueue # <<>>
    /\ mQueue' = Tail(mQueue)
    /\ mFlush' = FALSE
    /\ codec' = IF mFlush THEN onFlush_sm(codec) ELSE codec
    /\ LET entry == Head(mQueue) IN
       /\ cur' = [pc |-> "popped", work |-> entry.work, generation |-> mGeneration,
                  hasQueuedWork |-> Tail(mQueue) # <<>>,
                  eos |-> entry.drainMode = "withEos" \/ entry.work \in EosWorks,
                  processed |-> entry.work # 0]
       /\ loc' = IF entry.work = 0 THEN loc ELSE [loc EXCEPT ![entry.work] = "processing"]
    /\ UNCHANGED <<decoder, mRunning, mGeneration, pool, clientVars>>

\* Without a block pool the work is lost, and the client told of an error.
NoPool ==
    /\ cur.pc = "popped"
    /\ ~pool
    /\ May("poolError") /\ Count("poolError")
    /\ loc' = IF cur.work = 0 THEN loc ELSE [loc EXCEPT ![cur.work] = "destroyed"]
    /\ Return(cur.hasQueuedWork, msgs)
    /\ UNCHANGED <<decoder, mQueue, mFlush, mGeneration, mRunning, pool, codec,
                   mState, feeder, ctl>>

\* drain(): the AAC decoder gives out what it still has, the others do nothing.
Drain ==
    /\ cur.pc = "popped"
    /\ cur.work = 0
    /\ pool' = TRUE
    /\ IF decoder = "AAC"
       THEN /\ codec' = drainDecoder(codec)
            /\ cur' = [cur EXCEPT !.pc = "ring"]
            /\ UNCHANGED msgs
       ELSE Return(cur.hasQueuedWork, msgs) /\ UNCHANGED codec
    /\ UNCHANGED <<decoder, queueVars, mRunning, clientVars>>

Compensating(c) == c.compensated < OutputDelay

\* C2AudioAacDecoder::process() up to where it sends output.  A work is only left
\* pending when its frames are in the ring buffer.
ProcessAac(frames, ok) ==
    LET w == cur.work
        c == Decode(codec, w, frames)
    IN  IF codec.mSignalledError \/ (ok /\ w \in CsdWorks)
        THEN cur' = [cur EXCEPT !.pc = "tail"] /\ UNCHANGED codec
        ELSE IF ~ok
        THEN /\ cur' = [cur EXCEPT !.pc = "tail"]
             /\ codec' = [codec EXCEPT !.ring = IF w \in CsdWorks THEN @ ELSE c.ring,
                                       !.mSignalledError = TRUE]
        ELSE IF ~cur.eos /\ Compensating(c)
        THEN /\ cur' = [cur EXCEPT !.pc = "tail", !.processed = FALSE]
             /\ codec' = Compensate(c)
        ELSE /\ cur' = [cur EXCEPT !.pc = "ring", !.processed = FALSE]
             /\ codec' = IF cur.eos THEN drainDecoder(c) ELSE c

\* The other decoders: the work is processed in any case, and nothing is sent when
\* its format is refused.  FFmpeg takes codec config for itself.
ProcessDirect(frames, ok) ==
    IF decoder = "FFMPEG" /\ cur.work \in CsdWorks
    THEN /\ codec' = FFMPEG_Configure(codec)
         /\ cur' = [cur EXCEPT !.pc = "tail"]
    ELSE /\ codec' = Processed(decoder, codec, cur.work, frames > 0, ok)
         /\ cur' = [cur EXCEPT !.pc = IF ok THEN "ring" ELSE "tail"]

Process(frames, ok) ==
    /\ cur.pc = "popped"
    /\ cur.work # 0
    /\ pool' = TRUE
    /\ IF ok THEN UNCHANGED calls ELSE May("decodeError") /\ Count("decodeError")
    /\ IF decoder = "AAC" THEN ProcessAac(frames, ok) ELSE ProcessDirect(frames, ok)
    /\ UNCHANGED <<decoder, msgs, queueVars, mRunning, mState, feeder, ctl>>

\* finish(): a pending work goes back; one that is not pending any more is unknown.
finish(w) == loc' = IF w # 0 /\ loc[w] = "pending" THEN [loc EXCEPT ![w] = "done"] ELSE loc

\* The next info whose output is complete, or as complete as it gets.
OutputReady ==
    /\ codec.infos # <<>>
    /\ decoder = "AAC" =>
          /\ codec.ring >= 1
          /\ cur.eos \/ Head(codec.infos).frames <= codec.ring

\* One round of drainRingBuffer() or drainOutBuffer().
SendOutput ==
    /\ cur.pc = "ring"
    /\ OutputReady
    /\ LET info == Head(codec.infos) IN
       /\ IF info.work = cur.work
          THEN cur' = [cur EXCEPT !.processed = TRUE] /\ UNCHANGED loc
          ELSE finish(info.work) /\ UNCHANGED cur
       /\ codec' = [codec EXCEPT !.infos = Tail(@),
                                 !.ring = IF decoder = "AAC" THEN @ - Least(@, info.frames) ELSE @]
    /\ UNCHANGED <<decoder, msgs, mQueue, mFlush, mGeneration, mRunning, pool, clientVars>>

NoMoreOutput ==
    /\ cur.pc = "ring"
    /\ ~OutputReady
    /\ cur' = [cur EXCEPT !.pc = IF cur.eos THEN "eos" ELSE "tail"]
    /\ UNCHANGED <<decoder, msgs, queueVars, mRunning, pool, codec, clientVars>>

LastInfos_Two == 2
LastInfos == 1

\* drainInternal() or drainEos() with EOS: the works without output are finished
\* too, all but the last of them, which is taken to be the one with the flag.
FinishWithoutOutput ==
    /\ cur.pc = "eos"
    /\ IF Len(codec.infos) > LastInfos
       THEN /\ finish(Head(codec.infos).work)
            /\ codec' = [codec EXCEPT !.infos = Tail(@)]
            /\ UNCHANGED cur
       ELSE /\ codec' = [codec EXCEPT !.infos = <<>>]
            /\ cur' = [cur EXCEPT !.pc = "tail", !.processed = cur.work # 0]
            /\ UNCHANGED loc
    /\ UNCHANGED <<decoder, msgs, mQueue, mFlush, mGeneration, mRunning, pool, clientVars>>

\* The work of a generation that was flushed meanwhile is not found any more.
Outdated == mGeneration # cur.generation

\* The end of processQueue(): the work is reported, or waits for its output.
EndOfProcess ==
    /\ cur.pc = "tail"
    /\ loc' = IF cur.work = 0 THEN loc
              ELSE [loc EXCEPT ![cur.work] =
                       IF Outdated THEN "notFound" ELSE IF cur.processed THEN "done" ELSE "pending"]
    /\ Return(cur.hasQueuedWork, msgs)
    /\ UNCHANGED <<decoder, mQueue, mFlush, mGeneration, mRunning, pool, codec, clientVars>>
-----------------------------------------------------------------------------
\* Nothing is said of what follows a step without a defined outcome.
Client ==
    /\ ~codec.undefined
    /\ \/ \E w \in Works : queue_nb(w)
       \/ \E mode \in DrainModes : drain_nb(mode)
       \/ PostProcess \/ flush_sm \/ start \/ InitReturn \/ stop \/ reset \/ release

Looper ==
    /\ ~codec.undefined
    /\ \/ \E ok \in BOOLEAN : InitMessage(ok)
       \/ StartMessage \/ StopMessage \/ ResetMessage \/ ReleaseMessage
       \/ ProcessNothing \/ Pop \/ NoPool \/ Drain
       \/ \E frames \in FrameCounts, ok \in BOOLEAN : Process(frames, ok)
       \/ SendOutput \/ NoMoreOutput \/ FinishWithoutOutput \/ EndOfProcess

Next == Client \/ Looper

Spec == Init /\ [][Next]_vars
-----------------------------------------------------------------------------
Message == {"process", "init", "start", "stop", "reset", "release"}
Info == [work : Works, frames : Nat]
CurSet == [pc : {"idle", "popped", "ring", "eos", "tail"}, work : {0} \cup Works,
           generation : Nat, hasQueuedWork : BOOLEAN, eos : BOOLEAN, processed : BOOLEAN]
CodecSet == [infos : Seq(Info), ring : 0..RingFrames, compensated : 0..OutputDelay,
             mSignalledError : BOOLEAN, library : BOOLEAN, handle : {"none", "open", "closed"},
             config : BOOLEAN, mSetUp : BOOLEAN, raw : BOOLEAN, reopens : BOOLEAN,
             undefined : BOOLEAN]

\* Every variable has its type: the samples stay within the ring buffer.
TypeOK ==
    /\ decoder \in Decoders
    /\ mState \in {"UNINITIALIZED", "STOPPED", "RUNNING"}
    /\ mRunning \in BOOLEAN
    /\ msgs \in Seq(Message)
    /\ cur \in CurSet
    /\ loc \in [Works -> Loc]
    /\ mQueue \in Seq([work : {0} \cup Works, drainMode : DrainMode \cup {"none"}])
    /\ mFlush \in BOOLEAN
    /\ mGeneration \in Nat
    /\ pool \in BOOLEAN
    /\ codec \in CodecSet
    /\ feeder \in {"idle", "post"}
    /\ ctl \in {"idle", "initializing", "initialized", "initFailed", "stopping",
                "resetting", "releasing", "released"}
    /\ calls \in [Call -> Nat]

\* The looper runs, a call goes on, and processing a work ends.
Fairness ==
    WF_vars(Looper) /\ WF_vars(Client /\ PostProcess) /\ WF_vars(Client /\ InitReturn)
FairSpec == Spec /\ Fairness
-----------------------------------------------------------------------------
\* No session was ended and nothing failed: stop() and reset() drop works, an error
\* keeps the AAC decoder from giving out what it has.
Undisturbed ==
    /\ \A c \in {"stop", "reset", "decodeError", "poolError"} : calls[c] = 0
    /\ ~codec.mSignalledError

\* mBuffersInfo, which only the looper sees, and mPendingWork, which flush_sm()
\* empties, name the same works as soon as the looper knows of the flush: finish()
\* finds each of them, and no pending work is forgotten by the decoder.
InfosMatchPending ==
    decoder = "AAC" /\ Undisturbed /\ ~mFlush /\ cur.pc = "idle" =>
        {codec.infos[i].work : i \in 1..Len(codec.infos)} = In("pending")

\* When a work with EOS is reported, no earlier work is left in the component.
EosReportedLast ==
    Undisturbed =>
        \A e \in EosWorks : loc[e] = "done" => \A w \in 1..e : loc[w] \notin Held

\* Whatever the order of start(), flush_sm(), stop(), reset(), works and release():
\* a decoder finds its configuration, its library and an open codec where it uses
\* them, unless a set-up failed before (the next one, or a DTS:X frame, uses what
\* is gone) or FFmpeg was reset with a format that is not opened again.
OnlyUsesWhatIsThere ==
    codec.undefined =>
        \/ calls["initError"] > 0
        \/ decoder = "FFMPEG" /\ ~codec.reopens /\ calls["reset"] > 0

CallsReturn ==
    ctl \in {"initializing", "stopping", "resetting"} ~> ctl = "idle" \/ codec.undefined

WorksComeBack ==
    \A e \in EosWorks : \A w \in 1..e :
        loc[e] \in Held /\ loc[w] \in Held ~>
            loc[w] \in Returned \/ ~Undisturbed \/ ctl # "idle" \/ codec.undefined

\* start(), stop() and reset() return, and a client that queues its last work with
\* EOS gets every work back: an entry of mWorkQueue is never left without a message.
Progress == CallsReturn /\ WorksComeBack
=============================================================================
