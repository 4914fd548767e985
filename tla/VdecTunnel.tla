----------------------------- MODULE VdecTunnel -----------------------------
(***************************************************************************)
(* Tunnel mode of the hardware video decoder: pictures do not go to the    *)
(* client but to the video tunnel renderer, which names a buffer by its    *)
(* file descriptor, tells the media time of each frame it shows and gives  *)
(* the buffers back.  A work is reported when its frame was shown.         *)
(*                                                                         *)
(* Four parties take part: mThread, which runs the tasks of mTaskQueue in  *)
(* their order; the decoder; the renderer; and the client.  One session is *)
(* modelled, from start() to stop(): TunnelHelper::stop() drops the        *)
(* renderer, which only a new configuration makes again.                   *)
(*                                                                         *)
(* Of the decoder and the renderer, which are not part of the source, it   *)
(* is assumed that the input of a work is given back before its picture,   *)
(* that other buffers are asked for only when those asked for before were  *)
(* given, that a frame is kept until the next one is shown, and that a     *)
(* flush gives the frames back that were not shown.                        *)
(*                                                                         *)
(* An operator with a suffix, as Dropped_Silent, is the operator named     *)
(* before the suffix with a plausible bug in it: the properties are tested *)
(* by putting it in the place of the correct one.                          *)
(***************************************************************************)
EXTENDS Integers, Sequences, FiniteSets

CONSTANTS
    NumWorks,     \* works a client may queue
    DefaultNum,   \* getDefaultMaxBufNum(): buffers of the first format at least
    Sessions      \* what may happen in a behaviour: one of these

\* frame: decoded and shown; error: an error frame; drop: its picture is not
\* wanted (FLAG_DROP_FRAME); eos, eosFrame: the end of the stream, without and
\* with a picture.
Kind == {"frame", "error", "drop", "eos", "eosFrame"}
Ends == {"eos", "eosFrame"}

Works == 1..NumWorks
Format == [size : Nat, num : Nat \ {0}]
NoFormat == [size |-> 0, num |-> 0]

\* mReallocWhenResChange, which H264 sets; the formats that may occur; how many
\* works of which kinds; how often the format changes, the renderer drops a frame,
\* the client flushes.
Session == [realloc : BOOLEAN, formats : SUBSET Format,
            works : Nat, kinds : SUBSET Kind, changes : Nat, drops : Nat, flushes : Nat]

ASSUME NumAssumption == NumWorks \in Nat /\ DefaultNum \in Nat \ {0}
ASSUME SessionAssumption ==
    \A s \in Sessions :
        /\ s.realloc \in BOOLEAN
        /\ \A f \in s.formats : f.size \in Nat /\ f.num \in Nat \ {0}
        /\ s.works \in 0..NumWorks /\ s.kinds \subseteq Kind
        /\ {s.changes, s.drops, s.flushes} \subseteq Nat

VARIABLES
    mComponentState,
    mCompHasError,       \* "none", or where reportError() was called
    mTaskQueue,          \* tasks posted to mThread
    mOutputFormat,
    mOutBufferCount,     \* of TunnelHelper
    mGraphicBlocks,      \* id -> [fd, state] of each block in use
    mOutBufferFdMap,     \* each open descriptor -> id of its block
    mGraphicBufferId,    \* blocks the pool has given, the next id
    mMaxDequeuedBufferNum, \* how many it gives
    mPendingWorks,
    mPendingBuffersToWork, \* pictures of works that are not reported
    mPendingOutputEOS,
    mFlushDoneWithOutEosWork,
    decoder,             \* [blocks, inputs, pictures, asked, draining, resetting]
    renderer,            \* frames it has, in order: [fd, work, shown]
    kind,                \* of each work, once it is queued
    result,              \* how each work came back
    client,              \* [next, ended, flushing, stopped]
    session              \* what may still happen

component == <<mComponentState, mCompHasError>>
buffers == <<mOutputFormat, mOutBufferCount, mGraphicBlocks, mOutBufferFdMap,
             mGraphicBufferId, mMaxDequeuedBufferNum>>
works == <<mPendingWorks, mPendingBuffersToWork, mPendingOutputEOS, result>>
outside == <<decoder, renderer, kind, client, session>>
vars == <<component, mTaskQueue, buffers, works, mFlushDoneWithOutEosWork, outside>>

None == [x \in {} |-> 0]

Init ==
    /\ mComponentState = "STARTED" /\ mCompHasError = "none"
    /\ mTaskQueue = <<>>
    /\ mOutputFormat = NoFormat /\ mOutBufferCount = 0
    /\ mGraphicBlocks = None /\ mOutBufferFdMap = None
    /\ mGraphicBufferId = 0 /\ mMaxDequeuedBufferNum = 0
    /\ mPendingWorks = <<>> /\ mPendingBuffersToWork = <<>>
    /\ mPendingOutputEOS = FALSE /\ mFlushDoneWithOutEosWork = FALSE
    /\ decoder = [blocks |-> {}, inputs |-> <<>>, pictures |-> <<>>, asked |-> FALSE,
                  draining |-> FALSE, resetting |-> FALSE]
    /\ renderer = <<>>
    /\ kind = [w \in Works |-> "frame"] /\ result = [w \in Works |-> "none"]
    /\ client = [next |-> 1, ended |-> FALSE, flushing |-> FALSE, stopped |-> FALSE]
    /\ session \in Sessions
-----------------------------------------------------------------------------
(* The tasks of mThread. *)

Post(task) == mTaskQueue' = Append(mTaskQueue, task)
Queued(type) == \E i \in 1..Len(mTaskQueue) : mTaskQueue[i].type = type

\* After an error, and after the stop, tasks do nothing.
Alive == mComponentState # "UNINITIALIZED" /\ mCompHasError = "none"

Take(type) ==
    /\ Alive
    /\ mTaskQueue # <<>> /\ Head(mTaskQueue).type = type
    /\ mTaskQueue' = Tail(mTaskQueue)

Skip ==
    /\ ~Alive
    /\ mTaskQueue # <<>> /\ mTaskQueue' = Tail(mTaskQueue)
    /\ UNCHANGED <<component, buffers, works, mFlushDoneWithOutEosWork, outside>>

reportError(where) == mCompHasError' = where

Members(s) == {s[i] : i \in 1..Len(s)}
Without(s, x) == SelectSeq(s, LAMBDA y : y # x)

(* Buffers. *)

With(bs, state) == {id \in DOMAIN bs : bs[id].state = state}
getGraphicBlockByFd(bs, fd) == {id \in DOMAIN bs : bs[id].fd = fd}

FreeFd_Counts(open, i) == -1

\* dup() gives the least number that is free: here the i-th of those, from 0.
FreeFd(open, i) ==
    CHOOSE fd \in 0..Cardinality(open) + i :
        fd \notin open /\ Cardinality((0..fd - 1) \ open) = i

Joined(f, g) == [x \in DOMAIN f \cup DOMAIN g |-> IF x \in DOMAIN f THEN f[x] ELSE g[x]]

\* allocTunnelBuffer(), n times, with a pool that has given `given` of `limit`.
allocTunnelBuffer(bs, map, given, limit, n) ==
    LET more == IF given + n <= limit THEN n ELSE IF given < limit THEN limit - given ELSE 0
        ids == given..given + more - 1
        fd == [id \in ids |-> FreeFd(DOMAIN map, id - given)]
    IN  [blocks |-> Joined(bs, [id \in ids |-> [fd |-> fd[id], state |-> "COMPONENT"]]),
         map |-> Joined(map, [f \in {fd[id] : id \in ids} |-> CHOOSE id \in ids : fd[id] = f]),
         given |-> given + more,
         new |-> ids]

\* sendOutputBufferToAccelerator() of each of ids.
Sent(bs, ids) ==
    [id \in DOMAIN bs |-> IF id \in ids THEN [bs[id] EXCEPT !.state = "ACCELERATOR"] ELSE bs[id]]

\* What an allocation leaves, its new blocks sent to the decoder.
AllocatedAndSent(a, ids) ==
    /\ mGraphicBlocks' = Sent(a.blocks, ids)
    /\ mOutBufferFdMap' = a.map
    /\ mGraphicBufferId' = a.given

Larger(a, b) == IF a > b THEN a ELSE b

\* allocTunnelBuffersAndSendToDecoder() of the first format: the first buffer is
\* allocated at once, each of the others by a task of its own.
allocTunnelBuffersAndSendToDecoder(fmt) ==
    LET count == Larger(DefaultNum, fmt.num)
        a == allocTunnelBuffer(None, None, 0, count, 1)
    IN  /\ mOutBufferCount' = count
        /\ mOutputFormat' = [fmt EXCEPT !.num = count]
        /\ mMaxDequeuedBufferNum' = count
        /\ AllocatedAndSent(a, a.new)
        /\ decoder' = [decoder EXCEPT !.asked = FALSE, !.blocks = a.new]
        /\ mTaskQueue' = Append(Tail(mTaskQueue), [type |-> "alloc", index |-> 1])

\* The ladder of tasks ends at the number of buffers, or where the pool does.
allocTunnelBufferAndSendToDecoder ==
    LET index == Head(mTaskQueue).index
        a == allocTunnelBuffer(mGraphicBlocks, mOutBufferFdMap, mGraphicBufferId,
                               mMaxDequeuedBufferNum, 1)
    IN  /\ Alive /\ mTaskQueue # <<>> /\ Head(mTaskQueue).type = "alloc"
        /\ IF index < mOutBufferCount /\ a.new # {}
           THEN /\ AllocatedAndSent(a, a.new)
                /\ decoder' = [decoder EXCEPT !.blocks = @ \cup a.new]
                /\ mTaskQueue' = Append(Tail(mTaskQueue), [type |-> "alloc", index |-> index + 1])
           ELSE /\ mTaskQueue' = Tail(mTaskQueue)
                /\ UNCHANGED <<mGraphicBlocks, mOutBufferFdMap, mGraphicBufferId, decoder>>
        /\ UNCHANGED <<component, mOutputFormat, mOutBufferCount, mMaxDequeuedBufferNum, works,
                       mFlushDoneWithOutEosWork, renderer, kind, client, session>>

\* All but the buffers the renderer has: they stay open, and are replaced when
\* they come back.
Replaced(bs) == DOMAIN bs \ With(bs, "TUNNELRENDER")

Enlarged_None(fmt) == 0

Enlarged(fmt) == IF fmt.num > mOutputFormat.num THEN fmt.num - mOutputFormat.num ELSE 0

\* The other buffers are allocated anew.
ReallocAll(bs, fmt) ==
    LET gone == Replaced(bs)
        closed == {bs[id].fd : id \in gone}
        open == [fd \in DOMAIN mOutBufferFdMap \ closed |-> mOutBufferFdMap[fd]]
        count == IF fmt.num > mOutputFormat.num THEN fmt.num ELSE mOutBufferCount
        a == allocTunnelBuffer(None, open, 0, count, Cardinality(gone) + Enlarged(fmt))
    IN  /\ mOutBufferCount' = count
        /\ AllocatedAndSent(a, a.new)
        /\ decoder' = [decoder EXCEPT !.asked = FALSE, !.blocks = a.new]

\* The blocks stay; more are allocated before the pool is told that it may give more.
KeepBlocks(bs, fmt) ==
    LET a == allocTunnelBuffer(bs, mOutBufferFdMap, mGraphicBufferId, mMaxDequeuedBufferNum,
                               Enlarged(fmt))
        own == With(a.blocks, "COMPONENT")
    IN  /\ mOutBufferCount' = IF fmt.num > mOutputFormat.num THEN fmt.num ELSE mOutBufferCount
        /\ AllocatedAndSent(a, own)
        /\ decoder' = [decoder EXCEPT !.asked = FALSE, !.blocks = own]

videoResolutionChangeTunnel(bs, fmt) ==
    /\ IF session.realloc /\ fmt.size # mOutputFormat.size
       THEN ReallocAll(bs, fmt) ELSE KeepBlocks(bs, fmt)
    /\ mMaxDequeuedBufferNum' = mOutBufferCount'
    /\ mOutputFormat' = fmt
    /\ mTaskQueue' = Tail(mTaskQueue)

\* onOutputFormatChanged() and tryChangeOutputFormat(), which here waits for nothing.
onOutputFormatChanged ==
    /\ Alive /\ mTaskQueue # <<>> /\ Head(mTaskQueue).type = "format"
    /\ LET own == [id \in DOMAIN mGraphicBlocks |->
                      IF mGraphicBlocks[id].state = "ACCELERATOR"
                      THEN [mGraphicBlocks[id] EXCEPT !.state = "COMPONENT"]
                      ELSE mGraphicBlocks[id]]
       IN  IF mOutputFormat = NoFormat
           THEN allocTunnelBuffersAndSendToDecoder(Head(mTaskQueue).fmt)
           ELSE videoResolutionChangeTunnel(own, Head(mTaskQueue).fmt)
    /\ UNCHANGED <<component, works, mFlushDoneWithOutEosWork, renderer, kind, client, session>>
-----------------------------------------------------------------------------
(* Works and their pictures. *)

\* reportEOSWork(): the last pending work is the end, those before are abandoned.
reportEOSWork(pending, res) ==
    LET last == pending[Len(pending)]
    IN  /\ mPendingWorks' = <<>>
        /\ mPendingOutputEOS' = FALSE
        /\ result' = [w \in Works |-> IF w = last THEN "eos"
                                      ELSE IF w \in Members(pending) THEN "notFound" ELSE res[w]]

\* sendOutputBufferToWorkTunnel() of the frame of work w.  The work that keeps the
\* end of the stream is reported as the end, once it is the only one.
sendOutputBufferToWorkTunnel(w) ==
    LET entries == {p \in Members(mPendingBuffersToWork) : p.work = w}
        isWorkDone == ~(mPendingOutputEOS /\ Len(mPendingWorks) = 1)
        pending == IF isWorkDone THEN Without(mPendingWorks, w) ELSE mPendingWorks
        res == IF isWorkDone THEN [result EXCEPT ![w] = "done"] ELSE result
    IN  \/ /\ mPendingBuffersToWork = <<>> \/ mPendingWorks = <<>>
           /\ UNCHANGED <<mCompHasError, works>>
        \/ /\ mPendingBuffersToWork # <<>> /\ mPendingWorks # <<>> /\ entries = {}
           /\ reportError("endOfPending")
           /\ UNCHANGED works
        \/ /\ mPendingWorks # <<>> /\ entries # {}
           /\ mPendingBuffersToWork' =
                  SelectSeq(mPendingBuffersToWork, LAMBDA p : p \notin entries)
           /\ IF w \notin Members(mPendingWorks)
              THEN UNCHANGED <<mPendingWorks, mPendingOutputEOS, result>>
              ELSE IF Len(pending) = 1 /\ mPendingOutputEOS
              THEN reportEOSWork(pending, res)
              ELSE mPendingWorks' = pending /\ result' = res /\ UNCHANGED mPendingOutputEOS
           /\ UNCHANGED mCompHasError

onNotifyRenderTimeTunnel ==
    /\ Take("time")
    /\ sendOutputBufferToWorkTunnel(Head(mTaskQueue).work)
    /\ UNCHANGED <<mComponentState, buffers, mFlushDoneWithOutEosWork, outside>>

\* onQueueWork() and onDequeueWork(), which follows at once as the client queues
\* nothing behind the end.  After a flush onReusedOutBuf() gives the decoder its
\* blocks again.
onQueueWork ==
    LET w == Head(mTaskQueue).work
        again == IF mFlushDoneWithOutEosWork THEN With(mGraphicBlocks, "ACCELERATOR") ELSE {}
    IN  /\ Take("queue")
        /\ mFlushDoneWithOutEosWork' = FALSE
        /\ mPendingWorks' = Append(mPendingWorks, w)
        /\ IF kind[w] \in Ends
           THEN mComponentState' = "DRAINING" /\ mPendingOutputEOS' = TRUE
           ELSE UNCHANGED <<mComponentState, mPendingOutputEOS>>
        /\ decoder' = [decoder EXCEPT !.blocks = @ \cup again,
                           !.draining = @ \/ kind[w] \in Ends,
                           !.inputs = IF kind[w] = "eos" THEN @ ELSE Append(@, w)]
        /\ UNCHANGED <<mCompHasError, buffers, mPendingBuffersToWork, result, renderer, kind,
                       client, session>>

\* fastHandleWorkTunnel() reports a work whose picture is not wanted.
onInputBufferDone ==
    LET w == Head(mTaskQueue).work
    IN  /\ Take("inputDone")
        /\ IF w \notin Members(mPendingWorks)
           THEN reportError("unknownInput") /\ UNCHANGED <<mPendingWorks, result>>
           ELSE /\ UNCHANGED mCompHasError
                /\ IF kind[w] = "drop"
                   THEN mPendingWorks' = Without(mPendingWorks, w) /\ result' = [result EXCEPT ![w] = "done"]
                   ELSE UNCHANGED <<mPendingWorks, result>>
        /\ UNCHANGED <<mComponentState, buffers, mPendingBuffersToWork, mPendingOutputEOS,
                       mFlushDoneWithOutEosWork, outside>>

\* A frame goes to the renderer.
onOutputBufferDone ==
    LET task == Head(mTaskQueue)
    IN  /\ Take("done")
        /\ mComponentState # "FLUSHING" /\ task.id \in DOMAIN mGraphicBlocks
        /\ task.work \in Members(mPendingWorks) /\ kind[task.work] \notin {"error", "drop"}
        /\ mGraphicBlocks' = [mGraphicBlocks EXCEPT ![task.id].state = "TUNNELRENDER"]
        /\ mPendingBuffersToWork' = Append(mPendingBuffersToWork, [work |-> task.work, id |-> task.id])
        /\ renderer' = Append(renderer, [fd |-> mGraphicBlocks[task.id].fd, work |-> task.work,
                                         shown |-> FALSE])
        /\ UNCHANGED <<component, mOutputFormat, mOutBufferCount, mOutBufferFdMap, mGraphicBufferId,
                       mMaxDequeuedBufferNum, mPendingWorks, mPendingOutputEOS, result,
                       mFlushDoneWithOutEosWork, decoder, kind, client, session>>

\* fastHandleOutBufferTunnel() reports the work of an error frame; it, and a
\* picture whose work is reported already, give the block back to the decoder.
FastOutputBufferDone ==
    LET task == Head(mTaskQueue)
    IN  /\ Take("done")
        /\ mComponentState # "FLUSHING" /\ task.id \in DOMAIN mGraphicBlocks
        /\ task.work \in Members(mPendingWorks) => kind[task.work] \in {"error", "drop"}
        /\ IF task.work \in Members(mPendingWorks)
           THEN /\ mPendingWorks' = Without(mPendingWorks, task.work)
                /\ result' = [result EXCEPT ![task.work] = "done"]
           ELSE UNCHANGED <<mPendingWorks, result>>
        /\ mGraphicBlocks' = Sent(mGraphicBlocks, {task.id})
        /\ decoder' = [decoder EXCEPT !.blocks = @ \cup {task.id}]
        /\ UNCHANGED <<component, mOutputFormat, mOutBufferCount, mOutBufferFdMap, mGraphicBufferId,
                       mMaxDequeuedBufferNum, mPendingBuffersToWork, mPendingOutputEOS,
                       mFlushDoneWithOutEosWork, renderer, kind, client, session>>

\* While flushing a picture is dropped; of a block nobody knows it is an error.
DropPicture ==
    LET task == Head(mTaskQueue)
    IN  /\ Take("done")
        /\ \/ mComponentState = "FLUSHING" /\ UNCHANGED mCompHasError
           \/ /\ mComponentState # "FLUSHING" /\ task.id \notin DOMAIN mGraphicBlocks
              /\ reportError("unknownPicture")
        /\ UNCHANGED <<mComponentState, buffers, works, mFlushDoneWithOutEosWork, outside>>

\* In tunnel mode the end of the drain reports nothing, unless the client stops.
onDrainDone ==
    /\ Take("drainDone")
    /\ CASE mComponentState = "DRAINING" ->
                mComponentState' = "STARTED" /\ UNCHANGED <<mCompHasError, works>>
         [] mComponentState = "STOPPING" ->
                /\ IF mPendingOutputEOS /\ mPendingWorks # <<>>
                   THEN reportEOSWork(mPendingWorks, result)
                   ELSE UNCHANGED <<mPendingWorks, mPendingOutputEOS, result>>
                /\ IF mPendingOutputEOS /\ mPendingWorks = <<>>
                   THEN reportError("noEosWork") ELSE UNCHANGED mCompHasError
                /\ UNCHANGED <<mComponentState, mPendingBuffersToWork>>
         [] mComponentState = "FLUSHING" -> UNCHANGED <<component, works>>
         [] OTHER -> reportError("drainDone") /\ UNCHANGED <<mComponentState, works>>
    /\ UNCHANGED <<buffers, mFlushDoneWithOutEosWork, outside>>
-----------------------------------------------------------------------------
(* Buffers that come back from the renderer: onFillVideoFrameTunnel2(). *)

\* Fewer blocks than wanted: some buffers of before the change are not back.
isInResolutionChanging == Cardinality(DOMAIN mGraphicBlocks) < mOutBufferCount

\* The descriptor is not that of the block with the id it was given for.
Stale(fd) ==
    isInResolutionChanging /\ fd \in DOMAIN mOutBufferFdMap
    /\ getGraphicBlockByFd(mGraphicBlocks, fd) # {mOutBufferFdMap[fd]}

\* One buffer of before the change is closed and a new one allocated.
FillStale ==
    LET fd == Head(mTaskQueue).fd
        map == [f \in DOMAIN mOutBufferFdMap \ {fd} |-> mOutBufferFdMap[f]]
        a == allocTunnelBuffer(mGraphicBlocks, map, mGraphicBufferId, mMaxDequeuedBufferNum, 1)
    IN  /\ Take("fill") /\ Stale(fd)
        /\ AllocatedAndSent(a, a.new)
        /\ decoder' = [decoder EXCEPT !.blocks = @ \cup a.new]
        /\ UNCHANGED <<component, mOutputFormat, mOutBufferCount, mMaxDequeuedBufferNum, works,
                       mFlushDoneWithOutEosWork, renderer, kind, client, session>>

Dropped_Silent(task, id) == {}

\* The frame that was dropped, as no render time will come for it.
Dropped(task, id) == {p \in Members(mPendingBuffersToWork) : p.id = id /\ ~task.rendered}

First(entries) ==
    LET i == CHOOSE i \in 1..Len(mPendingBuffersToWork) :
                 /\ mPendingBuffersToWork[i] \in entries
                 /\ \A j \in 1..i - 1 : mPendingBuffersToWork[j] \notin entries
    IN  mPendingBuffersToWork[i]

\* The decoder gets the block again, and the work of a frame that was dropped is
\* reported.  A descriptor that nobody knows is an error.
FillCurrent ==
    LET task == Head(mTaskQueue)
        ids == getGraphicBlockByFd(mGraphicBlocks, task.fd)
        known == ids # {} /\ (isInResolutionChanging => task.fd \in DOMAIN mOutBufferFdMap)
        dropped == UNION {Dropped(task, id) : id \in ids}
    IN  /\ Take("fill") /\ ~Stale(task.fd)
        /\ IF known
           THEN /\ mGraphicBlocks' = Sent(mGraphicBlocks, ids)
                /\ decoder' = [decoder EXCEPT !.blocks = @ \cup ids]
                /\ IF dropped = {} THEN UNCHANGED <<mCompHasError, works>>
                   ELSE sendOutputBufferToWorkTunnel(First(dropped).work)
           ELSE reportError("unknownFd") /\ UNCHANGED <<mGraphicBlocks, decoder, works>>
        /\ UNCHANGED <<mComponentState, mOutputFormat, mOutBufferCount, mOutBufferFdMap,
                       mGraphicBufferId, mMaxDequeuedBufferNum, mFlushDoneWithOutEosWork,
                       renderer, kind, client, session>>
-----------------------------------------------------------------------------
(* Flush and stop. *)

Unshown(frames) == SelectSeq(frames, LAMBDA f : ~f.shown)

\* The renderer gives the frames back that were not shown.
onFlush ==
    LET back == Unshown(renderer)
    IN  /\ Alive /\ mTaskQueue # <<>> /\ Head(mTaskQueue).type = "flush"
        /\ mComponentState' = "FLUSHING"
        /\ decoder' = [decoder EXCEPT !.blocks = {}, !.inputs = <<>>, !.pictures = <<>>,
                           !.draining = FALSE, !.resetting = TRUE]
        /\ renderer' = SelectSeq(renderer, LAMBDA f : f.shown)
        /\ mTaskQueue' = Tail(mTaskQueue) \o
               [i \in 1..Len(back) |-> [type |-> "fill", fd |-> back[i].fd, rendered |-> FALSE]]
        /\ UNCHANGED <<mCompHasError, buffers, works, mFlushDoneWithOutEosWork, kind, client, session>>

Abandoned == [w \in Works |-> IF w \in Members(mPendingWorks) THEN "notFound" ELSE result[w]]

\* onFlushDone() goes on to the next picture without removing one whose block is
\* unknown: it would never end.  mPendingOutputEOS stays.
onFlushDone ==
    /\ Take("resetDone") /\ mComponentState = "FLUSHING"
    /\ IF \A p \in Members(mPendingBuffersToWork) : p.id \in DOMAIN mGraphicBlocks
       THEN /\ mComponentState' = "STARTED" /\ mPendingBuffersToWork' = <<>>
            /\ UNCHANGED mCompHasError
       ELSE reportError("endlessLoop") /\ UNCHANGED <<mComponentState, mPendingBuffersToWork>>
    /\ mPendingWorks' = <<>> /\ result' = Abandoned
    /\ UNCHANGED <<buffers, mPendingOutputEOS, mFlushDoneWithOutEosWork, outside>>

onStop ==
    /\ Take("stop")
    /\ mComponentState' = "STOPPING"
    /\ decoder' = [decoder EXCEPT !.inputs = <<>>, !.pictures = <<>>, !.resetting = TRUE]
    /\ UNCHANGED <<mCompHasError, buffers, works, mFlushDoneWithOutEosWork, renderer, kind,
                   client, session>>

\* TunnelHelper::stop() closes all descriptors and stops the renderer.
onStopDone ==
    /\ Take("resetDone") /\ mComponentState = "STOPPING"
    /\ mComponentState' = "UNINITIALIZED"
    /\ mGraphicBlocks' = None /\ mOutBufferFdMap' = None
    /\ mPendingWorks' = <<>> /\ mPendingBuffersToWork' = <<>> /\ mPendingOutputEOS' = FALSE
    /\ result' = Abandoned
    /\ decoder' = [decoder EXCEPT !.blocks = {}, !.draining = FALSE]
    /\ renderer' = <<>>
    /\ UNCHANGED <<mCompHasError, mOutputFormat, mOutBufferCount, mGraphicBufferId,
                   mMaxDequeuedBufferNum, mFlushDoneWithOutEosWork, kind, client, session>>
-----------------------------------------------------------------------------
(* The decoder, the renderer and the client. *)

ofDecoder == <<component, buffers, works, mFlushDoneWithOutEosWork, renderer, kind, client>>

\* The decoder is at work: it is not in a reset or a change.
Decoding == ~decoder.asked /\ ~decoder.resetting

\* A picture may or may not come of a work whose picture is not wanted.
NotifyEndOfBitstreamBuffer ==
    /\ Decoding /\ decoder.inputs # <<>>
    /\ LET w == Head(decoder.inputs)
       IN  /\ Post([type |-> "inputDone", work |-> w])
           /\ \/ decoder' = [decoder EXCEPT !.inputs = Tail(@), !.pictures = Append(@, w)]
              \/ kind[w] = "drop" /\ decoder' = [decoder EXCEPT !.inputs = Tail(@)]
    /\ UNCHANGED <<ofDecoder, session>>

\* ProvidePictureBuffers(): the number of buffers never goes down.
AskForBuffers(fmt) ==
    /\ Decoding /\ decoder.pictures # <<>> /\ ~Queued("alloc")
    /\ Post([type |-> "format", fmt |-> [fmt EXCEPT !.num = Larger(@, mOutputFormat.num)]])
    /\ decoder' = [decoder EXCEPT !.asked = TRUE, !.blocks = {}]
    /\ UNCHANGED ofDecoder

AskFirst ==
    /\ mOutputFormat = NoFormat
    /\ \E fmt \in session.formats : AskForBuffers(fmt)
    /\ UNCHANGED session

AskAgain ==
    /\ mOutputFormat # NoFormat
    /\ session.changes > 0 /\ session' = [session EXCEPT !.changes = @ - 1]
    /\ \E fmt \in session.formats : AskForBuffers(fmt)

PictureReady ==
    /\ Decoding /\ decoder.pictures # <<>>
    /\ \E id \in decoder.blocks :
        /\ Post([type |-> "done", id |-> id, work |-> Head(decoder.pictures)])
        /\ decoder' = [decoder EXCEPT !.blocks = @ \ {id}, !.pictures = Tail(@)]
    /\ UNCHANGED <<ofDecoder, session>>

NotifyFlushDone ==
    /\ Decoding /\ decoder.draining /\ decoder.inputs = <<>> /\ decoder.pictures = <<>>
    /\ Post([type |-> "drainDone"])
    /\ decoder' = [decoder EXCEPT !.draining = FALSE]
    /\ UNCHANGED <<ofDecoder, session>>

NotifyFlushOrStopDone ==
    /\ decoder.resetting
    /\ Post([type |-> "resetDone"])
    /\ decoder' = [decoder EXCEPT !.resetting = FALSE]
    /\ UNCHANGED <<ofDecoder, session>>

ofRenderer == <<component, buffers, works, mFlushDoneWithOutEosWork, decoder, kind, client>>

FirstUnshown(i) == ~renderer[i].shown /\ \A j \in 1..i - 1 : renderer[j].shown

\* A frame is shown: the renderer tells its time.
Show ==
    /\ \E i \in 1..Len(renderer) :
        /\ FirstUnshown(i)
        /\ Post([type |-> "time", work |-> renderer[i].work])
        /\ renderer' = [renderer EXCEPT ![i].shown = TRUE]
    /\ UNCHANGED <<ofRenderer, session>>

\* A frame that comes too late is given back without being shown.
Drop ==
    /\ session.drops > 0 /\ session' = [session EXCEPT !.drops = @ - 1]
    /\ \E i \in 1..Len(renderer) :
        /\ FirstUnshown(i)
        /\ Post([type |-> "fill", fd |-> renderer[i].fd, rendered |-> FALSE])
        /\ renderer' = SubSeq(renderer, 1, i - 1) \o SubSeq(renderer, i + 1, Len(renderer))
    /\ UNCHANGED ofRenderer

\* The next frame is shown: the one before is given back.
Release ==
    /\ Len(renderer) >= 2 /\ renderer[2].shown
    /\ Post([type |-> "fill", fd |-> renderer[1].fd, rendered |-> TRUE])
    /\ renderer' = Tail(renderer)
    /\ UNCHANGED <<ofRenderer, session>>

ofClient == <<component, buffers, works, decoder, renderer>>
MayCall == Alive /\ ~client.flushing /\ ~client.stopped

queue_nb ==
    /\ MayCall /\ client.next <= session.works /\ ~client.ended
    /\ \E k \in session.kinds :
        /\ kind' = [kind EXCEPT ![client.next] = k]
        /\ client' = [client EXCEPT !.next = @ + 1, !.ended = k \in Ends]
    /\ Post([type |-> "queue", work |-> client.next])
    /\ UNCHANGED <<ofClient, mFlushDoneWithOutEosWork, session>>

flush_sm ==
    /\ MayCall
    /\ session.flushes > 0 /\ session' = [session EXCEPT !.flushes = @ - 1]
    /\ Post([type |-> "flush"])
    /\ client' = [client EXCEPT !.flushing = TRUE, !.ended = FALSE]
    /\ UNCHANGED <<ofClient, mFlushDoneWithOutEosWork, kind>>

FlushReturn ==
    /\ client.flushing /\ Alive /\ mComponentState # "FLUSHING" /\ ~Queued("flush")
    /\ client' = [client EXCEPT !.flushing = FALSE]
    /\ mFlushDoneWithOutEosWork' = TRUE
    /\ UNCHANGED <<ofClient, mTaskQueue, kind, session>>

stop ==
    /\ MayCall
    /\ Post([type |-> "stop"])
    /\ client' = [client EXCEPT !.stopped = TRUE]
    /\ UNCHANGED <<ofClient, mFlushDoneWithOutEosWork, kind, session>>
-----------------------------------------------------------------------------
MainThread ==
    \/ Skip \/ onOutputFormatChanged \/ allocTunnelBufferAndSendToDecoder
    \/ onNotifyRenderTimeTunnel \/ onQueueWork \/ onInputBufferDone
    \/ onOutputBufferDone \/ FastOutputBufferDone \/ DropPicture \/ onDrainDone
    \/ FillStale \/ FillCurrent
    \/ onFlush \/ onFlushDone \/ onStop \/ onStopDone

Decoder ==
    NotifyEndOfBitstreamBuffer \/ AskFirst \/ PictureReady \/ NotifyFlushDone \/ NotifyFlushOrStopDone

Renderer == Show \/ Release

Next == MainThread \/ Decoder \/ AskAgain \/ Renderer \/ Drop
        \/ queue_nb \/ flush_sm \/ FlushReturn \/ stop

Spec == Init /\ [][Next]_vars

FairSpec ==
    /\ Spec
    /\ WF_vars(MainThread)
    /\ WF_vars(NotifyEndOfBitstreamBuffer) /\ WF_vars(AskFirst) /\ WF_vars(PictureReady)
    /\ WF_vars(NotifyFlushDone) /\ WF_vars(NotifyFlushOrStopDone)
    /\ WF_vars(Show) /\ WF_vars(Release)
    /\ WF_vars(FlushReturn)
-----------------------------------------------------------------------------
(* Properties. *)

Task ==
    [type : {"flush", "resetDone", "drainDone", "stop"}]
    \cup [type : {"queue", "inputDone", "time"}, work : Works]
    \cup [type : {"done"}, work : Works, id : Nat]
    \cup [type : {"format"}, fmt : Format]
    \cup [type : {"alloc"}, index : Nat]
    \cup [type : {"fill"}, fd : Nat, rendered : BOOLEAN]

\* The values the variables take.
TypeOK ==
    /\ mComponentState \in {"STARTED", "DRAINING", "FLUSHING", "STOPPING", "UNINITIALIZED"}
    /\ mTaskQueue \in Seq(Task)
    /\ mOutputFormat \in Format \cup {NoFormat}
    /\ {mOutBufferCount, mGraphicBufferId, mMaxDequeuedBufferNum} \subseteq Nat
    /\ \A id \in DOMAIN mGraphicBlocks : id \in Nat /\ mGraphicBlocks[id] \in
           [fd : Nat, state : {"COMPONENT", "ACCELERATOR", "TUNNELRENDER"}]
    /\ \A fd \in DOMAIN mOutBufferFdMap : fd \in Nat /\ mOutBufferFdMap[fd] \in Nat
    /\ mPendingWorks \in Seq(Works)
    /\ mPendingBuffersToWork \in Seq([work : Works, id : Nat])
    /\ mPendingOutputEOS \in BOOLEAN /\ mFlushDoneWithOutEosWork \in BOOLEAN
    /\ renderer \in Seq([fd : Nat, work : Works, shown : BOOLEAN])
    /\ decoder.blocks \subseteq Nat
    /\ kind \in [Works -> Kind]
    /\ result \in [Works -> {"none", "done", "eos", "notFound"}]

FdsWithRenderer ==
    {renderer[i].fd : i \in 1..Len(renderer)}
    \cup {mTaskQueue[i].fd : i \in {j \in 1..Len(mTaskQueue) : mTaskQueue[j].type = "fill"}}

\* The decoder never has a buffer the renderer has, whatever descriptors were
\* closed and given out again since; nothing comes back that the component does
\* not know (164, 195, 434; C2VdecComponent.cpp 875, 1071, 1648); and once the
\* ladder of the first format is done there are as many buffers as were asked
\* for, counting those the renderer still has from before a change.
BuffersAccounted ==
    /\ mComponentState # "UNINITIALIZED" =>
           \A id \in decoder.blocks : mGraphicBlocks[id].fd \notin FdsWithRenderer
    /\ mCompHasError = "none"
    /\ Alive /\ mOutputFormat # NoFormat /\ ~Queued("alloc") =>
           Cardinality(DOMAIN mGraphicBlocks) + Cardinality(
               {fd \in DOMAIN mOutBufferFdMap : getGraphicBlockByFd(mGraphicBlocks, fd) = {}})
               = mOutBufferCount

\* A work that is not the end of the stream comes back.
FramesComeBack ==
    \A w \in Works :
        w \in Members(mPendingWorks) /\ kind[w] \notin Ends ~> w \notin Members(mPendingWorks)

\* A flush ends ("State will change to STARTED after onFlushDone()", C2VdecComponent.h 254).
FlushEnds == mComponentState = "FLUSHING" ~> mComponentState # "FLUSHING"
=============================================================================
