----------------------------- MODULE VdecBlocks -----------------------------
(***************************************************************************)
(* The output blocks of the hardware video decoder, without tunnel: where  *)
(* each graphic block is while it goes from the block pool to the decoder, *)
(* through the component to the client and back, and what a change of the  *)
(* output format, a flush, the end of the stream and a stop do to it.      *)
(*                                                                         *)
(* Four parties take part: mThread, which runs the tasks of mTaskQueue in  *)
(* their order and owns mGraphicBlocks; the dequeue thread, which fetches  *)
(* blocks from the pool and posts them to mThread; the thread of the       *)
(* decoder, which asks for buffers and delivers pictures; and the client.  *)
(* StopRunDequeueTask() joins the dequeue thread, so a handler of mThread  *)
(* that calls it is enabled only between two fetches.                      *)
(*                                                                         *)
(* Works are left to module C2VdecComponent: a picture carries what became *)
(* of its work instead.  Not modelled: the second picture of one work (the *)
(* clones), a change of the usage of the surface during the first          *)
(* allocation, the forced reset of a flush that takes two seconds.         *)
(*                                                                         *)
(* An operator with a suffix, as IdOf_Unset, is the operator named before  *)
(* the suffix with a plausible bug in it: the properties are tested by     *)
(* putting it in the place of the correct one.                             *)
(***************************************************************************)
EXTENDS Integers, Sequences, FiniteSets

CONSTANTS
    Sizes,        \* coded sizes of the stream
    Nums,         \* numbers of output buffers the decoder may ask for
    Names,        \* graphic buffers of one size the system can give
    FirstBlocks,  \* dequeue_buffer_num: blocks allocated before the first picture
    Pools,        \* which pools: TRUE a surface's buffer queue, FALSE a buffer pool
    mMaxDequeuedBufferNum, \* limit of a buffer pool after requestNewBufferSet()
    Fates,        \* what may become of a picture's work: see Fate
    Budgets       \* how often each call in Call may happen: one of these

Call == {"start", "format", "picture", "eos", "flush"}
\* frame: its work waits for it; error: an error frame; late: its work is flushed.
Fate == {"frame", "error", "late"}

ASSUME SizesAssumption == 0 \notin Sizes
ASSUME NumsAssumption ==
    /\ Nums \subseteq Nat \ {0}
    /\ FirstBlocks \in Nat
    /\ \A n \in Nums : FirstBlocks <= n
    /\ IsFiniteSet(Names) /\ FirstBlocks <= Cardinality(Names)
    /\ mMaxDequeuedBufferNum \in Nat
ASSUME ChoicesAssumption ==
    /\ Pools \subseteq BOOLEAN
    /\ Fates \subseteq Fate
    /\ Budgets \subseteq [Call -> Nat]

\* A graphic buffer; its inode tells it from the others.
Buffer == [size : Sizes, name : Names]
NoBuffer == [size |-> 0, name |-> 0]
Format == [size : Sizes, num : Nums]
NoFormat == [size |-> 0, num |-> 0]
State == {"COMPONENT", "ACCELERATOR", "CLIENT"}

VARIABLES
    mComponentState,
    mCompHasError,       \* "none", or where reportError() was called
    mTaskQueue,          \* tasks posted to mThread
    mUseBufferQueue,
    mOutputFormat, mPendingOutputFormat,
    mBufferFirstAllocated,
    mResolutionChanging, \* set by the decoder's thread, read by the dequeue thread
    mHaveDrainDone, mReportEosWork,
    mHaveFlushDone,      \* mHaveFlushDone and mFlushDoneWithOutEosWork
    mOutputWorkCount,    \* 2 stands for more than one
    mGraphicBlocks,      \* id -> [buf, fd, state, fdSet] of each block in use
    mGraphicBlockStateCount,
    mPendingBuffersToWork,       \* pictures that wait for their work's input
    mFlushDoneBufferOwnedByComp, \* ids of those a flush found there
    mPendingGraphicBlockBuffer,
    mRawGraphicBlockInfo, mGraphicBufferId, \* the pool's blocks, buffer -> id
    mRunTaskLoop, mAllocBufferLoop,
    allocTasks,          \* onAllocBufferTask's in the dequeue thread
    waitTasks,           \* postDelayedAllocTask's that wait for mAllocBufferLoop
    fetching,            \* onAllocBufferTask is inside fetchGraphicBlock()
    decoder,             \* [blocks, asked, fed, resetting]: the hardware's side
    client,              \* buffers the client holds
    flushing,            \* the client is inside flush_sm()
    left                 \* calls that may still happen

component == <<mComponentState, mCompHasError>>
format == <<mUseBufferQueue, mOutputFormat, mPendingOutputFormat, mBufferFirstAllocated>>
flags == <<mHaveDrainDone, mReportEosWork, mHaveFlushDone, mOutputWorkCount>>
blocks == <<mGraphicBlocks, mGraphicBlockStateCount, mPendingBuffersToWork,
            mFlushDoneBufferOwnedByComp, mPendingGraphicBlockBuffer>>
pool == <<mRawGraphicBlockInfo, mGraphicBufferId>>
dequeue == <<mRunTaskLoop, mAllocBufferLoop, allocTasks, waitTasks, fetching>>
outside == <<decoder, client, flushing, left>>
vars == <<component, mTaskQueue, format, mResolutionChanging, flags, blocks, pool, dequeue, outside>>

NoBlocks == [id \in {} |-> 0]

Init ==
    /\ mComponentState = "UNINITIALIZED" /\ mCompHasError = "none"
    /\ mTaskQueue = <<>>
    /\ mUseBufferQueue \in Pools
    /\ mOutputFormat = NoFormat /\ mPendingOutputFormat = NoFormat
    /\ mBufferFirstAllocated = FALSE
    /\ mResolutionChanging = FALSE
    /\ mHaveDrainDone = FALSE /\ mReportEosWork = FALSE /\ mHaveFlushDone = FALSE
    /\ mOutputWorkCount = 0
    /\ mGraphicBlocks = NoBlocks
    /\ mGraphicBlockStateCount = [s \in State |-> 0]
    /\ mPendingBuffersToWork = <<>>
    /\ mFlushDoneBufferOwnedByComp = {}
    /\ mPendingGraphicBlockBuffer = NoBuffer
    /\ mRawGraphicBlockInfo = NoBlocks /\ mGraphicBufferId = 0
    /\ mRunTaskLoop = FALSE /\ mAllocBufferLoop = FALSE
    /\ allocTasks = 0 /\ waitTasks = 0 /\ fetching = FALSE
    /\ decoder = [blocks |-> {}, asked |-> FALSE, fed |-> FALSE, resetting |-> FALSE]
    /\ client = {} /\ flushing = FALSE
    /\ left \in Budgets
-----------------------------------------------------------------------------
(* The tasks of mThread and the blocks they move. *)

Post(task) == mTaskQueue' = Append(mTaskQueue, task)

\* RETURN_ON_UNINITIALIZED_OR_ERROR
Alive == mComponentState # "UNINITIALIZED" /\ mCompHasError = "none"

Take(type) ==
    /\ Alive
    /\ mTaskQueue # <<>> /\ Head(mTaskQueue).type = type
    /\ mTaskQueue' = Tail(mTaskQueue)

Skip ==
    /\ ~Alive
    /\ mTaskQueue # <<>> /\ Head(mTaskQueue).type # "start"
    /\ mTaskQueue' = Tail(mTaskQueue)
    /\ UNCHANGED <<component, format, mResolutionChanging, flags, blocks, pool, dequeue, outside>>

reportError(where) == mCompHasError' = where

With(bs, state) == {id \in DOMAIN bs : bs[id].state = state}

\* GraphicBlockStateChange, -Init and -Reset count what they do to a block.
Counted(before, after) ==
    mGraphicBlockStateCount' = [s \in State |->
        mGraphicBlockStateCount[s] + Cardinality(With(after, s)) - Cardinality(With(before, s))]

Moved(bs, ids, state) ==
    [id \in DOMAIN bs |-> IF id \in ids THEN [bs[id] EXCEPT !.state = state] ELSE bs[id]]

\* sendOutputBufferToAccelerator(info, TRUE) for each of ids: a block that lost
\* its buffer changes hands on paper only.
Sent(bs, ids) ==
    [id \in DOMAIN bs |-> IF id \in ids
        THEN [bs[id] EXCEPT !.state = "ACCELERATOR", !.fdSet = @ \/ bs[id].buf # NoBuffer]
        ELSE bs[id]]
WithBuffer(bs, ids) == {id \in ids \cap DOMAIN bs : bs[id].buf # NoBuffer}

Ids(pictures) == {pictures[i].id : i \in 1..Len(pictures)}

\* sendOutputBufferToWorkIfAny on the blocks bs: pictures go out, in order, as
\* far as the inputs of their works are done; an error frame goes back.
Deliver(bs, held, pictures) ==
    LET n == CHOOSE k \in 0..Len(pictures) :
                 /\ \A i \in 1..k : pictures[i].inputDone
                 /\ k < Len(pictures) => ~pictures[k + 1].inputDone
        out == SubSeq(pictures, 1, n)
        shown == {id \in Ids(out) : \E i \in 1..n : out[i] = [id |-> id, fate |-> "frame", inputDone |-> TRUE]}
        back == Ids(out) \ shown
        sent == Sent(bs, back)
    IN  [blocks |-> [id \in DOMAIN bs |->
             IF id \in shown
             THEN [bs[id] EXCEPT !.state = "CLIENT", !.buf = IF mUseBufferQueue THEN @ ELSE NoBuffer]
             ELSE sent[id]],
         decoder |-> held \cup WithBuffer(bs, back),
         client |-> client \cup {bs[id].buf : id \in shown},
         pictures |-> SubSeq(pictures, n + 1, Len(pictures)),
         mistaken |-> pictures # <<>> /\ bs[pictures[1].id].state = "ACCELERATOR"]

\* What a delivery leaves behind; before is what mGraphicBlockStateCount counts.
Delivered(before, d) ==
    /\ mGraphicBlocks' = d.blocks
    /\ Counted(before, d.blocks)
    /\ mPendingBuffersToWork' = d.pictures
    /\ client' = d.client
    /\ decoder' = [decoder EXCEPT !.blocks = d.decoder]
    /\ reportError(IF d.mistaken THEN "accPending" ELSE "none")
    /\ UNCHANGED mComponentState
-----------------------------------------------------------------------------
(* The dequeue thread: C2VdecDequeueThreadUtil.cpp, C2VdecBlockPoolUtil.cpp *)

\* postDelayedAllocTask(), n times, in a thread that has alloc and wait tasks.
PostAllocTasks(n, alloc, wait, loop) ==
    /\ allocTasks' = IF loop THEN alloc + n ELSE alloc
    /\ waitTasks' = IF loop THEN wait ELSE wait + n

\* StopRunDequeueTask() drops all tasks, StartRunDequeueTask() follows.
RestartDequeue(n) ==
    /\ ~fetching
    /\ mRunTaskLoop' = TRUE /\ mAllocBufferLoop' = TRUE
    /\ PostAllocTasks(n, 0, 0, TRUE)
    /\ UNCHANGED fetching

StopRunDequeueTask ==
    /\ ~fetching
    /\ mRunTaskLoop' = FALSE
    /\ allocTasks' = 0 /\ waitTasks' = 0
    /\ UNCHANGED <<mAllocBufferLoop, fetching>>

\* A task that waits for mAllocBufferLoop finds it set.
WaitOver ==
    /\ mRunTaskLoop /\ mAllocBufferLoop /\ waitTasks > 0
    /\ waitTasks' = waitTasks - 1 /\ allocTasks' = allocTasks + 1
    /\ UNCHANGED <<component, mTaskQueue, format, mResolutionChanging, flags, blocks, pool,
                   mRunTaskLoop, mAllocBufferLoop, fetching, outside>>

\* The task is given up when fetching is stopped; the component counts the
\* blocks that are missing when it starts again.
CancelAllocTask ==
    /\ mRunTaskLoop /\ allocTasks > 0 /\ ~fetching
    /\ ~mAllocBufferLoop \/ mComponentState = "STOPPING"
    /\ allocTasks' = allocTasks - 1
    /\ UNCHANGED <<component, mTaskQueue, format, mResolutionChanging, flags, blocks, pool,
                   mRunTaskLoop, mAllocBufferLoop, waitTasks, fetching, outside>>

\* The first half of onAllocBufferTask(), up to the call of fetchGraphicBlock();
\* while the resolution changes the task only retries.
onAllocBufferTask ==
    /\ mRunTaskLoop /\ allocTasks > 0 /\ ~fetching
    /\ mAllocBufferLoop /\ mComponentState # "STOPPING"
    /\ ~mResolutionChanging
    /\ allocTasks' = allocTasks - 1 /\ fetching' = TRUE
    /\ UNCHANGED <<component, mTaskQueue, format, mResolutionChanging, flags, blocks, pool,
                   mRunTaskLoop, mAllocBufferLoop, waitTasks, outside>>

\* Buffers a block in use, a posted task or, of a surface, the pool's own
\* pointer keeps from being given out again.
InUse ==
    {mGraphicBlocks[id].buf : id \in {i \in DOMAIN mGraphicBlocks : mGraphicBlocks[i].state # "CLIENT"}}
    \cup {mTaskQueue[i].buf : i \in {j \in 1..Len(mTaskQueue) : mTaskQueue[j].type \in {"returned", "fetched"}}}
    \cup {mPendingGraphicBlockBuffer}
    \cup {b \in DOMAIN mRawGraphicBlockInfo :
             mUseBufferQueue /\ mRawGraphicBlockInfo[b] \notin DOMAIN mGraphicBlocks}

Free(size) == {b \in Buffer : b.size = size} \ (InUse \cup client)

\* fetchGraphicBlock(): a buffer the pool has seen keeps its id, a new one gets
\* the next id; a buffer pool stops at its limit.
Fetchable ==
    {b \in Free(mOutputFormat.size) :
        \/ mUseBufferQueue
        \/ b \in DOMAIN mRawGraphicBlockInfo
        \/ Cardinality(DOMAIN mRawGraphicBlockInfo) < mMaxDequeuedBufferNum}

IdOf_Unset(b) == IF b \in DOMAIN mRawGraphicBlockInfo THEN mRawGraphicBlockInfo[b] ELSE -1

IdOf(b) == IF b \in DOMAIN mRawGraphicBlockInfo THEN mRawGraphicBlockInfo[b] ELSE mGraphicBufferId

appendOutputGraphicBlock(b) ==
    IF b \in DOMAIN mRawGraphicBlockInfo
    THEN UNCHANGED pool
    ELSE /\ mRawGraphicBlockInfo' = [x \in DOMAIN mRawGraphicBlockInfo \cup {b} |->
                                        IF x = b THEN mGraphicBufferId ELSE mRawGraphicBlockInfo[x]]
         /\ mGraphicBufferId' = mGraphicBufferId + 1

\* The second half: the block is posted as one the component has or as a new one.
FetchDone ==
    /\ fetching /\ fetching' = FALSE
    /\ \E b \in Fetchable :
        /\ appendOutputGraphicBlock(b)
        /\ Post([type |-> IF IdOf(b) \in DOMAIN mGraphicBlocks THEN "returned" ELSE "fetched",
                 buf |-> b, id |-> IdOf(b)])
    /\ UNCHANGED <<component, format, mResolutionChanging, flags, blocks,
                   mRunTaskLoop, mAllocBufferLoop, allocTasks, waitTasks, outside>>

FetchRetry ==
    /\ fetching /\ fetching' = FALSE
    /\ Fetchable = {}
    /\ allocTasks' = allocTasks + 1
    /\ UNCHANGED <<component, mTaskQueue, format, mResolutionChanging, flags, blocks, pool,
                   mRunTaskLoop, mAllocBufferLoop, waitTasks, outside>>
-----------------------------------------------------------------------------
(* A change of the output format. *)

\* The first format: the first blocks are fetched here, tasks fetch the others.
allocateBuffersFromBlockPool(fmt) ==
    \E first \in [0..FirstBlocks - 1 -> {b \in Buffer : b.size = fmt.size} \ client] :
        LET bs == [id \in DOMAIN first |->
                      [buf |-> first[id], fd |-> first[id], state |-> "ACCELERATOR", fdSet |-> TRUE]]
            given == {first[id] : id \in DOMAIN first}
        IN  /\ Cardinality(given) = FirstBlocks
            /\ mGraphicBlocks' = bs
            /\ Counted(NoBlocks, bs)
            /\ mRawGraphicBlockInfo' = [b \in given |-> CHOOSE id \in DOMAIN first : first[id] = b]
            /\ mGraphicBufferId' = FirstBlocks
            /\ decoder' = [decoder EXCEPT !.blocks = DOMAIN bs, !.asked = FALSE]
            /\ RestartDequeue(fmt.num - FirstBlocks)
            /\ mBufferFirstAllocated' = TRUE
            /\ UNCHANGED mPendingGraphicBlockBuffer

\* All blocks are dropped.  Of a surface they are counted out, of a buffer pool
\* they are not; only for a surface is a block that waits for an info dropped.
DropBlocks(bs, fmt) ==
    /\ mGraphicBlocks' = NoBlocks
    /\ IF mUseBufferQueue THEN Counted(mGraphicBlocks, NoBlocks)
                          ELSE Counted(mGraphicBlocks, bs)
    /\ mPendingGraphicBlockBuffer' =
           IF mUseBufferQueue /\ bs # NoBlocks THEN NoBuffer ELSE mPendingGraphicBlockBuffer
    /\ mRawGraphicBlockInfo' = NoBlocks /\ mGraphicBufferId' = 0
    /\ decoder' = [decoder EXCEPT !.blocks = {}, !.asked = FALSE]

\* A surface's blocks are kept: the decoder imports again those it does not lack.
SendBlocks(bs) ==
    LET unset == [id \in DOMAIN bs |-> [bs[id] EXCEPT !.fdSet = FALSE]]
        own == With(bs, "COMPONENT")
    IN  /\ mGraphicBlocks' = Sent(unset, own)
        /\ Counted(mGraphicBlocks, Sent(unset, own))
        /\ decoder' = [decoder EXCEPT !.blocks = WithBuffer(bs, own), !.asked = FALSE]
        /\ UNCHANGED <<mPendingGraphicBlockBuffer, pool>>

\* A buffer pool forgets the blocks the component owns; their infos stay.
ForgetBlocks(bs) ==
    LET kept == {b \in DOMAIN mRawGraphicBlockInfo :
                    mRawGraphicBlockInfo[b] \notin With(bs, "COMPONENT")}
    IN  /\ mGraphicBlocks' = [id \in DOMAIN bs |-> [bs[id] EXCEPT !.fdSet = FALSE]]
        /\ Counted(mGraphicBlocks, bs)
        /\ mRawGraphicBlockInfo' = [b \in kept |-> mRawGraphicBlockInfo[b]]
        /\ mGraphicBufferId' = IF kept = {} /\ bs # NoBlocks THEN 0 ELSE mGraphicBufferId
        /\ decoder' = [decoder EXCEPT !.blocks = {}, !.asked = FALSE]
        /\ UNCHANGED mPendingGraphicBlockBuffer

isReallocateOutputBuffer_ByNumber(fmt) == ~mUseBufferQueue /\ fmt.num # mOutputFormat.num

\* Of a surface only another size counts, of a buffer pool another number too.
isReallocateOutputBuffer(fmt) ==
    \/ fmt.size # mOutputFormat.size
    \/ ~mUseBufferQueue /\ fmt.num # mOutputFormat.num

videoResolutionChange(bs, fmt) ==
    /\ \/ isReallocateOutputBuffer(fmt) /\ DropBlocks(bs, fmt)
       \/ ~isReallocateOutputBuffer(fmt) /\ mUseBufferQueue /\ SendBlocks(bs)
       \/ ~isReallocateOutputBuffer(fmt) /\ ~mUseBufferQueue /\ ForgetBlocks(bs)
    /\ RestartDequeue(fmt.num)
    /\ UNCHANGED mBufferFirstAllocated

WaitsForPictures_Never == FALSE

WaitsForPictures == mPendingBuffersToWork # <<>>

\* tryChangeOutputFormat() of the format fmt with the blocks bs; its caller has
\* taken its own task, and leaves alone what is not named here.
tryChangeOutputFormat(bs, fmt) ==
    \/ /\ WaitsForPictures
       /\ mTaskQueue' = Append(Tail(mTaskQueue), [type |-> "tryChange"])
       /\ mPendingOutputFormat' = fmt
       /\ mGraphicBlocks' = bs /\ Counted(mGraphicBlocks, bs)
       /\ UNCHANGED <<component, mOutputFormat, mBufferFirstAllocated, mResolutionChanging,
                      mPendingGraphicBlockBuffer, pool, dequeue, decoder>>
    \/ /\ ~WaitsForPictures
       /\ With(bs, "ACCELERATOR") # {}
       /\ reportError("accAtChange")
       /\ mTaskQueue' = Tail(mTaskQueue)
       /\ mPendingOutputFormat' = fmt
       /\ mGraphicBlocks' = bs /\ Counted(mGraphicBlocks, bs)
       /\ UNCHANGED <<mComponentState, mOutputFormat, mBufferFirstAllocated, mResolutionChanging,
                      mPendingGraphicBlockBuffer, pool, dequeue, decoder>>
    \/ /\ ~WaitsForPictures
       /\ With(bs, "ACCELERATOR") = {}
       /\ mTaskQueue' = Tail(mTaskQueue)
       /\ mPendingOutputFormat' = NoFormat
       /\ mOutputFormat' = fmt
       /\ mResolutionChanging' = FALSE
       /\ IF mBufferFirstAllocated THEN videoResolutionChange(bs, fmt)
                                   ELSE allocateBuffersFromBlockPool(fmt)
       /\ UNCHANGED component

TryChange ==
    /\ Alive /\ mTaskQueue # <<>> /\ Head(mTaskQueue).type = "tryChange"
    /\ \/ /\ mPendingOutputFormat = NoFormat
          /\ mTaskQueue' = Tail(mTaskQueue)
          /\ UNCHANGED <<component, format, mResolutionChanging, blocks, pool, dequeue, decoder>>
       \/ /\ mPendingOutputFormat # NoFormat
          /\ tryChangeOutputFormat(mGraphicBlocks, mPendingOutputFormat)
          /\ UNCHANGED <<mUseBufferQueue, mPendingBuffersToWork, mFlushDoneBufferOwnedByComp>>
    /\ UNCHANGED <<flags, client, flushing, left>>

onOutputFormatChanged ==
    /\ Alive /\ mTaskQueue # <<>> /\ Head(mTaskQueue).type = "format"
    /\ tryChangeOutputFormat(Moved(mGraphicBlocks, With(mGraphicBlocks, "ACCELERATOR"), "COMPONENT"),
                             Head(mTaskQueue).fmt)
    /\ UNCHANGED <<mUseBufferQueue, mPendingBuffersToWork, mFlushDoneBufferOwnedByComp,
                   flags, client, flushing, left>>
-----------------------------------------------------------------------------
(* Blocks that come from the dequeue thread. *)

\* Every block of the last change is imported.  Only a change takes mFdHaveSet
\* away, so that mResChStat, which remembers it, need not be kept.
getVideoResolutionChanged == \A id \in DOMAIN mGraphicBlocks : mGraphicBlocks[id].fdSet

Obsolete(b) == b.size # mOutputFormat.size

\* Nothing to do with a block: its pointer is dropped with the task.
DropReturned ==
    LET task == Head(mTaskQueue)
    IN  /\ Take("returned")
        /\ Obsolete(task.buf) \/ mHaveDrainDone
        /\ UNCHANGED <<component, format, mResolutionChanging, flags, blocks, pool, dequeue, outside>>

\* A block without an info is kept once; the next one is an error.
ReturnedUnknown ==
    LET task == Head(mTaskQueue)
    IN  /\ Take("returned")
        /\ ~Obsolete(task.buf) /\ ~mHaveDrainDone
        /\ task.id \notin DOMAIN mGraphicBlocks
        /\ IF mPendingGraphicBlockBuffer = NoBuffer
           THEN mPendingGraphicBlockBuffer' = task.buf /\ UNCHANGED mCompHasError
           ELSE reportError("twoPending") /\ UNCHANGED mPendingGraphicBlockBuffer
        /\ UNCHANGED <<mComponentState, format, mResolutionChanging, flags, mGraphicBlocks,
                       mGraphicBlockStateCount, mPendingBuffersToWork,
                       mFlushDoneBufferOwnedByComp, pool, dequeue, outside>>

ReturnedNotOwned ==
    LET task == Head(mTaskQueue)
    IN  /\ Take("returned")
        /\ ~Obsolete(task.buf) /\ ~mHaveDrainDone
        /\ task.id \in DOMAIN mGraphicBlocks
        /\ getVideoResolutionChanged /\ mGraphicBlocks[task.id].state # "CLIENT"
        /\ reportError("notClient")
        /\ UNCHANGED <<mComponentState, mResolutionChanging, format, flags, blocks, pool,
                       dequeue, outside>>

\* The rest of onOutputBufferReturned(): the block is the component's again and
\* goes to the decoder, or lets a change of the format that waits go on.
onOutputBufferReturned ==
    LET task == Head(mTaskQueue)
        back == [mGraphicBlocks EXCEPT ![task.id].buf = task.buf, ![task.id].state = "COMPONENT"]
        reused == IF task.id \in Ids(mPendingBuffersToWork)
                  THEN [back EXCEPT ![task.id].fdSet = TRUE]
                  ELSE Sent(back, {task.id})
    IN  /\ Alive /\ mTaskQueue # <<>> /\ task.type = "returned"
        /\ ~Obsolete(task.buf) /\ ~mHaveDrainDone
        /\ task.id \in DOMAIN mGraphicBlocks
        /\ ~getVideoResolutionChanged \/ mGraphicBlocks[task.id].state = "CLIENT"
        /\ \/ /\ mPendingOutputFormat = NoFormat
              /\ mTaskQueue' = Tail(mTaskQueue)
              /\ Delivered(mGraphicBlocks,
                     Deliver(reused, decoder.blocks \cup {task.id}, mPendingBuffersToWork))
              /\ UNCHANGED <<mResolutionChanging, format, mFlushDoneBufferOwnedByComp,
                             mPendingGraphicBlockBuffer, pool, dequeue, flags, flushing, left>>
           \/ /\ mPendingOutputFormat # NoFormat
              /\ tryChangeOutputFormat(back, mPendingOutputFormat)
              /\ UNCHANGED <<mUseBufferQueue, mPendingBuffersToWork, mFlushDoneBufferOwnedByComp,
                             flags, client, flushing, left>>

\* A new block is not taken while the resolution changes, while stopping or if it
\* has another size than the stream.
DropFetched ==
    LET task == Head(mTaskQueue)
    IN  /\ Take("fetched")
        /\ mResolutionChanging \/ mComponentState = "STOPPING" \/ Obsolete(task.buf)
        /\ UNCHANGED <<component, mResolutionChanging, format, flags, blocks, pool, dequeue, outside>>

\* appendOutputBuffer() of a block the pool does not know is an error.
onNewBlockBufferFetched ==
    LET task == Head(mTaskQueue)
        bs == [id \in DOMAIN mGraphicBlocks \cup {task.id} |->
                  IF id = task.id
                  THEN [buf |-> task.buf, fd |-> task.buf, state |-> "ACCELERATOR", fdSet |-> TRUE]
                  ELSE mGraphicBlocks[id]]
    IN  /\ Take("fetched")
        /\ ~mResolutionChanging /\ mComponentState # "STOPPING"
        /\ ~Obsolete(task.buf)
        /\ IF task.buf \in DOMAIN mRawGraphicBlockInfo
           THEN /\ mGraphicBlocks' = bs
                /\ Counted(mGraphicBlocks, bs)
                /\ decoder' = [decoder EXCEPT !.blocks = @ \cup {task.id}]
                /\ UNCHANGED mCompHasError
           ELSE /\ reportError("unknownBlock")
                /\ UNCHANGED <<mGraphicBlocks, mGraphicBlockStateCount, decoder>>
        /\ UNCHANGED <<mComponentState, mResolutionChanging, format, flags, mPendingBuffersToWork,
                       mFlushDoneBufferOwnedByComp, mPendingGraphicBlockBuffer, pool, dequeue,
                       client, flushing, left>>
-----------------------------------------------------------------------------
(* Pictures, and the inputs they wait for. *)

\* A picture of a flushed work gives its block back at once; another one joins
\* the queue and asks for one more block.
LatePicture ==
    LET task == Head(mTaskQueue)
        bs == Sent(mGraphicBlocks, {task.id})
    IN  /\ Take("done")
        /\ mComponentState # "FLUSHING"
        /\ task.id \in DOMAIN mGraphicBlocks /\ task.fate = "late"
        /\ mGraphicBlocks' = bs /\ Counted(mGraphicBlocks, bs)
        /\ decoder' = [decoder EXCEPT !.blocks = @ \cup WithBuffer(bs, {task.id})]
        /\ UNCHANGED <<component, mResolutionChanging, format, flags, mPendingBuffersToWork,
                       mFlushDoneBufferOwnedByComp, mPendingGraphicBlockBuffer, pool, dequeue,
                       client, flushing, left>>

onOutputBufferDone ==
    LET task == Head(mTaskQueue)
        accelerator == With(mGraphicBlocks, "ACCELERATOR") \cap {task.id}
        pictures == Append(mPendingBuffersToWork,
                           [id |-> task.id, fate |-> task.fate, inputDone |-> task.inputDone])
        loop == mAllocBufferLoop \/ mOutputWorkCount' = 1
    IN  /\ Take("done")
        /\ mComponentState # "FLUSHING"
        /\ task.id \in DOMAIN mGraphicBlocks /\ task.fate # "late"
        /\ mOutputWorkCount' = IF mOutputWorkCount = 0 THEN 1 ELSE 2
        /\ Delivered(mGraphicBlocks,
               Deliver(Moved(mGraphicBlocks, accelerator, "COMPONENT"), decoder.blocks, pictures))
        /\ mAllocBufferLoop' = loop
        /\ PostAllocTasks(IF mRunTaskLoop THEN 1 ELSE 0, allocTasks, waitTasks, loop)
        /\ UNCHANGED <<mResolutionChanging, format, mHaveDrainDone, mReportEosWork, mHaveFlushDone,
                       mFlushDoneBufferOwnedByComp, mPendingGraphicBlockBuffer, pool,
                       mRunTaskLoop, fetching, flushing, left>>

\* While flushing the picture is dropped; of a block nobody knows it is an error.
DropPicture ==
    LET task == Head(mTaskQueue)
    IN  /\ Take("done")
        /\ \/ mComponentState = "FLUSHING" /\ UNCHANGED mCompHasError
           \/ /\ mComponentState # "FLUSHING"
              /\ task.id \notin DOMAIN mGraphicBlocks
              /\ reportError("unknownPicture")
        /\ UNCHANGED <<mComponentState, mResolutionChanging, format, flags, blocks, pool,
                       dequeue, outside>>

\* onInputBufferDone() of the work of a picture that waits: the decoder may report
\* its input at any time.
onInputBufferDone ==
    /\ Alive
    /\ \E i \in 1..Len(mPendingBuffersToWork) :
        /\ ~mPendingBuffersToWork[i].inputDone
        /\ mPendingBuffersToWork' = [mPendingBuffersToWork EXCEPT ![i].inputDone = TRUE]
    /\ Post([type |-> "send"])
    /\ UNCHANGED <<component, mResolutionChanging, format, flags, mGraphicBlocks,
                   mGraphicBlockStateCount, mFlushDoneBufferOwnedByComp,
                   mPendingGraphicBlockBuffer, pool, dequeue, outside>>

sendOutputBufferToWorkIfAnyTask ==
    /\ Take("send")
    /\ Delivered(mGraphicBlocks, Deliver(mGraphicBlocks, decoder.blocks, mPendingBuffersToWork))
    /\ UNCHANGED <<mResolutionChanging, format, flags, mFlushDoneBufferOwnedByComp,
                   mPendingGraphicBlockBuffer, pool, dequeue, flushing, left>>

\* The end of the stream is reported once the pictures before it are out.
onDrainDone ==
    /\ Take("drainDone")
    /\ IF mComponentState = "STOPPING"
       THEN UNCHANGED <<component, mGraphicBlocks, mGraphicBlockStateCount,
                        mPendingBuffersToWork, decoder, client>>
       ELSE Delivered(mGraphicBlocks, Deliver(mGraphicBlocks, decoder.blocks, mPendingBuffersToWork))
    /\ mReportEosWork' = TRUE
    /\ UNCHANGED <<mResolutionChanging, format, mHaveDrainDone, mHaveFlushDone, mOutputWorkCount,
                   mFlushDoneBufferOwnedByComp, mPendingGraphicBlockBuffer, pool, dequeue,
                   flushing, left>>
-----------------------------------------------------------------------------
(* Start, flush, the works after it, stop. *)

onFlush ==
    /\ Take("flush")
    /\ IF mComponentState = "STARTED"
       THEN /\ mComponentState' = "FLUSHING"
            /\ decoder' = [decoder EXCEPT !.blocks = {}, !.fed = FALSE, !.resetting = TRUE]
       ELSE UNCHANGED <<mComponentState, decoder>>
    /\ UNCHANGED <<mCompHasError, mResolutionChanging, format, flags, blocks, pool, dequeue,
                   client, flushing, left>>

\* The loop over the pictures never ends at one whose block is unknown.
onFlushDone ==
    /\ Take("resetDone") /\ mComponentState = "FLUSHING"
    /\ StopRunDequeueTask
    /\ IF Ids(mPendingBuffersToWork) \subseteq DOMAIN mGraphicBlocks
       THEN /\ mFlushDoneBufferOwnedByComp' = Ids(mPendingBuffersToWork)
            /\ mPendingBuffersToWork' = <<>>
            /\ mComponentState' = "STARTED" /\ UNCHANGED mCompHasError
       ELSE /\ mCompHasError' = "endlessLoop"
            /\ UNCHANGED <<mComponentState, mPendingBuffersToWork, mFlushDoneBufferOwnedByComp>>
    /\ mOutputWorkCount' = 0
    /\ UNCHANGED <<mResolutionChanging, format, mHaveDrainDone, mReportEosWork, mHaveFlushDone,
                   mGraphicBlocks, mGraphicBlockStateCount, mPendingGraphicBlockBuffer, pool, outside>>

\* flush_sm() goes on after the signal of onFlushDone().
FlushReturn ==
    /\ flushing /\ mComponentState # "FLUSHING" /\ Alive
    /\ \A i \in 1..Len(mTaskQueue) : mTaskQueue[i].type # "flush"
    /\ flushing' = FALSE /\ mHaveFlushDone' = TRUE
    /\ UNCHANGED <<component, mTaskQueue, mResolutionChanging, format, mHaveDrainDone,
                   mReportEosWork, mOutputWorkCount, blocks, pool, dequeue, decoder, client, left>>

\* onReusedOutBuf(): blocks of flushed pictures and those the decoder had.
Reused(bs) ==
    LET own == mFlushDoneBufferOwnedByComp \cap With(bs, "COMPONENT")
        again == Moved(bs, own, "ACCELERATOR")
    IN  Sent(again, With(again, "ACCELERATOR"))

Missing_ClientOnly(count) == count["CLIENT"]

\* reStartAllocTask(): one task for each block the client holds and for each
\* that was never allocated.
Missing(count) ==
    LET stopped == mOutputFormat.num - count["CLIENT"] - count["ACCELERATOR"] - count["COMPONENT"]
    IN  count["CLIENT"] + IF stopped > 0 THEN stopped ELSE 0

\* The first work after a flush or an end of stream.
onQueueWork ==
    LET reuse == mHaveFlushDone /\ mBufferFirstAllocated
        bs == IF reuse THEN Reused(mGraphicBlocks) ELSE mGraphicBlocks
    IN  /\ Take("queue")
        /\ mGraphicBlocks' = bs /\ Counted(mGraphicBlocks, bs)
        /\ decoder' = [decoder EXCEPT !.fed = TRUE,
                           !.blocks = @ \cup IF reuse THEN WithBuffer(bs, With(bs, "ACCELERATOR")) ELSE {}]
        /\ mFlushDoneBufferOwnedByComp' = IF reuse THEN {} ELSE mFlushDoneBufferOwnedByComp
        /\ IF mHaveFlushDone \/ mReportEosWork
           THEN /\ mRunTaskLoop' = TRUE /\ mAllocBufferLoop' = TRUE
                /\ IF mBufferFirstAllocated
                   THEN PostAllocTasks(Missing(mGraphicBlockStateCount'), allocTasks, waitTasks, TRUE)
                   ELSE UNCHANGED <<allocTasks, waitTasks>>
                /\ mHaveDrainDone' = FALSE
           ELSE UNCHANGED <<mRunTaskLoop, mAllocBufferLoop, allocTasks, waitTasks, mHaveDrainDone>>
        /\ mHaveFlushDone' = FALSE /\ mReportEosWork' = FALSE
        /\ UNCHANGED <<component, mResolutionChanging, format, mOutputWorkCount,
                       mPendingBuffersToWork, mPendingGraphicBlockBuffer, pool, fetching,
                       client, flushing, left>>

onStart ==
    /\ mTaskQueue # <<>> /\ Head(mTaskQueue).type = "start" /\ mCompHasError = "none"
    /\ mTaskQueue' = Tail(mTaskQueue)
    /\ mComponentState' = "STARTED"
    /\ decoder' = [blocks |-> {}, asked |-> FALSE, fed |-> FALSE, resetting |-> FALSE]
    /\ UNCHANGED <<mCompHasError, mResolutionChanging, format, flags, blocks, pool, dequeue,
                   client, flushing, left>>

onStop ==
    /\ Take("stop")
    /\ StopRunDequeueTask
    /\ mComponentState' = "STOPPING"
    /\ decoder' = [decoder EXCEPT !.blocks = {}, !.fed = FALSE, !.resetting = TRUE]
    /\ UNCHANGED <<mCompHasError, mResolutionChanging, format, flags, blocks, pool,
                   client, flushing, left>>

\* The blocks go, mGraphicBlockStateCount stays as it is; the stopped decoder
\* uses no block any more.
onStopDone ==
    /\ Take("resetDone") /\ mComponentState = "STOPPING"
    /\ StopRunDequeueTask
    /\ mComponentState' = "UNINITIALIZED"
    /\ mPendingOutputFormat' = NoFormat
    /\ mPendingBuffersToWork' = <<>>
    /\ mPendingGraphicBlockBuffer' = NoBuffer
    /\ mBufferFirstAllocated' = FALSE
    /\ mGraphicBlocks' = NoBlocks
    /\ mRawGraphicBlockInfo' = NoBlocks /\ mGraphicBufferId' = 0
    /\ mOutputWorkCount' = 0
    /\ decoder' = [decoder EXCEPT !.blocks = {}]
    /\ UNCHANGED <<mCompHasError, mResolutionChanging, mUseBufferQueue, mOutputFormat,
                   mHaveDrainDone, mReportEosWork, mHaveFlushDone, mGraphicBlockStateCount,
                   mFlushDoneBufferOwnedByComp, client, flushing, left>>
-----------------------------------------------------------------------------
(* The decoder's thread and the client. *)

May(call) == left[call] > 0
Once(call) == left' = [left EXCEPT ![call] = @ - 1]

\* The decoder is at work: it has input, and is not in a reset or a change.
Decoding == decoder.fed /\ ~decoder.asked /\ ~decoder.resetting

\* Another size or number of buffers; the number never goes down.
ProvidePictureBuffers ==
    /\ Decoding /\ May("format") /\ Once("format")
    /\ \E size \in Sizes, num \in Nums :
        /\ mBufferFirstAllocated => num >= mOutputFormat.num
        /\ Post([type |-> "format", fmt |-> [size |-> size, num |-> num]])
    /\ mResolutionChanging' = TRUE
    /\ decoder' = [decoder EXCEPT !.asked = TRUE, !.blocks = {}]
    /\ UNCHANGED <<component, format, flags, blocks, pool, dequeue, client, flushing>>

PictureReady ==
    /\ Decoding /\ May("picture") /\ Once("picture")
    /\ \E id \in decoder.blocks, fate \in Fates, inputDone \in BOOLEAN :
        /\ Post([type |-> "done", id |-> id, fate |-> fate, inputDone |-> inputDone])
        /\ decoder' = [decoder EXCEPT !.blocks = @ \ {id}]
    /\ UNCHANGED <<component, mResolutionChanging, format, flags, blocks, pool, dequeue,
                   client, flushing>>

\* NotifyFlushDone(): the decoder has taken all inputs and its last picture is
\* out.  Nothing is fetched any more.
NotifyFlushDone ==
    /\ Decoding /\ May("eos") /\ Once("eos")
    /\ \A i \in 1..Len(mPendingBuffersToWork) : mPendingBuffersToWork[i].inputDone
    /\ \A i \in 1..Len(mTaskQueue) : mTaskQueue[i].type = "done" => mTaskQueue[i].inputDone
    /\ mAllocBufferLoop' = FALSE /\ mHaveDrainDone' = TRUE
    /\ Post([type |-> "drainDone"])
    /\ decoder' = [decoder EXCEPT !.fed = FALSE]
    /\ UNCHANGED <<component, mResolutionChanging, format, mReportEosWork, mHaveFlushDone,
                   mOutputWorkCount, blocks, pool, mRunTaskLoop, allocTasks, waitTasks, fetching,
                   client, flushing>>

NotifyFlushOrStopDone ==
    /\ decoder.resetting
    /\ Post([type |-> "resetDone"])
    /\ decoder' = [decoder EXCEPT !.resetting = FALSE]
    /\ UNCHANGED <<component, mResolutionChanging, format, flags, blocks, pool, dequeue,
                   client, flushing, left>>

Queued(type) == \E i \in 1..Len(mTaskQueue) : mTaskQueue[i].type = type

start ==
    /\ mComponentState = "UNINITIALIZED" /\ mCompHasError = "none"
    /\ ~Queued("start")
    /\ May("start") /\ Once("start")
    /\ Post([type |-> "start"])
    /\ UNCHANGED <<component, mResolutionChanging, format, flags, blocks, pool, dequeue,
                   decoder, client, flushing>>

\* A work is queued where that changes something here: the decoder lacks input.
queue_nb ==
    /\ Alive /\ ~flushing /\ ~decoder.fed /\ mComponentState = "STARTED"
    /\ ~Queued("queue") /\ ~Queued("stop")
    /\ Post([type |-> "queue"])
    /\ UNCHANGED <<component, mResolutionChanging, format, flags, blocks, pool, dequeue, outside>>

flush_sm ==
    /\ Alive /\ ~flushing /\ mComponentState = "STARTED" /\ ~Queued("stop")
    /\ May("flush") /\ Once("flush")
    /\ Post([type |-> "flush"])
    /\ flushing' = TRUE
    /\ UNCHANGED <<component, mResolutionChanging, format, flags, blocks, pool, dequeue,
                   decoder, client>>

stop ==
    /\ Alive /\ ~flushing /\ mComponentState = "STARTED" /\ ~Queued("stop")
    /\ Post([type |-> "stop"])
    /\ UNCHANGED <<component, mResolutionChanging, format, flags, blocks, pool, dequeue, outside>>

\* The client is done with a picture: its buffer may be fetched again.
ReturnBuffer ==
    /\ \E b \in client : client' = client \ {b}
    /\ UNCHANGED <<component, mTaskQueue, mResolutionChanging, format, flags, blocks, pool,
                   dequeue, decoder, flushing, left>>
-----------------------------------------------------------------------------
MainThread ==
    \/ Skip \/ TryChange \/ onOutputFormatChanged
    \/ DropReturned \/ ReturnedUnknown \/ ReturnedNotOwned \/ onOutputBufferReturned
    \/ DropFetched \/ onNewBlockBufferFetched
    \/ LatePicture \/ onOutputBufferDone \/ DropPicture
    \/ sendOutputBufferToWorkIfAnyTask \/ onDrainDone
    \/ onFlush \/ onFlushDone \/ onQueueWork \/ onStart \/ onStop \/ onStopDone

DequeueThread ==
    WaitOver \/ CancelAllocTask \/ onAllocBufferTask \/ FetchDone \/ FetchRetry

DecoderThread ==
    \/ onInputBufferDone \/ ProvidePictureBuffers \/ PictureReady
    \/ NotifyFlushDone \/ NotifyFlushOrStopDone

Client == start \/ queue_nb \/ flush_sm \/ FlushReturn \/ stop \/ ReturnBuffer

Next == MainThread \/ DequeueThread \/ DecoderThread \/ Client

Spec == Init /\ [][Next]_vars
-----------------------------------------------------------------------------
(* Properties. *)

Task ==
    [type : {"start", "queue", "flush", "stop", "resetDone", "send", "drainDone", "tryChange"}]
    \cup [type : {"format"}, fmt : Format]
    \cup [type : {"returned", "fetched"}, buf : Buffer, id : Nat]
    \cup [type : {"done"}, id : Nat, fate : Fate, inputDone : BOOLEAN]

\* The values the variables take; counts may be wrong, but they are integers.
TypeOK ==
    /\ mComponentState \in {"UNINITIALIZED", "STARTED", "FLUSHING", "STOPPING"}
    /\ mTaskQueue \in Seq(Task)
    /\ {mUseBufferQueue, mBufferFirstAllocated, mResolutionChanging, mHaveDrainDone,
        mReportEosWork, mHaveFlushDone, mRunTaskLoop, mAllocBufferLoop, fetching, flushing} \subseteq BOOLEAN
    /\ {mOutputFormat, mPendingOutputFormat} \subseteq Format \cup {NoFormat}
    /\ \A id \in DOMAIN mGraphicBlocks : id \in Nat /\ mGraphicBlocks[id] \in
           [buf : Buffer \cup {NoBuffer}, fd : Buffer, state : State, fdSet : BOOLEAN]
    /\ mGraphicBlockStateCount \in [State -> Int]
    /\ mPendingBuffersToWork \in Seq([id : Nat, fate : Fate, inputDone : BOOLEAN])
    /\ DOMAIN mRawGraphicBlockInfo \subseteq Buffer
    /\ {mGraphicBufferId, mOutputWorkCount, allocTasks, waitTasks} \subseteq Nat
    /\ client \subseteq Buffer \cup {NoBuffer}
    /\ left \in [Call -> Nat]

\* Of a surface, a picture that waits for the input of its work holds a block the
\* component owns: the delivery would take another one for an error (1199-1203), and
\* onFlushDone(), which goes on to the next picture without removing this one,
\* would never end (1646-1656).  And blocks that come late, after a change of the
\* format, a flush or the end of the stream, are released or used: none is reported
\* as an error, only a block of the decoder's at a change may be.
PendingBlocksOwned ==
    mUseBufferQueue =>
        /\ \A i \in 1..Len(mPendingBuffersToWork) :
               LET id == mPendingBuffersToWork[i].id
               IN  id \in DOMAIN mGraphicBlocks /\ mGraphicBlocks[id].state = "COMPONENT"
        /\ mCompHasError \in {"none", "accAtChange"}

\* Of a surface, the decoder never writes into a buffer the client shows; the
\* buffer has the size of the stream, although tasks of blocks of the size before
\* are still in mTaskQueue after the change (2202-2228); and the file the decoder
\* imported is that of the buffer the component takes for it.
DecoderWritesItsBlocks ==
    mUseBufferQueue =>
        \A id \in decoder.blocks :
            LET info == mGraphicBlocks[id]
            IN  /\ info.buf \notin client
                /\ info.buf.size = mOutputFormat.size
                /\ info.fd = info.buf

OnTheWay == {i \in 1..Len(mTaskQueue) : mTaskQueue[i].type \in {"returned", "fetched"}}

\* A stop leaves the counts as they are: those of a later session are too high.
CountsRight == \A s \in State : mGraphicBlockStateCount[s] = Cardinality(With(mGraphicBlocks, s))

\* Of a surface, while the decoder decodes, each of the buffers it asked for is
\* with the decoder or the component, or a task fetches a block in its place, if
\* the counts reStartAllocTask() reads are right.
DecoderSupplied ==
    mUseBufferQueue /\ CountsRight /\ Alive /\ mComponentState = "STARTED" /\ mBufferFirstAllocated
    /\ Decoding /\ ~mHaveFlushDone /\ ~mHaveDrainDone /\ ~mResolutionChanging
        => Cardinality(DOMAIN mGraphicBlocks \ With(mGraphicBlocks, "CLIENT")) + allocTasks + waitTasks
               + Cardinality(OnTheWay) + (IF fetching THEN 1 ELSE 0)
               >= mOutputFormat.num
=============================================================================
