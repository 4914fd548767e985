# TLA+ models of the Amlogic Codec 2.0 vendor components

This directory holds TLA+ specifications of the components in `src/`, the TLC
configurations that check them on small instances, and TLAPS proofs about them.
Paths below are relative to the repository; `cpp` stands for
`src/vendorcomponents/videodecoder/C2VdecComponent.cpp` and `h` for
`src/vendorcomponents/videodecoder/include/C2VdecComponent.h`.

## 1. The system

The repository implements Android's Codec 2.0 *components* for Amlogic devices.
The media framework (the client) creates components from the component store,
queues *works* (an input buffer and room for its output) and gets every work
back, through `onWorkDone_nb()` or as the result of `flush_sm()`.

| Part | Files | State | Operations | Hard behaviour |
|---|---|---|---|---|
| Hardware video decoder | `cpp`, `h` | `mState` (client side), `mComponentState` + `mCompHasError` (thread side), `mQueue`, `mPendingWorks`, `mAbandonedWorks`, `mFlushPendingWorkList`, `mPendingBuffersToWork`, `mPendingOutputEOS`, graphic blocks | `queue_nb`, `drain_nb`, `flush_sm`, `start`, `stop`, `reset`, `release`; `on...` handlers on `mThread`; HAL callbacks | everything that reaches the thread is a posted task; `flush_sm` waits with a timeout and changes the thread's state; flush, drain and stop cross; pictures before inputs; errors at any time |
| Instance limits | `cpp` 167-222, 294-464, `C2VdecInterfaceImpl.cpp` 1763-1793 | four static counters | `create`, constructor, `config`, `onDestroy` | counters changed without the mutex of `create()` |
| Block pool and dequeue thread | `C2VdecBlockPoolUtil.cpp`, `C2VdecDequeueThreadUtil.cpp` | which buffer has which id, retry state, whether the thread runs and fetches | fetch, append, reset, run and stop the task | a second thread fetches blocks while the format changes, the stream ends or a flush runs |
| Tunnel mode | `C2VdecTunnelHelper.cpp`, `VideoTunnelRendererWraper.cpp` | `mOutBufferFdMap`, `mOutBufferCount`, buffers at the renderer | ladder of allocations, pictures to the renderer, `fillVideoFrame`, render times, flush | buffers named by descriptors that are closed and given out again; frames dropped or failed; flush |
| Tuner passthrough | `C2VdecTunerPassthroughHelper.cpp`, wrapper | renderer session | start, stop, flush | none of its own |
| Interface and store | `C2VendorComponentStore.cpp`, `C2VdecCodecConfig.cpp`, `C2VdecInterfaceImpl.cpp` | names, attributes of the XML, parameters of each interface | create interface and component, `config()` of a batch | part of a batch fails; a static variable of all interfaces; limits decided by different means |
| Device configuration | `C2VdecDeviceUtil.cpp`, `GrallocWraper.cpp` | double write, usages, the gralloc slot, interlacing, depth, HDR and colours with their flags | configure and reconfigure the decoder, size of output buffers, reports of the stream | three threads; a slot that remembers; what the decoder was told against what was allocated |
| HAL wrapper | `VideoDecWraper.cpp` | handle of an external library | initialize, decode, flush, stop, eosFlush | asynchronous answers |
| Software video decoder | `softvideodecoder/` | `WorkQueue`, `mPendingWorkFrameIndexes`, FFmpeg session | client calls, `process`, `drain`, `onFlush_sm` | pictures that come frames late, while a flush takes the works they belong to |
| Audio decoder | `C2AudioDecComponent.cpp` and one file per codec | `WorkQueue` with generation, pending works, `ExecState`; library, codec and configuration of each decoder | the same client calls; a looper thread that processes the queue | queue emptied while a work is processed; libraries torn down and used again |
| Video encoder | `C2VencComponent.cpp` (base class of `C2VencHCodec`, `C2VencW420new`, `C2VencMulti`), `ThreadWorker.cpp`, one file per encoder; `C2VencComp.cpp` is a second copy for the HEVC library | `mQueue`, `mComponentState`, output block and pool, header and EOS flags, worker thread, `mRequestSync` | client calls; worker loop around `ProcessData()` | flush without the lock; stop waits, joins and closes the encoder the worker uses; requests of a sync frame between the worker's steps |
| Service, command line client, logging | `service.cpp`, `cmds/codec2.cpp`, `common/` | - | process set-up | - |

What makes a component correct: every work it accepts comes back exactly once
and within its session; after `flush_sm()` returns and after `stop()` the
component holds none; the input buffer stays valid while the decoder reads it;
EOS is the last thing reported; calls return; a healthy decoder never leads to
an error report; and limits on instances hold.

The hazards of the code, each at its line, are listed in `PROJECT.json`.

## 2. Modules

| Module | Models |
|---|---|
| `C2VdecComponent.tla` | the client's calls, the handlers of `mThread` and the decoder's callbacks, for works |
| `WorkContract.tla` | what the client of a component may rely on (abstract; no code of its own) |
| `C2VdecComponentProofs.tla` | TLAPS proofs about `C2VdecComponent` |
| `MCC2VdecComponent.tla` | the bounds on calls used by its configurations |
| `VdecInstances.tla` | the static instance counters |
| `VdecInstancesProofs.tla` | TLAPS proofs about `VdecInstances` |
| `MCVdecInstances.tla` | four components and their symmetry |
| `VdecBlocks.tla` | output blocks between pool, dequeue thread, component, decoder and client |
| `VdecBlocksProofs.tla` | TLAPS proofs about `VdecBlocks` |
| `MCVdecBlocks.tla` | bounds and symmetry |
| `VdecTunnel.tla` | tunnel mode: buffers and works between component, decoder and renderer |
| `MCVdecTunnel.tla` | the kinds of session its configurations use |
| `VdecInterface.tla` | store, XML and the interface of a hardware decoder, with `config()` |
| `VdecDevice.tla` | device configuration, above `VdecInterface`, which it extends |
| `VdecDeviceProofs.tla` | TLAPS proofs about `VdecDevice` and `VdecInterface` |
| `MCVdecDevice.tla` | platforms, batches, streams and bounds |
| `SoftVdecComponent.tla` | the software video decoder, framework and decoder |
| `SoftVdecComponentProofs.tla` | TLAPS proofs about `SoftVdecComponent` |
| `MCSoftVdecComponent.tla` | bounds on calls and failures |
| `AudioDecoders.tla` | what each of the six audio decoders keeps, as operators |
| `AudioDecComponent.tla` | the audio framework, above `AudioDecoders`, which it extends: client calls, the looper, the work queue |
| `AudioDecComponentProofs.tla` | TLAPS proofs about `AudioDecComponent` |
| `MCAudioDecComponent.tla` | the bounds on calls used by its configuration |
| `C2VencComponent.tla` | the video encoders' framework: client calls, the worker thread, the stop handshake; sync frames of `C2VencHCodec` |
| `C2VencComponentProofs.tla` | TLAPS proofs about `C2VencComponent` |
| `MCC2VencComponent.tla` | the bounds on calls used by its configuration |
| `VencEncoders.tla` | three encoders: their parameters and what they tell their libraries |
| `VencEncodersProofs.tla` | TLAPS proofs about `VencEncoders` |
| `MCVencEncoders.tla` | sizes, quantizers and bounds |

The modules meet in three ways. `C2VdecComponent` has the works and `VdecBlocks`
the blocks of the same handlers: a picture is in both `mPendingBuffersToWork`, with
its work in the one and with its block in the other. `VdecDevice` extends
`VdecInterface`, whose parameters it reads and writes, as `AudioDecComponent`
extends `AudioDecoders`. `C2VencComponent` takes from the encoders only what ends
or survives a work; `VencEncoders` takes a call of the encoder as one step.

### C2VdecComponent

The threads of the code and the parts of the module that stand for them:

* *Client threads.* One queues and drains (`queue_nb`, `drain_nb`), one flushes
  (`flush_sm`, `FlushWait`, then `FlushReturn` or `FlushTimeout`), one starts
  and stops (`start`, `StartReturn`, `stop`, `StopReturn`, `release`). A call
  that posts a task and waits is split where it waits. `SerialClient` restricts
  them to one call at a time, and to nothing queued after EOS before a flush or
  a stop, which is how `CCodec` uses the API.
* *`mThread`.* `tasks` is its task queue; `Take`/`Run` takes the head, `Follow`
  removes it and appends what the handler posts. A handler is one step, unless
  another thread can see it half done or it loops: `step` then says where it is
  (`sending` and `draining` for the loop of `sendOutputBufferToWorkIfAny`,
  `drained` for the end of `onDrainDone`, `resetInfo` for the end of
  `onFlushOrStopDone`, `noOutFrame` for the loop of
  `onReportNoOutFrameFinished`).
* *The decoder.* `hal` is what `VideoDecWraper` was given and has not answered.
  It gives inputs back and produces pictures, error frames or frames without
  output in any order; it answers a drain when all frames before it are dealt
  with, and each reset once. `PictureBeforeInput` says whether a picture may
  overtake its own input.

Each work is held by one `unique_ptr`, so one function `loc` says in which
container it is: `client`, `posted` (inside a task), `queue` (`mQueue`),
`pending` (`mPendingWorks`), `abandoned` (`mAbandonedWorks`), `flushList`
(`mFlushPendingWorkList`), or how it left: `done`, `eos`, `notFound`
(reported), `flushed`, `destroyed`. Order within a container is the order of
the works' numbers, which is the order of their bitstream ids.

`out` collects what only `mThread` knows of the output: `mPendingBuffersToWork`
(`buffers`), `mPendingOutputEOS` (`eos`), `mLastOutputBitstreamId` (`last`),
`mSentOutBitStreamIdList` (`sent`), `mLastOutputReportWork` (`cloneable`), works sent
as clones (`clones`), `mErrorFrameWorkCount` and `mNoOutFrameWorkQueue`.

Left out, and why:

* Graphic blocks, formats and the dequeue thread: they are in `VdecBlocks`. A block whose picture is pending is taken to be known and not the
  *existing frame* still owned by the client, so `sendOutputBufferToWorkIfAny()`
  does not return an error.
* Tunnel mode (`VdecTunnel`), game mode, tuner passthrough, and decode-only inputs
  (`FLAG_DROP_FRAME` on input); the no-show detection of VP9.
* `checkPreempting` is one of the errors of `NotifyError`; `dup()` does not fail.
* `reset()` is `stop()` with `mVdecComponentStopDone` cleared first. That flag
  makes a second `stop()` return without effect.
* Destruction without `release()`: the destructor posts the same `onDestroy`.
* `queue_nb()` takes a list of works; here each call has one.
* `mSentOutBitStreamIdList` forgets ids beyond 20; no instance queues as many.

### VdecInstances

`create()` holds a static mutex over its checks and the constructor, so creation
is two steps, `CreateCheck` and `Construct`, with no other creation between.
`OnDestroy` and `ConfigMaxResolution` take no mutex and may run between them.
`Construct(c, FALSE)` is a constructor that returns early after counting: the
object exists, its thread does not, and `DeleteThreadless` is its destructor.

### AudioDecComponent

* *The client* makes one call at a time, as `CCodec` does. `queue_nb` and
  `drain_nb` change the queue under its lock and post `kWhatProcess` after giving
  it back (`PostProcess`); `flush_sm` does not wait for the looper; `start`,
  `stop`, `reset` and `release` post a message and, but for the `kWhatStart` of
  `start`, wait for the answer.
* *The looper* takes the messages in their order. `processQueue()` is split where
  the client may come in between: `Pop` (under the lock), then `NoPool`, `Drain` or
  `Process`, then one step for each work given out (`SendOutput`, and
  `FinishWithoutOutput` at EOS, each of which may take the lock in `finish()`),
  then `EndOfProcess` (under the lock). `cur` is what it has on its stack.
* *The decoder* is `codec`; which decoder is a choice of `Init`. AAC keeps an info for
  each pending work (`infos`), a ring buffer of decoded samples (`ring`), how much of
  the output delay it has thrown away (`compensated`) and an error flag. Samples are
  counted in whole frames. The other decoders finish each work when they get it.
* *The libraries* are in `AudioDecoders`: for EAC3, AC4, DTS, DTSX and FFmpeg whether the
  library is loaded, the codec open and the configuration allocated, as functions that
  `onInit()`, `onStop()`, `onReset()`, `onRelease()` and `process()` apply. A handler that
  uses what is not there sets `undefined`, and nothing is said of what follows.

Left out: `setListener_vb` (the listener is there); config updates; how the output
buffer of a work is fetched, and whether that succeeds (the work is finished
either way); works with equal frame indices (the *unexpected* branch); stream
parameters before the first frame (`mStreamInfo` is taken as known).

### C2VencComponent

* *The client* makes one call at a time. `queue_nb` and the start of `stop` take
  `mInputQueueLock`; `flush_sm` does not, and is two steps for each entry
  (`FlushFront` moves the work out, `FlushPop` removes the entry that is first by
  then). `stop` asks the worker to exit, waits (`StopSignalled` or `StopTimeout`)
  and joins it (`Join`), which also closes the encoder; `reset` and `release` are
  `stop`. `Request` is `config_vb()` of the interface.
* *The worker* is `ThreadWorker` running `threadLoop()`. `worker.pc` is where it is:
  `loop`, `take` and `pop` (the critical section of the queue, in the two steps that
  an unlocked flush can split), `configure`, `input` (all of `ProcessData()` up to the
  encoder), `read`, `clear` and `encode` (`ProcessOneFrame()`), `signal` (the end of
  `threadLoop()`), `exited`.
* *The request of a sync frame* is compared as an object with the one seen last:
  `sync.seen` says that they are the same. `sync.wanted` is a ghost: requested, and no
  IDR frame encoded since.
* `mQueue` is a list of works in which 0 is an entry whose work was moved out. An
  entry removed by the other thread destroys its work (`overrun`); removing from an
  empty list is undefined, and the model stops (`crashed`). Unlocked changes of the
  list that go wrong below the level of entries are left out.

Left out: the EOS flag (`mSawInputEOS`, which no call resets), dump files, input
formats, `mIsInit` (never set), destruction without `stop()`, and the second copy
of the framework (`C2VencComp.cpp`).

### VdecBlocks

* *`mThread`* runs `mTaskQueue`. A handler is one step: other threads see only the
  flags it sets, which the model sets in the same step. `StopRunDequeueTask()` joins
  the dequeue thread, so handlers that call it wait until no fetch is under way.
* *The dequeue thread* has tasks that are due (`allocTasks`) or wait (`waitTasks`);
  `onAllocBufferTask` begins a fetch, `FetchDone` and `FetchRetry` end it.
* *The decoder's thread* asks for buffers (`ProvidePictureBuffers`), delivers pictures,
  and answers drains and resets. *The client* gives buffers back, flushes and stops.
* A graphic buffer is a size and a name, which stands for its inode; blocks have ids.
  `mUseBufferQueue` says which of the two pools is behind: a surface's queue gives a
  buffer again when the client let it go, a buffer pool up to its limit.
* What became of a picture's work is chosen when its picture comes (`Fates`): it waits
  for it, it was an error frame, or it was flushed.

Modelled although the instances do not reach it: a second block without an info, a
picture with an unknown block, and the endless loop of `onFlushDone()`; that they are
not reached with a surface is `PendingBlocksOwned`. With a buffer pool they can be, in
more steps than the run has (section 3). `DecoderSupplied` asks nothing once a stop has
left the counts of blocks wrong (`CountsRight`). Left out: clones, the change of usage while the
first buffers are fetched (it is in `VdecDevice`), the forced reset after a flush of
2 s, the block that goes to the first abandoned work (`cpp` 1621), blocks bound to no
buffer (`getUnbindGraphicBlock`).

### VdecTunnel

One session, from `start()` to `stop()`. A buffer is named by its descriptor, of which
`dup()` gives the least free one (`FreeFd`), so that descriptors are used again. The
renderer has a list of frames in order; it shows one (`Show`, which tells the media
time), gives back the one before (`Release`) or drops one (`Drop`). The ladder of
allocations posts itself (`alloc` tasks). Left out: the first frame that is held or
peeked, underflow events, video sync, `fill` calls that are cached before the first
format, the clamp in `requestNewBufferSet()`, tasks after an error.

### VdecInterface and VdecDevice

* *A platform* is the properties, the kernel's feature list and `media_codecs.xml` of
  a device. `createInterface` looks names up in them and declares the parameters of
  the codec with its levels; `config` applies a batch with `C2InterfaceHelper`
  (external) and runs the component's handler for each parameter, up to the first
  failure. `padding` is the static variable that all interfaces share.
* *`DeviceUtil`* is `dev`, what was put into the driver's parameters is `params`, and
  what was sent of it is `decoder`. `codecConfig()` is in `onStart`; the consumer of
  the pictures (display, texture, buffer pool) is looked at in
  `onCheckVideoDecReconfig`; fields are told by `updateInterlacedInfo`. Buffers are
  the sizes they were allocated with, by mThread (`AllocateFirst`) or the dequeue
  thread (`onAllocBufferTask`), from the usage and size `GrallocWraper` gives.
* *Three threads*: `UpdateDecInfo` and the steps of its report (`writer`) are the
  decoder's, `updateWorkParam` with its place (`reader`) mThread's. A flag and what it
  is about are set, cleared and read in separate steps, as in the code.
* *What double write means* (`Written`) is external: which sizes the driver writes in
  each mode.
* *What is assumed of the constants*: clients configure neither HDR values nor colours
  (`BatchesAssumption`; an output parameter that only the component sets), the property
  that the handler of the largest input reads is not below the 4 MB that the setter
  gives to large pictures (`PlatformsAssumption`; its default is 8 MB), and a stream that
  says anything of HDR says more than the lowest luminance (`StreamsAssumption`).

Left out: audio, encoder and software decoder names in the store, profiles, tuner
parameters, tunnel pictures, the properties that force double or triple write, Dolby
Vision 540p and P010 (`mUseP010ForDisplay`), HDR10+, light levels and default colour
aspects, a gralloc without free slots, fixed slices with the first gralloc, alignment.
HDR values are taken in the byte order of the default property, and the HDR parameter
as declared.

### SoftVdecComponent

The scheme of `AudioDecComponent`, with `flush_sm()` waiting for the looper
(`FlushReturn`). The library holds `frames` and is `delay` frames late; the decoder
gives the picture that comes to the work that waits first (`mPendingWorkFrameIndexes`).
`process()` is a loop, of which each round is a step (`Decode`). `strayed` is a history
variable: it says that one of the cases occurred in which the code lets the lists part
(see section 3). Left out: `setListener_vb`, config updates, empty frames without EOS,
equal frame indices, YUV conversions, the limit on instances of `C2SoftVdec::create()`.

### VencEncoders

`intf` has the parameters, whose setters clamp or raise them; `enc` is the encoder
object, `lib` what the library was told, `configured` the interface as it was when the
library was opened. Conversions keep their width: an interval in microseconds becomes
an `int` number of frames, a rate is an `uint32_t` made of a `double` (of infinity and of
negative numbers as the ARM conversion has it: it saturates). Products the code forms
in a `float` are exact up to 2^24; `IntervalAssumption` keeps periods and rates, other
than *never*, below that, since rounding is not modelled. `LevelAssumption` says that a
client's AVC level is one the interface declares. Left out: profiles,
colour aspects and VUI, GOP layers (`ParseGop` has no caller), temporal layers, intra
refresh, pixel formats. `C2VencW420.cpp` is not in `Android.bp`.

### Operators with a suffix

`KeptForEos_Always` and the like are the operator before the underscore with a
plausible bug in it. Putting one in the place of the other must break a
property; the pairs are listed in `PROJECT.json`. They are part of no action.

## 3. Properties and runs

All configurations disable the deadlock check: a client may stop calling for
good, a start without profile hangs, and a released component does nothing.

Runs that pass:

| Run | Bounds | Shows |
|---|---|---|
| `works` | 3 works: codec config without buffer, a frame, an EOS frame; pictures, error frames; 2 starts (may fail, or find no profile), 1 flush, 1 drain | `TypeOK`, `NoWorkLost`, the refinement `ImplementsContract` |
| `concurrent_clients` | 2 works, the second EOS; client threads unrestricted; pictures before inputs, double pictures; 1 start, 1 flush | `NoSpuriousError`, `InputKeptForDecoder`, `DrainDeliversPictures` |
| `liveness` | 1 EOS work; pictures, error frames, frames without output; 2 starts (may fail), 2 flushes, 1 early timeout, 1 error of the decoder; fair | `StopReturnsEverything`, `Progress` |
| `instances` | 4 components, limits 3/2/1, constructors may give up | `TypeOK`, `CountersMatchObjects`, `LimitsRespected`, `Vc1AloneAmongNonSecure` |
| `blocks` | 2 sizes, 2 numbers of buffers, 3 buffers by name, 1 block before the dequeue thread runs, a surface or a pool with 3 buffers; 1 start; 2 formats and 2 pictures, or 1 flush, 1 EOS and 3 of formats and pictures | `TypeOK`, `PendingBlocksOwned`, `DecoderWritesItsBlocks`, `DecoderSupplied` |
| `tunnel` | up to 3 works and 2 buffers at first, in four kinds of session: 1 or 2 changes of format with more or other buffers; with frames dropped, failed and a flush; with EOS and a drop; fair | `TypeOK`, `BuffersAccounted`, `FramesComeBack` |
| `device` | 7 platforms (5 codecs' XMLs, three gralloc set-ups, slices, P010 by hardware or software, MMU), 5 batches, 3 streams; 2 configs alone, or 1 config, 2 formats, 1 change of consumer, or 2 sessions with 2 formats and 2 reports | `TypeOK`, `ParametersAgree`, `BuffersHold`, `InfoReported` |
| `soft` | 5 works, the last two EOS; a library 0, 1 or 2 pictures late; 2 flushes; 1 drain, stop or reset; 2 starts; a failure of each kind, not all together; fair | `TypeOK`, `PictureOfItsWork`, `EosReportedLast`, `Progress` |
| `audio` | 3 works: codec config, a frame, an EOS frame; six decoders, each with the calls and failures it answers in its own way; 0 or 2 frames per work, delay 1, ring of 3; 2 starts; fair | `TypeOK`, `InfosMatchPending`, `EosReportedLast`, `OnlyUsesWhatIsThere`, `Progress` |
| `venc` | 3 works, the first requests a sync frame, the second is empty; 2 starts, 1 of each other call, 1 timeout, 1 failure of each kind; fair | `TypeOK`, `EncoderOpenWhileUsed`, `SyncRequestHonoured`, `CsdComesFirst`, `Progress` |
| `encoders` | 3 sizes, 2 rates, 3 bit rates, 4 periods of sync frames, 5 levels, quantizers of one kind of frame or of two; 2 configs, 2 starts, 3 frames whose time stamps stand still, advance or go back, 1 failure | `TypeOK`, `LevelCovers`, `LibraryAsConfigured` |

Two works are enough for the situations most properties of the hardware decoder are
about: one work with the decoder while another is queued, "the last pending work"
and "not the last", a stale callback of an old work beside a new one, and a picture
that is the second of its work. The third adds the works that are reported by other
paths: codec config, and works without buffer. Two sessions show what survives a
stop. One call of each other kind puts it at every point of the others; `liveness`
has two flushes because the hazard is an answer to the first that meets the second,
and one work because its properties are about calls. `NoSpuriousError` is not asked
of frames without output: there the code does report an error, for the id of a work
that a flush took away (`cpp` 3315); nor of empty works, for which `reportEOSWork()`
may find no pending work (`cpp` 3508). No run reaches *too many error frames*, which
needs more frames than there are works; the proofs cover that branch.

In `blocks` three names are one buffer with the decoder, one with the client and one
that is free, and one more is never reached by a number of two; the sizes are two as
a change only compares the old with the new. The three kinds of budget exclude each
other only to keep the instance small: what a change does to a picture that waits
needs formats and pictures, what EOS and flush do to the dequeue thread needs those.

In `tunnel` the kinds of session do not mix what the code does not cope with (below).
Two buffers at first and three after the change are the least with which one is shown,
one waits and one is with the decoder; descriptors are used again from the first frame on.

In `device` a stream within 1080p, one interlaced and one in 4K with 10 bits are on
either side of each limit that decides double write, as the platforms are for XML, MMU
and slices. `Outgrown` excludes from `BuffersHold` the four cases below in which the
code leaves buffers too small.

In `soft`, five works with a library two pictures late make two that wait, one whose
picture is ready and one queued, and an EOS that repeats; `MaxPending` 2 makes the
component wait for the library. `strayed` is excused from `PictureOfItsWork`: the list
below says when it becomes true.

In `audio` two frames per work fill the ring of three with the second work, and a
work without frames is one that decodes to nothing; a delay of one frame makes
the first work wait for a later one. One flush, stop and reset each meet every
step of the looper, and the second start shows what is left from before. In `venc`
three works are one in the worker's hands, one that a flush has moved out, and one
whose entry the other removes; a request beside the one of the first work meets it
at each step of `ProcessOneFrame()`. In `encoders` the sizes and bit rates lie in
different levels, and the periods are never, every frame, a second or two, and the
largest.

One run ends in a violation:

| Run | What happens |
|---|---|
| `tunnel_flush_hang` | the renderer drops a frame from before a resolution change, so its picture stays in `mPendingBuffersToWork` without a block; the next flush then never ends, as `onFlushDone()` does not remove such a picture and looks at it again (`cpp` 1648) |

### What the code does that its comments do not say

Met while modelling, and without a run. The models contain all of it, or leave it out
where section 2 says so.

Hardware video decoder, works:

* A picture kept for the EOS report leaves as a clone after it (`cpp` 1458, 3553).
* `mHasQueuedWork` is cleared after the client was woken (`cpp` 1559; `h` 511).
* A work without output whose input is late is never reported (`cpp` 3322).
* `flush_sm()` whose wait ends leaves FLUSHING while the reset is outstanding
  (`cpp` 3004; `h` 254 says STARTED comes after `onFlushDone()`).
* In error state `onStop()` ends without stopping or resetting the decoder, which
  still has the inputs of the works that are reported (`cpp` 1526).
* An empty work that `drain_nb()` made the EOS work is reported at once, without
  EOS (`cpp` 3508).
* With concurrent calls, a work whose `onQueueWork` runs between `onStop()` and
  `onStopDone()` stays in `mQueue` (`cpp` 1512).
* The limit of max-resolution instances is checked before the new instance is
  configured (`cpp` 218).
* An object whose thread never ran stays counted after it is deleted (`cpp` 383).
* A secure decoder is created beside a vc1 decoder (`cpp` 191), which the comment
  at 208 wants to be alone.
* `onFlushDone()` does not clear `mPendingOutputEOS` (`cpp` 1570; `h` 497 says that
  it is unset when works are abandoned), so it may keep the picture of an earlier work
  until, and past, a later EOS report.
* `onStop()` tests for FLUSHING (`cpp` 1529) after it stored STOPPING (1519), so it
  requests a second reset although the comment there says not to.
* A flush timeout on one thread overwrites STOPPING while another waits in `stop()`
  (`cpp` 3004), which then is never signalled.

Blocks:

* With a buffer pool, a change of the number alone meets blocks of before in
  `onOutputBufferReturned()` (`cpp` 917, "Just let the buffer be released."), and a
  change to the same size (2176) forgets what the pool has, which then gives a buffer
  a second id.
* With a buffer pool, a flush may end while a change to the same format waits for its
  last blocks. The change then forgets the blocks (2176) although one is in a task on
  its way back; `onReusedOutBuf` gives that one to the decoder all the same, the pool
  gives its id to another buffer, and a returned task finds a block that a picture
  waits on, which is reported as an error. The attempt to prove `PendingBlocksOwned` for
  both pools showed this; the property is about surfaces.
* `mGraphicBlockStateCount` is not reset at a reallocation (2162) nor by a stop, so
  the next session starts fewer tasks of the dequeue thread (659).
* `drain_nb()` without EOS leaves `mHaveDrainDone` set and the dequeue thread's loop
  stopped.

Tunnel mode (lines of `C2VdecTunnelHelper.cpp`):

* `onFlushDone()` keeps `mPendingOutputEOS`; an EOS after the flush fails a check (459).
* More buffers of the same size are allocated before `requestNewBufferSet()` raises
  the limit (658); a format that arrives while the ladder runs is asked with the old size.
* With H264 a frame that is dropped after a change loses its work.
* EOS as the last thing after the last render time, or after a dropped frame, is never
  reported; one whose own frame is the last is reported too early, and that frame then
  finds no work.
* An asynchronous flush of the renderer would look past the end of its map (434).
* After `stop()` the renderer is not there until the component is configured again.

Device configuration; the first four are `Outgrown`:

* A stream that becomes interlaced within a session keeps its buffers while the
  decoder's double write changes; `mIsInterlaced` is never reset.
* After `reallocateBuffersForUsageChanged()` (`cpp` 2265) `setForceFullUsage` reaches
  only the first gralloc, the slot keeps its value, and the decoder is not told.
* With AVC, 4K and MMU, `shouldEnableMMU` looks at the size in the interface, which
  the component changes.
* P010 by software is not taken back when the stream returns to 8 bits; P010 by
  hardware with slices of 540 and 8K changes in mid-stream.
* Gralloc slots are lost when the destructor (`cpp` 419) resets `mDeviceUtil` first.
* The difference of HDR values (`C2VdecDeviceUtil.cpp` 1041) compares the old lowest
  luminance with the new highest; `init_width` and `init_height` are exchanged (576); HDR values and colours
  survive a stop.

Interface: a `config()` that is rejected in the middle keeps what it set before; sizes
out of range are answered with `C2_OK` and count as max resolution all the same; an
input delay out of range becomes 0; the largest input grows by 256 KB with each size.

Encoders:

* HEVC levels in the fields are of the high tier and in the table of the main tier, so
  the level that is found is not the lowest (`LevelCovers` asks that it is enough).
* An unsupported profile is reported as constrained baseline and encoded as main.
* In `C2VencHCodec.cpp` a period of *never* overflows to 0, and one below a second
  makes each frame a sync frame; the last time stamp survives `Init()`.
* `C2VencW420New` takes no quantizers; frame rates are those of the configuration only
  until the first time stamps.
* `stop()` whose 500 ms end first joins the worker with the lock the worker needs to
  end (`C2VencComponent.cpp` 317, 1138).
* A flush beside the worker may destroy a work, or remove an entry from an empty list
  (246, 826); a frame that fails takes its work and the codec config along (991); the
  flags for EOS and for the header survive `stop()` (861, 962), so a second session has
  no codec config.

Audio decoders:

* A drain with EOS of the AAC decoder clears the info of the last pending work, which
  stays pending (`C2AudioAacDecoder.cpp` 869; `C2AudioDecComponent.h` 99). `audio`
  drains without EOS.
* A work that the looper finishes after `stop()` cleared the pending works becomes
  pending again, and stays until the next flush.
* AC4, EAC3 and DTS use freed configuration in a `start()` that follows a set-up that
  failed; `C2AudioDTSXDecoder.cpp` (992) ignores that its initialization failed; the
  FFmpeg decoder opens only some formats again after `reset()`. `OnlyUsesWhatIsThere`
  has the first and the last as its exceptions.
* EAC3 keeps what is left of the input across `stop()` and `flush_sm()`.
* `onInit()` that fails is still followed by `kWhatStart`.

Software decoder; each of these makes `strayed` true or disturbs the session:

* `onStop()` clears neither the frame indexes that wait nor `mFirstPictureReviced`.
* An input that fails before the first picture is taken for one whose picture is late;
  an EOS frame with data is fed again and again, and leaves works behind while the
  library fills.
* A picture is kept when fetching a block fails; a failure to map leaves its work
  waiting; a pool that fails destroys the work.
* `drain()` does nothing; a work that finishes after `reset()` becomes pending again.

### Fairness

`FairSpec` of `C2VdecComponent` assumes that `mThread` keeps running its tasks (it is a
message loop), that a client inside `start()`, `stop()` or `flush_sm()` goes on when it
is signalled or its wait is over, and that the decoder gives back each input,
delivers each picture, and answers each drain and reset. Weak fairness is
enough as each of these actions stays enabled until it is taken. No client is
assumed to make a call, and no error or *early* timeout is assumed to occur.

`FairSpec` of `VdecTunnel` assumes the same of `mThread` and the decoder, that the
renderer shows each frame in the end and gives the one before it back, and that a
client in `flush_sm()` goes on. No drop, change of format or call is assumed.

`FairSpec` of `AudioDecComponent` and of `SoftVdecComponent` assume that the looper goes
on, with whatever outcome, and that a client inside a call does. `Progress` asks nothing
for the works of a session that was stopped, or in which decoding or the block pool
failed: then works are destroyed, or stay pending behind `mSignalledError`.

`FairSpec` of `C2VencComponent` assumes that the worker, a thread of its own, goes
on with whatever outcome, and that a client inside `flush_sm()` or `stop()` does
when it can; fetching an output block ends, with or without one. The timeout of
`stop()` is not assumed to occur, and `Progress` asks nothing of calls once it has,
as the join may then not end. It allows works to be lost to a failure that occurred
and to a flush that was made.

## 4. Proofs

Every module is proved about for any values of its constants that satisfy its `ASSUME`s,
which TLC evaluates in every run: any number of works, components, sizes, names and
calls. Hypotheses beyond those are written in the theorem (`ASSUME Healthy PROVE ...`)
and explained here, with what goes wrong without them. Each theorem follows the same
argument: an invariant that holds initially, that each action preserves (a lemma for
each action or group), and that implies the property.

`C2VdecComponentProofs`:

* `TypeCorrect`: `TypeOK` is inductive; one lemma per group of actions.
* `StopCorrect`: for a serial client, `Spec => []StopReturnsEverything`. The
  property alone is not inductive: a task `onQueueWork` that runs after
  `onStopDone()` would put a work back. The strengthening `StopInv` says why
  there is none: a work is `posted` only if its task is queued
  (`PostedCarried`); `onStop` and `onStart` are the last tasks a client has
  posted (`StopLast`, `StartOnce`) and belong to the call in progress
  (`StopOfStopping`, `StartOfStarting`); in STOPPING nothing is posted or queued
  (`StoppingIsAlone`); in UNINITIALIZED nothing is held (`StoppedIsEmpty`).
  Without `SerialClient` the property is false (see section 3).
* `NoWorkLostCorrect`, `NoSpuriousErrorCorrect` and `InputKeptCorrect`, under `Healthy`.
  The invariant is `OrderlyInv`: as long as the decoder has told no error and no wait
  of a flush has ended early (`Orderly`), `HealthInv` holds; and what holds always,
  `TypeOK`, `StopInv` and `FrameInv` (each frame has one outcome, and error frames are
  counted once). `HealthInv` relates what the four kinds of actor have: the order of
  tasks in the queue (`TaskOrder`), the state of `mThread` in each call of the client
  (`OneCall`, `Stage`), the inputs the decoder has (`GivenPending`: each is of a pending
  work, whose buffer is held), one reset and one drain at most, asked or answered but
  not both (`Resets`, `Drains`), and what is empty at the ends of a flush and of a
  stop. None of the properties is inductive: that no callback meets a state it reports
  as an error is a matter of which answers are still on their way.
* `ContractCorrect`: `Spec => ImplementsContract`, the refinement of `WorkContract`,
  from the same invariant. Each action maps to a step of the contract or to a stutter.
* `Healthy` has four parts, and each is needed. Without `SerialClient` a flush that
  crosses a stop leaves stale answers to resets. Works without buffer must be EOS or
  codec config, as `reportEOSWork()` may find none pending (`cpp` 3508). Frames without
  output lead to an error report for the id of a flushed work (`cpp` 3315). And error
  frames must be no more than the component tolerates (`MaxErrorFrames`), after which it
  reports an error. The contract needs, besides, a decoder without errors and waits that
  do not end early: the contract has no error state of its own.
* `DrainDeliversCorrect`, under `Delivering` and when neither errors of the decoder nor early
  ends of a wait are allowed. The invariant is `DeliveryInv`: the pictures of a pending work
  are owed by the decoder, told, or waiting (`Coming`); they are told before the answer of a
  drain or of a reset (`PictureOrder`, `AllMade`, `AllTold`); at most one work without input
  is pending, and only in a drain with EOS (`EndOfDrain`); a second picture finds one to clone
  (`Cloneable`). So at the end of a drain one work is pending, kept for EOS with its picture,
  or none of the pending works has one and there is just the EOS work (`Drained`,
  `OneIsLeft`).
* `Delivering` is `Healthy` with a picture for each frame and without codec config. The
  property forbids every C2_NOT_FOUND at the end of a drain, and a frame of which the
  decoder makes nothing ends there. So may codec config: a flush of a drain leaves
  `mPendingOutputEOS` set, the next work, when it is codec config, is kept for an EOS that
  is not to come, and an empty EOS work that follows makes `reportEOSWork()` abandon it.
  TLC finds this with three works, of which the first and the third carry EOS.

`VdecInstancesProofs`: `CountersMatchObjects` is not inductive, as an object that
leaks stays counted. The invariant `IInv` says instead that each counter is the
number of *counted* objects, the leaked ones included; that one creation is under
way at most, of a component that is not yet configured; and that what its checks
found still holds while others go away (`RoomForOne`, `OnlyVc1`): destructions
only make room. From it `TypeCorrect`, `CountersCorrect`, `LimitsCorrect` and
`Vc1Correct` hold for any finite set of components and any limits.

`C2VencComponentProofs`, for any number of works and any bounds on calls:

* `TypeCorrect`: `TypeOK` is inductive. That the worker has a work while it works on
  one (`HasWork`) is part of it, as `loc` is updated at that work.
* `EncoderCorrect`, from `WorkerAlive`: while there is a worker, `mRunning` holds, the
  encoder is open and the component not UNINITIALIZED. The join in `stop()` comes
  before the close; nothing is asked of the timeout.
* `SyncCorrect`: `SyncRequestHonoured` is inductive beside `TypeOK`.
* `CsdCorrect`, from `CsdInv`: a frame is encoded only once the header was made
  (`HeaderFirst`), and a header that was made is with the client or with the worker,
  or was lost to a failure (`CsdKept`).
* `ReportCorrect`, from `WorkerAlive` and `QueueRight`: without a worker only the
  client moves works. `QueueRight` says that a work has one entry in `mQueue`, and
  that its place is then `queue`, and that the work in the flush's or the worker's
  hands is where that says; so the entry that a flush removes, and the work that it
  returns, are not works that were reported.

`AudioDecComponentProofs`, for each of the six decoders:

* `TypeCorrect`: `TypeOK` is inductive.
* `OnlyUsesCorrect`, from `UseInv`. `OnlyUsesWhatIsThere` looks at a step that has already
  gone wrong; the invariant says what each decoder has before it is set up and after
  (`Usable`), that it is set up whenever the looper may be told to start or run
  (`Prepared`), and which messages can be on their way during each call
  (`CallMessages`).
  `Excused` are the two cases section 3 lists.
* `EosReportedLastCorrect`, from `OrderInv` and `InfosHold`, with the next. Works are taken
  from the queue in the order they were queued, the one in the looper's hands precedes
  those in the queue, its generation is old if and only if a flush came since
  (`CurInv`), and nothing pending carries EOS (`PendingInv`).
* `InfosMatchCorrect`: between two messages the property says that two lists name the
  same works. Within `processQueue()` they do not, and `InfosInv` says by what they
  differ at each point: the work that is about to become pending.
* The last two assume `EosWithData`: EOS comes with a work that is not codec config. A
  drain with EOS takes the last pending work for the EOS work, and both properties are
  then false (section 3); codec config is finished without regard to its EOS flag.

`SoftVdecComponentProofs`:

* `TypeCorrect`.
* `PictureCorrect`, from `StrayInv`: between two rounds the list of works that wait is the
  list of frames in the library (`Level`), and within `process()` one leads the other by
  the frame in hand (`ListsInv`). `strayed` is true once one of the listed cases made
  them part; nothing is assumed otherwise.
* `EosReportedLastCorrect`, from `OrderInv` and `ReportInv`, under `EosNotCsd`: after EOS the
  list is empty, so that no pending work is left to be reported.

`VencEncodersProofs`:

* `TypeCorrect` and `LevelCorrect`, from `TypeInv`. The setters keep the interface inside what
  is supported (`Supported`), and the level fits it (`LevelFits`). That the walk over the
  table ends at a level that covers rests on `AvcRising`: each row has at least what the
  one before it has.
* `LibraryCorrect`, from `LibraryInv`: while the handle is open every function the encoder
  calls was loaded, also if an earlier start left some behind; the rate the library has
  is the one the encoder object remembers, so that time stamps that stand still leave it
  as it is; and the stream is that of the interface when the library was opened.

`VdecBlocksProofs`:

* `TypeCorrect`, for either pool. `TypeOK` is not inductive: handlers take tasks and blocks
  for what they are by the state they run in, and a count of blocks by state that became
  negative would ask for tasks without end (`CountInv`). `OrderInv` says which task can be
  behind which in `mTaskQueue`: calls (`CallsInv`), the answer to a reset (`ResetInv`), a
  change of the format (`FormatInv`), what is quiet after a flush (`FlushInv`) and empty
  before the first allocation (`EmptyInv`). `KnownInv` says that an id that the decoder, a
  picture or a task names is that of a block.
* `PendingBlocksCorrect` and `DecoderWritesCorrect`, from `SurfaceInv`, of a surface: ids are
  one to one with buffers and each block has the buffer and the descriptor that the
  pool knows under its id (`NamesOK`); a task brings a buffer that nobody else has
  (`BroughtOK`); a block is with the decoder, in a task with its picture, or with a
  picture that waits, and with one of them only (`OwnersOK`, `PicturesDiffer`); and tasks of
  the size before a change come before those of the next (`QueueOK`). With a buffer
  pool ids are not one to one, and the first property is false (section 3).
* `DecoderSuppliedCorrect`, of a surface, from `SupplyInv`: the blocks that the decoder or the
  component owns without those of pictures that wait (`Owned`), the buffers of the stream's
  size that tasks bring (`Brought`, a set of buffers, as a task may bring an obsolete one)
  and the tasks of the dequeue thread are together (`Supply`) as many as the decoder asked
  for. A step moves one from one of these to another: a picture takes a block and posts a
  task, a fetch turns a task into a buffer, a return turns a buffer into a block. The
  property itself is not inductive: between the return of a flush and the first work
  nothing is promised, and that work makes the sum right by the counts, which it can only
  as no picture waits then. `DrainInv` shows that for the work after an end of stream:
  no second work is queued while one feeds the decoder, no picture comes behind the
  drain's task, and once `mReportEosWork` is set nothing of the stream is left.

`VdecDeviceProofs`, for any platforms, batches, streams and budgets that satisfy the
assumptions above:

* `TypeCorrect` and `ParametersAgreeCorrect`, from `IntfInv`. What a batch of any length does
  is a fold of setters, then one calculation, then a fold of handlers. `FoldOfApply` and
  `FoldOfHandle` give the states in between, and an induction over them (the set of
  indices at which the invariant fails has a least element, `WFMin`) shows that each is a
  possible interface (`GoodInterface`) and that no handler undoes what the calculation gave
  to large pictures (`LargeEnough`). The second half of the property rests on
  `isCodecSupport4k()` and `isCodecSupportResolutionRatio()` deciding alike (`TierCovers`).
  If the handler's property were below 4 MB, a `maxInput` in the batch would make the
  buffers of a large picture too small; hence the assumption.
* `InfoReportedCorrect`, from `HdrInv` and `ColorsInv`: while the report of a value is on its
  way (`HdrPending`, `ColorsPending`), `params` and `reported` have the stream's; else the
  interface has the last one reported, and what the next is compared with is the
  interface's or was reset so that everything differs. A picture has what the interface
  has unless the flag is up, about to be raised, or was just taken down. Sessions and
  reconfigurations matter as `codecConfig()` resets what is compared, and the interface
  keeps it. `StreamsAssumption` is needed there: the lowest luminance alone would count as
  no difference from what was reset. So does the comparison as the code has it give
  equality in all but that luminance (`NotDifferent`).

Only model-checked:

* all liveness properties (`Progress`, `FramesComeBack`): they rest on fairness, and so on
  ENABLED, which the provers do not handle;
* `DrainDeliversPictures` for clients that call as they like, as in `concurrent_clients`;
* `BuffersHold` of `VdecDevice`: products of widths and heights that are scaled and
  compared, in each mode of double write of each platform, which the provers' arithmetic
  does not reach;
* `TypeOK` and `BuffersAccounted` of `VdecTunnel`: not attempted. The invariant needs the
  descriptors that `FreeFd` gives out, and where each buffer is in each kind of session.

Of the other modules every safety property that a run checks is stated by a theorem, as
is `NothingReportedWhenStopped` of `C2VencComponent`, which no run checks.

## 5. Plan

Done: works, instances, blocks, tunnel mode, interface and device configuration of the
hardware decoder; the software decoder; the audio framework with six decoders; the
encoder framework with three encoders; the proofs of section 4. Left:

1. Proofs: `TypeOK` and `BuffersAccounted` of `VdecTunnel`.
2. That `AudioDecComponent` and `SoftVdecComponent` implement `WorkContract`.
3. Works and blocks in one instance, through the pictures that wait; EOS of the
   encoders across sessions; destruction without `stop()`.

Not modelled, and why:

* `C2VencComp.cpp`, a second copy of the encoders' framework for the HEVC library with
  the same handshake; `C2VencW420.cpp`, which is not built.
* Tuner passthrough: it passes calls on to a library.
* The service, the command line client, logging, debug switches and dump files: they
  keep no state that a component reads.
* What is below the HAL, the renderer, the codec libraries and gralloc: they are
  external, and what the code relies on of them is in the modules that use them.
