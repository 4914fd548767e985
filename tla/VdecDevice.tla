------------------------------ MODULE VdecDevice ------------------------------
(***************************************************************************)
(* The device configuration of the hardware video decoder: what DeviceUtil *)
(* tells the decoder to write (C2VdecDeviceUtil), how large a buffer       *)
(* GrallocWraper makes of it, and how what the decoder says of the stream  *)
(* reaches the client with its pictures.                                   *)
(*                                                                         *)
(* Three threads share one DeviceUtil.  mThread starts the component,      *)
(* looks at the consumer of the pictures, handles formats and attaches the *)
(* current information to each picture; the thread of the decoder reports  *)
(* formats, fields and the colours of the stream; the dequeue thread       *)
(* fetches the buffers after the first.  No step of two of them is atomic  *)
(* unless it is one action here.                                           *)
(*                                                                         *)
(* A buffer is its real size.  External: the decoder (which sizes it       *)
(* writes for a mode of double write) and gralloc (which buffers a usage   *)
(* gives).  Alignment, which only enlarges buffers, is left out.           *)
(*                                                                         *)
(* Not modelled: pictures in tunnel mode (VdecTunnel has their buffers),   *)
(* the properties that force a mode of double or triple write (no other    *)
(* mode is 0, so triple write is never used), Dolby Vision by 540p or      *)
(* P010, HDR10+, a gralloc without free slots, fixed slices with the first *)
(* version of gralloc.                                                     *)
(***************************************************************************)
EXTENDS VdecInterface

CONSTANTS
    Streams,   \* the streams a decoder can be given
    Budgets    \* how often in a behaviour: configs, sessions, formats, changes of
               \* consumers, infos

\* What a decoder says of a stream.
Hdrs == [primaries : Nat, red : Nat, max : Nat, min : Nat]
Described == [size : Sizes, interlaced : BOOLEAN, depth : Nat, hdr : Hdrs, colors : STRING]

\* A stream that says anything of HDR says more than the lowest luminance, to which
\* isHDRStaticInfoDifferent() is blind.
ASSUME StreamsAssumption ==
    /\ Streams \subseteq Described
    /\ \A s \in Streams : s.hdr = noHdr \/ [s.hdr EXCEPT !.min = 0] # noHdr

VARIABLES
    session,   \* whether the component is stopped, started or in error
    dev,       \* the fields of DeviceUtil and of its GrallocWraper
    params,    \* mConfigParam
    decoder,   \* what was sent of it to the decoder last
    consumer,  \* who takes the pictures: the display, a texture or a pool of buffers
    stream,    \* what the decoder is at
    playing,   \* the stream of the format that mThread handled last
    format,    \* mPendingOutputFormat: its coded size, and whether mThread saw it
    coded,     \* mOutputFormat.mCodedSize
    flags,     \* mSurfaceUsageGot, mBufferFirstAllocated, and mRequestedVisibleRect's
    buffers,   \* the sizes of the buffers that the component holds
    current,   \* mCurrentHdrStaticInfo and mCurrentColorAspects
    writer,    \* what UpdateDecInfo() has still to do
    reader,    \* where updateWorkParam() is
    reported,  \* what was reported of the stream in this session
    budget

deviceVars == <<session, dev, params, decoder, consumer, stream, playing, format, coded, flags,
                buffers, current, writer, reader, reported, budget>>
vars       == <<interfaceVars, deviceVars>>
-----------------------------------------------------------------------------
(* The fields of DeviceUtil.                                                *)

NoSize   == [width |-> 0, height |-> 0]
noStream == [size |-> NoSize]

\* A new DeviceUtil.
init ==
    [nr |-> FALSE, di |-> FALSE, mmu |-> FALSE, is8k |-> FALSE, codec8k |-> FALSE,
     texture |-> FALSE, noSurface |-> FALSE, interlaced |-> FALSE, forceFull |-> FALSE,
     bitDepth |-> 0, p010 |-> FALSE, size |-> NoSize, signal |-> none, hdrChanged |-> FALSE,
     colorsChanged |-> FALSE, slot |-> FALSE, usage |-> NoSize]

\* The parameters of the decoder, as codecConfig() clears them.
NoParams == [doubleWrite |-> 0, nr |-> FALSE, di |-> FALSE, unuseAvbc |-> FALSE,
             disableVpp |-> FALSE, lowLatency |-> FALSE, hdr |-> noHdr]

Codec    == name.codec
OnOsd(d) == d.texture \/ d.noSurface
Scaled(size, k) == [width |-> size.width \div k, height |-> size.height \div k]
Max4k     == [width |-> 4096, height |-> 2304]
Max8k     == [width |-> 8192, height |-> 4352]
Max1080p  == [width |-> 1920, height |-> 1088]
Stub      == [width |-> 16, height |-> 16]

shouldEnableMMU(d) ==
    /\ Codec = "H264" /\ d.mmu /\ ~d.interlaced /\ ~OnOsd(d) /\ ~name.secure
    /\ Area(intf.size) >= platform.mmuArea

Slice_Unset(d) ==
    CASE platform.slice = 540 /\ ~d.texture /\ ~name.secure -> \h400
      [] platform.slice = 1080 /\ ~name.secure              -> \h200
      [] OTHER                                              -> NoParams.doubleWrite

\* A buffer of one size, whatever the size of the picture, unless the pictures are secure.
Slice(d) ==
    CASE platform.slice = 540 /\ ~d.texture /\ ~name.secure -> \h400
      [] platform.slice = 1080 /\ ~name.secure              -> \h200
      [] OTHER                                              -> 3

AvcDoubleWrite(d) ==
    IF OnOsd(d) \/ d.interlaced \/ ~d.nr \/ ~d.di \/ platform.diPost
    THEN IF platform.slice = 540 /\ ~OnOsd(d) /\ ~d.interlaced THEN \h400 ELSE \h10
    ELSE Slice(d)

HevcDoubleWrite(d) ==
    IF platform.hwP010 /\ d.p010 THEN IF OnOsd(d) THEN \h10001 ELSE 3
    ELSE IF OnOsd(d) THEN IF d.p010 THEN 3 ELSE 1
    ELSE IF Codec = "H265" /\ d.interlaced THEN 1 ELSE Slice(d)

CodecDoubleWrite(d) ==
    CASE Codec \in {"H264", "DVAV"}                       -> AvcDoubleWrite(d)
      [] Codec \in {"MP2V", "MP4V", "MJPG", "AVS", "VC1"} -> \h10
      [] Codec \in {"AVS2", "AVS3"}                       -> 3
      [] OTHER                                            -> HevcDoubleWrite(d)

\* What the decoder should write besides its compressed pictures.
getDoubleWriteModeValue(d) ==
    IF d.is8k /\ ~OnOsd(d) /\ ~platform.swP010 /\ ~platform.display8k THEN 4
    ELSE IF shouldEnableMMU(d) THEN 3 ELSE CodecDoubleWrite(d)

needDecoderReplaceBufferForDiPost(d) ==
    /\ d.interlaced /\ platform.diPost /\ ~OnOsd(d)
    /\ Codec \in {"MJPG", "H264", "MP2V", "MP4V", "AVS"}

isNeedHalfHeightBuffer(d) == d.interlaced /\ Codec = "H265" /\ platform.diPost

isNeedMaxSizeForAvc(doubleWrite) == doubleWrite \notin {0, 1, \h10001, \h10, \h10010}

needAllocWithMaxSize(d) ==
    /\ ~OnOsd(d)
    /\ \/ /\ Codec \in {"H264", "DVAV"}
          /\ ~d.interlaced /\ isNeedMaxSizeForAvc(getDoubleWriteModeValue(d))
       \/ Codec \in {"VP9", "H265", "AV1", "DVHE", "DVAV1"}

\* The largest picture that the codec may meet, turned as the picture is.
getMaxBufWidthAndHeight(d, size) ==
    LET small == \/ Codec \in {"H265", "H264"} /\ d.interlaced
                 \/ Codec \in {"MP2V", "MP4V"} /\ Area(size) <= Area(Max1080p)
        max   == IF ~isCodecSupport4k(name) THEN Max1080p
                 ELSE IF d.is8k \/ d.codec8k THEN Max8k
                 ELSE IF small THEN Max1080p ELSE Max4k
    IN  IF size.height > size.width THEN [width |-> max.height, height |-> max.width] ELSE max

\* Pictures of ten bits: the decoder writes them where it can; else only textures and pools
\* get them, up to a size.
UsesHardwareP010(d) == d.bitDepth = 10 /\ platform.hwP010 /\ intf.pixelFormat = "10bit"

UsesSoftwareP010(d) ==
    LET max == IF isCodecSupport4k(name) THEN [width |-> 3840, height |-> 2160]
                                         ELSE [width |-> 720, height |-> 576]
    IN  /\ d.bitDepth = 10 /\ intf.pixelFormat = "10bit" /\ ~name.secure /\ OnOsd(d)
        /\ d.size.width <= max.width /\ d.size.height <= max.height

checkUseP010Mode(d) ==
    IF UsesHardwareP010(d) \/ UsesSoftwareP010(d) THEN [d EXCEPT !.p010 = TRUE] ELSE d

checkSupport8kMode(d) ==
    (d.is8k /\ OnOsd(d) /\ ~d.codec8k) => platform.bufMode8k

\* The values are truncated before they are compared with 0: those of colours are below 1.
HasHDRStaticInfo(hdr) == hdr.max # 0

\* DeviceUtil and the parameters after codecConfig().
ConfiguredDevice(d) ==
    LET low == intf.lowLatency \/ intf.gameMode
        is8k == Area(intf.size) > Area(Max4k)
    IN  [d EXCEPT !.nr = platform.nr /\ ~low /\ (is8k => platform.nr8k),
                  !.di = platform.di /\ ~low,
                  !.mmu = intf.avc4kMMU \/ platform.avc4kMMU,
                  !.size = intf.size,
                  !.codec8k = @ \/ isCodecSupport8k(name),
                  !.is8k = @ \/ is8k]

codecConfig(d) ==
    LET c    == ConfiguredDevice(d)
        on   == [c EXCEPT !.nr = @ /\ ~OnOsd(c), !.di = @ /\ ~OnOsd(c)]
    IN  [dev |-> on,
         params |-> [NoParams EXCEPT !.doubleWrite = getDoubleWriteModeValue(c),
                                     !.nr = on.nr, !.di = on.di, !.unuseAvbc = OnOsd(c),
                                     !.lowLatency = intf.lowLatency \/ intf.gameMode,
                                     !.hdr = IF Codec \in {"VP9", "AV1"} /\ HasHDRStaticInfo(intf.hdr)
                                             THEN intf.hdr ELSE @]]
-----------------------------------------------------------------------------
(* GrallocWraper: the size of the buffers of a usage.                       *)

SliceBuffer(doubleWrite) ==
    IF doubleWrite = \h200 THEN [width |-> 2048, height |-> 1088] ELSE [width |-> 1024, height |-> 576]

calculateRealBufferSize(d, size) ==
    LET doubleWrite == getDoubleWriteModeValue(d)
        base == IF needAllocWithMaxSize(d) THEN getMaxBufWidthAndHeight(d, NoSize) ELSE size
        real == CASE doubleWrite \in {1, \h10, \h10001} -> base
                  [] doubleWrite = 3                    -> Scaled(base, 4)
                  [] doubleWrite = 4                    -> Scaled(base, 2)
                  [] OTHER                              -> SliceBuffer(doubleWrite)
    IN  IF platform.replaceBuffers /\ needDecoderReplaceBufferForDiPost(d) THEN Stub
        ELSE IF OnOsd(d)
             THEN IF d.p010 /\ ~platform.hwP010 THEN Scaled(base, 4) ELSE base
             ELSE IF isNeedHalfHeightBuffer(d) THEN [real EXCEPT !.height = @ \div 2] ELSE real

\* Before it has a version 2, gralloc scales the size that is asked for by the usage.
getUsageFromDoubleWrite(doubleWrite, size) ==
    CASE doubleWrite \in {1, \h10, \h10001} -> size
      [] doubleWrite = 4                    -> Scaled(size, 2)
      [] OTHER                              -> Scaled(size, 4)

getPlatformUsageV1(d, size) ==
    IF platform.replaceBuffers /\ needDecoderReplaceBufferForDiPost(d) THEN Stub
    ELSE IF ~(d.p010 /\ platform.hwP010) /\ (OnOsd(d) \/ (d.forceFull /\ ~d.p010)) THEN size
         ELSE getUsageFromDoubleWrite(getDoubleWriteModeValue(d), size)

\* A slot of gralloc keeps its usage until it is freed.
getPlatformUsage(d, size) ==
    IF platform.gralloc = 1 THEN [d EXCEPT !.usage = getPlatformUsageV1(d, size)]
    ELSE IF d.slot THEN d
         ELSE [d EXCEPT !.slot = TRUE, !.usage = calculateRealBufferSize(d, size)]
-----------------------------------------------------------------------------
(* mThread and the client: sessions.                                        *)

Spend(what) == budget[what] > 0 /\ budget' = [budget EXCEPT ![what] = @ - 1]

NoFlags == [usageGot |-> FALSE, allocated |-> FALSE, visible |-> FALSE]
NoFormat == [at |-> none, size |-> NoSize]
NothingReported == [seen |-> {}, fields |-> {}, hdr |-> noHdr, colors |-> none]

\* onStart(): the next DeviceUtil forgets what the last one knew of its stream.
onStart ==
    /\ session = "stopped" /\ comp.exists /\ ~comp.tunnel
    /\ Spend("sessions")
    /\ LET c == codecConfig(init)
       IN  dev' = c.dev /\ params' = c.params /\ decoder' = c.params
    /\ session' = "started"
    /\ consumer' \in {"display", "texture", "pool"}
    /\ reported' = NothingReported
    /\ UNCHANGED <<interfaceVars, stream, playing, format, coded, flags, buffers, current, writer,
                   reader>>

\* The client may give the pictures to another consumer of its surface.
ChangeConsumer ==
    /\ session = "started" /\ consumer # "pool"
    /\ Spend("consumers")
    /\ consumer' \in {"display", "texture"} \ {consumer}
    /\ UNCHANGED <<interfaceVars, session, dev, params, decoder, stream, playing, format, coded,
                   flags, buffers, current, writer, reader, reported>>

\* onStop() and onStopDone(); the decoder was destroyed before.
onStop ==
    /\ session # "stopped"
    /\ writer = <<>> /\ reader = "idle"
    /\ session' = "stopped"
    /\ flags' = NoFlags /\ format' = NoFormat /\ buffers' = {}
    /\ stream' = noStream /\ playing' = noStream
    /\ UNCHANGED <<interfaceVars, dev, params, decoder, consumer, coded, current, writer, reader,
                   reported, budget>>

\* The first input makes the component look at the consumer.  A decoder for a texture or a
\* pool is made again; for a texture, the consumer may have changed meanwhile.
onCheckVideoDecReconfig ==
    /\ session = "started" /\ reader = "idle" /\ ~flags.usageGot
    /\ flags' = [flags EXCEPT !.usageGot = TRUE]
    /\ IF consumer = "display"
       THEN UNCHANGED <<dev, params, decoder, consumer, budget>>
       ELSE \E again \in {consumer} \cup {"display"} :
                LET c == codecConfig([dev EXCEPT !.texture = @ \/ again = "texture",
                                                 !.noSurface = @ \/ consumer = "pool"])
                IN  /\ IF again = consumer THEN UNCHANGED <<consumer, budget>>
                       ELSE consumer = "texture" /\ consumer' = again /\ Spend("consumers")
                    /\ dev' = c.dev /\ params' = c.params /\ decoder' = c.params
    /\ UNCHANGED <<interfaceVars, session, stream, playing, format, coded, buffers, current,
                   writer, reader, reported>>
-----------------------------------------------------------------------------
(* The decoder's thread: formats and fields.                                *)

\* FIELD_INTERLACED; nothing takes it back.
updateInterlacedInfo ==
    /\ session = "started" /\ stream # noStream
    /\ stream.interlaced /\ ~dev.interlaced
    /\ dev' = [dev EXCEPT !.interlaced = TRUE]
    /\ UNCHANGED <<interfaceVars, session, params, decoder, consumer, stream, playing, format,
                   coded, flags, buffers, current, writer, reader, reported, budget>>

\* A stream that the decoder can decode begins, or another follows.
Begin(s) ==
    /\ session = "started" /\ flags.usageGot
    /\ format = NoFormat /\ writer = <<>> /\ stream = playing /\ s # stream
    /\ isCodecSupportResolutionRatio(name, Area(s.size))
    /\ Spend("formats")
    /\ stream' = s
    /\ UNCHANGED <<interfaceVars, session, dev, params, decoder, consumer, playing, format, coded,
                   flags, buffers, current, writer, reader, reported>>

ProvidePictureBuffers ==
    /\ session = "started" /\ stream # playing /\ format = NoFormat
    /\ LET d == checkUseP010Mode([dev EXCEPT !.bitDepth = stream.depth])
       IN  /\ dev' = d
           /\ format' = [at |-> "posted",
                         size |-> IF needAllocWithMaxSize(d)
                                  THEN getMaxBufWidthAndHeight(d, stream.size)
                                  ELSE stream.size]
    /\ flags' = [flags EXCEPT !.visible = FALSE]
    /\ UNCHANGED <<interfaceVars, session, params, decoder, consumer, stream, playing, coded,
                   buffers, current, writer, reader, reported, budget>>
-----------------------------------------------------------------------------
(* mThread: formats.                                                        *)

\* The parameters that are sent to the decoder for interlaced pictures.
InterlacedParams(d, p) ==
    LET mode == IF Codec = "H265" /\ d.interlaced /\ p.doubleWrite = 3
                THEN IF d.bitDepth = 10 THEN 1 ELSE \h10
                ELSE IF \/ Codec = "H264" /\ d.interlaced /\ p.doubleWrite = 3
                        \/ needDecoderReplaceBufferForDiPost(d)
                     THEN \h10 ELSE p.doubleWrite
    IN  [p EXCEPT !.doubleWrite = mode, !.disableVpp = @ \/ platform.highBitrate]

\* And those for pictures of ten bits.
P010Params(d, p) ==
    IF platform.hwP010
    THEN [p EXCEPT !.doubleWrite = getDoubleWriteModeValue(d), !.disableVpp = @ \/ platform.bypassVpp]
    ELSE [p EXCEPT !.doubleWrite = IF OnOsd(d) THEN 3 ELSE @, !.unuseAvbc = FALSE]

\* checkConfigInfoFromDecoderAndReconfig(), for fields and then for ten bits.  What is not
\* sent reaches the decoder with what is sent next.
onOutputFormatChanged ==
    /\ session = "started" /\ reader = "idle" /\ format.at = "posted"
    /\ LET p1      == InterlacedParams(dev, params)
           sent1   == p1 # params \/ needDecoderReplaceBufferForDiPost(dev) \/ platform.highBitrate
           d       == checkUseP010Mode(dev)
           tenBits == UsesHardwareP010(dev) \/ UsesSoftwareP010(dev)
           p2      == IF tenBits THEN P010Params(d, p1) ELSE p1
           sent2   == tenBits /\ (platform.hwP010 \/ p2.doubleWrite # p1.doubleWrite)
       IN  /\ dev' = d
           /\ decoder' = IF sent2 THEN p2 ELSE IF sent1 THEN p1 ELSE decoder
           /\ params' = p2
    /\ format' = [format EXCEPT !.at = "pending"]
    /\ reported' = [reported EXCEPT !.fields = @ \cup {dev.interlaced, stream.interlaced}]
    /\ UNCHANGED <<interfaceVars, session, consumer, stream, playing, coded, flags, buffers, current,
                   writer, reader, budget>>

\* The format is handled; its buffers are next.
FormatHandled ==
    /\ playing' = stream
    /\ coded' = format.size
    /\ format' = NoFormat

\* The consumer at a second look.
LookAgain ==
    \/ UNCHANGED <<consumer, budget>>
    \/ consumer' \in {"display", "texture"} \ {consumer} /\ Spend("consumers")

\* All buffers are fetched again for the consumer of then; neither the slot of gralloc nor the
\* decoder is told.
reallocateBuffersForUsageChanged(d) ==
    /\ LookAgain
    /\ dev' = getPlatformUsage([d EXCEPT !.texture = consumer' = "texture",
                                         !.forceFull = @ \/ consumer' = "display"],
                               format.size)

\* allocNonTunnelBuffers(), for the first buffer of a queue perhaps twice.
allocNonTunnelBuffers(d) ==
    IF checkSupport8kMode(d)
    THEN LET d2 == checkUseP010Mode(getPlatformUsage(d, format.size))
         IN  /\ \/ dev' = d2 /\ UNCHANGED <<consumer, budget>>
                \/ consumer # "pool" /\ reallocateBuffersForUsageChanged(d2)
             /\ buffers' = {dev'.usage}
             /\ UNCHANGED session
    ELSE /\ session' = "error" /\ dev' = d
         /\ UNCHANGED <<buffers, consumer, budget>>

\* allocateBuffersFromBlockPool(): whose pictures they are is looked at again.
AllocateFirst ==
    /\ session = "started" /\ reader = "idle" /\ format.at = "pending" /\ ~flags.allocated
    /\ flags' = [flags EXCEPT !.allocated = TRUE]
    /\ FormatHandled
    /\ allocNonTunnelBuffers([dev EXCEPT !.texture = @ \/ consumer = "texture",
                                         !.noSurface = @ \/ consumer = "pool"])
    /\ UNCHANGED <<interfaceVars, params, decoder, stream, current, writer, reader, reported>>

VisibleSize == <<[param |-> "size", value |-> stream.size]>>

isReallocateOutputBuffer_KeepsSlot(d, more) ==
    [realloc |-> format.size # coded \/ (d.noSurface /\ more), dev |-> d]

\* more: the format asks for more buffers.
isReallocateOutputBuffer(d, more) ==
    LET realloc == format.size # coded \/ (d.noSurface /\ more)
    IN  [realloc |-> realloc, dev |-> IF realloc THEN [d EXCEPT !.slot = FALSE] ELSE d]

\* videoResolutionChange().
videoResolutionChange ==
    /\ session = "started" /\ reader = "idle" /\ format.at = "pending" /\ flags.allocated
    /\ \E more \in BOOLEAN :
           LET r == isReallocateOutputBuffer(dev, more)
           IN  /\ dev' = r.dev
               /\ buffers' = IF r.realloc THEN {} ELSE buffers
    /\ FormatHandled
    /\ Configure(VisibleSize)
    /\ UNCHANGED <<platform, mComponents, mCodecAttributes, padding, name, configs,
                   session, params, decoder, consumer, stream, flags, current, writer, reader,
                   reported, budget>>

\* The dequeue thread fetches a buffer of the format handled last.
onAllocBufferTask ==
    /\ session = "started" /\ flags.allocated
    /\ dev' = getPlatformUsage(dev, coded)
    /\ buffers' = buffers \cup {dev'.usage}
    /\ UNCHANGED <<interfaceVars, session, params, decoder, consumer, stream, playing, format,
                   coded, flags, current, writer, reader, reported, budget>>

\* The first picture of a format tells its size.
onVisibleRectChanged ==
    /\ session = "started" /\ reader = "idle" /\ flags.allocated /\ format = NoFormat
    /\ stream = playing /\ ~flags.visible
    /\ flags' = [flags EXCEPT !.visible = TRUE]
    /\ Configure(VisibleSize)
    /\ UNCHANGED <<platform, mComponents, mCodecAttributes, padding, name, configs,
                   session, dev, params, decoder, consumer, stream, playing, format, coded, buffers,
                   current, writer, reader, reported, budget>>
-----------------------------------------------------------------------------
(* What the decoder says of the stream's colours: its thread writes it to   *)
(* the interface and raises a flag, mThread reads it for the next picture.  *)

\* The condition for red is an assignment that is true unless both are 0, and the old lowest
\* luminance is compared with the new highest.
isHDRStaticInfoDifferent(old, new) ==
    \/ old.primaries # new.primaries
    \/ old.red # 0 \/ new.red # 0
    \/ old.max # new.max
    \/ old.min # new.max

checkHdrStaticInfoMetaChanged(hdr) ==
    hdr # noHdr /\ isHDRStaticInfoDifferent(params.hdr, hdr)

Steps_FlagFirst(hdrChanged, colorsChanged) ==
    (IF colorsChanged THEN <<"flagColors", "configColors">> ELSE <<>>)
        \o (IF hdrChanged THEN <<"flagHdr", "configHdr">> ELSE <<>>)

\* The rest of checkHDRMetadataAndColorAspects().
Steps(hdrChanged, colorsChanged) ==
    (IF colorsChanged THEN <<"configColors", "flagColors">> ELSE <<>>)
        \o (IF hdrChanged THEN <<"configHdr", "flagHdr">> ELSE <<>>)

\* updateDecParmInfo() until its first call.
UpdateDecInfo ==
    /\ session = "started" /\ stream # noStream /\ writer = <<>>
    /\ Spend("infos")
    /\ LET hdrChanged    == checkHdrStaticInfoMetaChanged(stream.hdr)
           colorsChanged == dev.signal # stream.colors /\ stream.colors # none
       IN  /\ writer' = Steps(hdrChanged, colorsChanged)
           /\ params' = IF hdrChanged THEN [params EXCEPT !.hdr = stream.hdr] ELSE params
    /\ dev' = [dev EXCEPT !.signal = stream.colors]
    /\ reported' = [reported EXCEPT
                        !.hdr = IF stream.hdr = noHdr THEN @ ELSE stream.hdr,
                        !.colors = IF stream.colors = none THEN @ ELSE stream.colors]
    /\ UNCHANGED <<interfaceVars, session, decoder, consumer, stream, playing, format, coded, flags,
                   buffers, current, reader>>

\* One of the calls.
ReportStep ==
    /\ writer # <<>>
    /\ writer' = Tail(writer)
    /\ LET step == Head(writer) IN
       \/ /\ step = "configColors"
          /\ Configure(<<[param |-> "colors", value |-> stream.colors]>>)
          /\ UNCHANGED <<dev, reported>>
       \/ /\ step = "configHdr"
          /\ Configure(<<[param |-> "hdr", value |-> stream.hdr]>>)
          /\ UNCHANGED <<dev, reported>>
       \/ /\ step = "flagColors"
          /\ dev' = [dev EXCEPT !.colorsChanged = TRUE]
          /\ reported' = [reported EXCEPT !.seen = @ \cup {"colors"}]
          /\ UNCHANGED <<intf, comp, accepted>>
       \/ /\ step = "flagHdr"
          /\ dev' = [dev EXCEPT !.hdrChanged = TRUE]
          /\ reported' = [reported EXCEPT !.seen = @ \cup {"hdr"}]
          /\ UNCHANGED <<intf, comp, accepted>>
    /\ UNCHANGED <<platform, mComponents, mCodecAttributes, padding, name, configs,
                   session, params, decoder, consumer, stream, playing, format, coded, flags,
                   buffers, current, reader, budget>>

\* updateWorkParam(), for each picture: a flag that is set is cleared, and then what it is
\* about is queried.
updateWorkParam ==
    /\ session = "started"
    /\ \/ /\ reader = "idle" /\ flags.allocated /\ buffers # {}
          /\ dev' = [dev EXCEPT !.colorsChanged = FALSE]
          /\ reader' = IF dev.colorsChanged THEN "updateColorAspects" ELSE "hdr"
          /\ UNCHANGED current
       \/ /\ reader = "updateColorAspects"
          /\ current' = [current EXCEPT !.colors = intf.colors]
          /\ reader' = "hdr"
          /\ UNCHANGED dev
       \/ /\ reader = "hdr"
          /\ dev' = [dev EXCEPT !.hdrChanged = FALSE]
          /\ reader' = IF dev.hdrChanged THEN "updateHDRStaticInfo" ELSE "idle"
          /\ UNCHANGED current
       \/ /\ reader = "updateHDRStaticInfo"
          /\ current' = [current EXCEPT !.hdr = intf.hdr]
          /\ reader' = "idle"
          /\ UNCHANGED dev
    /\ UNCHANGED <<interfaceVars, session, params, decoder, consumer, stream, playing, format, coded,
                   flags, buffers, writer, reported, budget>>
-----------------------------------------------------------------------------
Init ==
    /\ InterfaceInit
    /\ session = "stopped"
    /\ dev = init /\ params = NoParams /\ decoder = NoParams
    /\ consumer = "display"
    /\ stream = noStream /\ playing = noStream
    /\ format = NoFormat /\ coded = NoSize /\ flags = NoFlags
    /\ buffers = {}
    /\ current = [hdr |-> noHdr, colors |-> none]
    /\ writer = <<>> /\ reader = "idle"
    /\ reported = NothingReported
    /\ budget \in Budgets
    /\ configs = budget.configs

Next ==
    \/ InterfaceNext /\ UNCHANGED deviceVars
    \/ onStart
    \/ onStop
    \/ ChangeConsumer
    \/ onCheckVideoDecReconfig
    \/ updateInterlacedInfo
    \/ \E s \in Streams : Begin(s)
    \/ ProvidePictureBuffers
    \/ onOutputFormatChanged
    \/ AllocateFirst
    \/ videoResolutionChange
    \/ onAllocBufferTask
    \/ onVisibleRectChanged
    \/ UpdateDecInfo
    \/ ReportStep
    \/ updateWorkParam

Spec == Init /\ [][Next]_vars
-----------------------------------------------------------------------------
(* Properties.                                                              *)

TypeOK ==
    /\ InterfaceTypeOK
    /\ params.doubleWrite \in {0, 1, 3, 4, \h10, \h200, \h400, \h10001}
    /\ session = "started" => params.doubleWrite # 0
    /\ flags.allocated => flags.usageGot
    /\ writer # <<>> => session # "stopped"
    /\ session = "stopped" => buffers = {} /\ format = NoFormat

\* What the decoder writes of a picture in a mode of double write (external).
Written(doubleWrite, size) ==
    CASE doubleWrite \in {1, \h10, \h10001} -> size
      [] doubleWrite = 4                    -> Scaled(size, 2)
      [] doubleWrite = \h200 /\ Area(size) <= Area(Max1080p) -> size
      [] doubleWrite = \h400 /\ Area(size) <= 1024 * 576     -> size
      [] doubleWrite = \h400 /\ Area(size) \in 1024 * 576 + 1 .. Area(Max1080p) -> Scaled(size, 2)
      [] doubleWrite = \h400 /\ Area(size) > Area(Max4k)     -> Scaled(size, 8)
      [] OTHER                              -> Scaled(size, 4)

\* The decoder brings its own buffers, or writes fields of half the height.
NeededArea ==
    LET whole == Area(Written(decoder.doubleWrite, playing.size))
        same  == [dev EXCEPT !.interlaced = playing.interlaced]
    IN  IF platform.replaceBuffers /\ needDecoderReplaceBufferForDiPost(same) THEN 0
        ELSE IF isNeedHalfHeightBuffer(same) /\ ~OnOsd(same) THEN whole \div 2 ELSE whole

\* Where the code itself keeps buffers that the decoder has outgrown: fields begin or end
\* within a session, the consumer changes while the first buffers are fetched, the client asks
\* for ten bits after the decoder was told of its format, or the size that the MMU of AVC
\* depends on changes.
Outgrown ==
    \/ reported.fields = {FALSE, TRUE}
    \/ IF dev.p010 /\ ~platform.hwP010 THEN ~OnOsd(dev) \/ decoder.doubleWrite # 3
                                      ELSE decoder.unuseAvbc # OnOsd(dev)
    \/ Codec = "H264" /\ dev.mmu

\* Every buffer holds what the decoder was told to write of the stream: what codecConfig() and
\* the two reconfigurations sent and what gralloc's slot remembers agree, through changes of
\* size, depth and consumer and whichever thread fetches the buffer.
BuffersHold ==
    (session = "started" /\ playing # noStream /\ format = NoFormat /\ ~Outgrown) =>
        \A b \in buffers : Area(b) >= NeededArea

\* When no report and no picture is under way and the flags are down, pictures carry what the
\* interface has, and it has what the decoder said last (the lowest luminance excepted, which
\* is not compared).
InfoReported ==
    (session = "started" /\ writer = <<>> /\ reader = "idle") =>
        /\ ("hdr" \in reported.seen /\ ~dev.hdrChanged) => current.hdr = intf.hdr
        /\ ("colors" \in reported.seen /\ ~dev.colorsChanged) => current.colors = intf.colors
        /\ reported.hdr # noHdr => [intf.hdr EXCEPT !.min = 0] = [reported.hdr EXCEPT !.min = 0]
        /\ reported.colors # none => intf.colors = reported.colors
=============================================================================
