---------------------------- MODULE VdecInterface ----------------------------
(***************************************************************************)
(* The component store (C2VendorComponentStore), what the platform says of *)
(* its video decoders (C2VdecCodecConfig) and the interface of one of them *)
(* (C2VdecComponent::IntfImpl), which a client creates and configures.     *)
(*                                                                         *)
(* A name is that of a decoder: its codec and whether it is the secure     *)
(* one.  What media_codecs.xml says of a name is the platform's xml; the   *)
(* decoders of the kernel's feature list are its features.                 *)
(*                                                                         *)
(* C2InterfaceHelper is external: it applies every parameter of a batch    *)
(* whose fields are possible, the ones others depend on first, and         *)
(* calculates again what depends on a changed one.                         *)
(*                                                                         *)
(* Not modelled: audio decoders, encoders and software decoders in the     *)
(* store, profiles, parameters that no handler and no other parameter      *)
(* reads, and the parameters of the tuner.                                 *)
(*                                                                         *)
(* An operator with a suffix is the one before the suffix with a plausible *)
(* bug; no action uses it.                                                 *)
(***************************************************************************)
EXTENDS Integers, Sequences, FiniteSetsExt, SequencesExt

CONSTANTS
    Platforms,   \* properties, feature list and media_codecs.xml of a device
    Batches      \* the sequences of parameters that a client configures

VARIABLES
    platform,
    mComponents,       \* the names in the store
    mCodecAttributes,  \* the names that media_codecs.xml was read for
    padding,           \* kLinearPaddingBufferSize, one for all interfaces of the process
    name,              \* the name of the client's interface, or noName
    intf,              \* its parameters
    comp,              \* its component, where there is one
    accepted,          \* the last picture size that config() accepted
    configs            \* how often the client still calls config()

interfaceVars == <<platform, mComponents, mCodecAttributes, padding, name, intf,
                   comp, accepted, configs>>

none == "none"
-----------------------------------------------------------------------------
(* Names and what the platform says of them.                                *)

AllCodecs == <<"H264", "H265", "VP9", "AV1", "DVHE", "DVAV", "DVAV1", "MP2V", "MP4V",
               "MJPG", "AVS3", "AVS2", "AVS", "VC1">>
Avs       == {"AVS3", "AVS2", "AVS"}

Name(codec, secure) == [codec |-> codec, secure |-> secure]
noName == Name(none, FALSE)

Codecs == ToSet(AllCodecs) \ (IF platform.avs THEN {} ELSE Avs)

gVideoDecoderComponents ==
    {Name(c, FALSE) : c \in Codecs}
        \cup {Name(c, TRUE) : c \in {"H264", "H265", "VP9", "AV1", "DVHE", "DVAV", "DVAV1",
                                     "MP2V"}}

\* The module of the kernel that decodes a codec.
GetDecName(codec) ==
    CASE codec = "DVHE"  -> "H265"
      [] codec = "DVAV"  -> "H264"
      [] codec = "DVAV1" -> "AV1"
      [] OTHER           -> codec

\* The loop over the codecs ends at the first one that is not built.
mCodecsMap ==
    LET unbuilt == {i \in DOMAIN AllCodecs : AllCodecs[i] \notin Codecs}
        read    == {AllCodecs[i] : i \in {i \in DOMAIN AllCodecs : \A u \in unbuilt : i < u}}
    IN  {GetDecName(c) : c \in read} \cap platform.features

codecSupportFromFeatureList(n) == mCodecsMap # {} => GetDecName(n.codec) \in mCodecsMap
codecSupportFromMediaCodecXml(n) == n \in DOMAIN platform.xml

codecSupport(n) ==
    /\ platform.checkFeatures => codecSupportFromFeatureList(n)
    /\ platform.checkXml      => codecSupportFromMediaCodecXml(n)

Area(size)       == size.width * size.height
HasAttributes(n) == n \in mCodecAttributes
Xml(n)           == platform.xml[n]
MaxBlockSize(n)  == Xml(n).blocks * Xml(n).blockArea

isCodecSupportPictureSize(n, area) ==
    /\ HasAttributes(n)
    /\ \/ area <= MaxBlockSize(n)
       \/ Xml(n).blocks = 0 /\ area <= Area(Xml(n).maxSize)

isMaxResolutionFromXml(n, size) == HasAttributes(n) /\ Area(size) = MaxBlockSize(n)

isCodecSupport4k(n) ==
    HasAttributes(n) /\ (platform.support4k \/ isCodecSupportPictureSize(n, 3840 * 2160))

isCodecSupport8k(n) ==
    /\ HasAttributes(n)
    /\ \/ platform.support8k
       \/ isCodecSupportPictureSize(n, 7680 * 4320)

isCodecSupportResolutionRatio(n, area) ==
    /\ \/ area <= 1920 * 1088
       \/ platform.support4k
       \/ isCodecSupportPictureSize(n, area)
    /\ \/ area <= 4096 * 2304
       \/ platform.support8k
       \/ isCodecSupport8k(n)
       \/ isCodecSupportPictureSize(n, area)

\* The limit of 4K rates; where the decoder knows 8K, the rate of its blocks counts four times.
isCodecSupportFrameRate(n, size, rate) ==
    /\ HasAttributes(n)
    /\ (Area(size) \in 3840 * 2160 .. 4096 * 2304 /\ platform.support4k) =>
           IF Area(Xml(n).maxSize) >= 7680 * 4320
           THEN rate <= platform.maxRate4k /\ rate * Xml(n).blocks <= 4 * Xml(n).blocksPerSecond
           ELSE rate <= platform.maxRate4k \/ rate * Xml(n).blocks <= Xml(n).blocksPerSecond
-----------------------------------------------------------------------------
(* The parameters of an interface.                                          *)

\* The largest pictures of the levels that the interface declares.
UpTo4k(n) == IF isCodecSupport4k(n) THEN "4k" ELSE "fhd"
UpTo8k(n) == IF isCodecSupport4k(n) /\ isCodecSupport8k(n) THEN "8k" ELSE UpTo4k(n)

onAvcDeclareParam(n)   == UpTo4k(n)
onHevcDeclareParam(n)  == UpTo8k(n)
onVp9DeclareParam(n)   == UpTo8k(n)
onAv1DeclareParam(n)   == UpTo8k(n)
onDvheDeclareParam(n)  == UpTo4k(n)
onDvavDeclareParam(n)  == UpTo8k(n)
onDvav1DeclareParam(n) == UpTo4k(n)
onMp2vDeclareParam(n)  == "fixed"
onMp4vDeclareParam(n)  == "fixed"
onMjpgDeclareParam(n)  == "fixed"

Tier(n) ==
    CASE n.codec = "H264"  -> onAvcDeclareParam(n)
      [] n.codec = "H265"  -> onHevcDeclareParam(n)
      [] n.codec = "VP9"   -> onVp9DeclareParam(n)
      [] n.codec = "AV1"   -> onAv1DeclareParam(n)
      [] n.codec = "DVHE"  -> onDvheDeclareParam(n)
      [] n.codec = "DVAV"  -> onDvavDeclareParam(n)
      [] n.codec = "DVAV1" -> onDvav1DeclareParam(n)
      [] n.codec = "MP2V"  -> onMp2vDeclareParam(n)
      [] n.codec = "MP4V"  -> onMp4vDeclareParam(n)
      [] n.codec = "MJPG"  -> onMjpgDeclareParam(n)
      [] OTHER             -> none

noHdr            == [primaries |-> 0, red |-> 0, max |-> 0, min |-> 0]
DefaultSize      == [width |-> 176, height |-> 144]
kLinearBufferSize == 1024 * 1024
kMaxInputBufferSize == 8 * kLinearBufferSize
kMaxInputDelay   == 4
kMaxOutputDelay  == 64
kDefaultOutputDelayTunnel == 10
kLinearPaddingBufferSize(n) == IF n.secure THEN 0 ELSE 262144

Sizes == [width : Nat, height : Nat]
Parameter(names, values) == [param : names, value : values]

\* What clients configure: not the HDR values and colours, which are the decoder's.
ClientParameters ==
    Parameter({"size"}, Sizes)
        \cup Parameter({"rate", "maxInput", "outputDelay", "inputDelay", "streamInputDelay"}, Nat)
        \cup Parameter({"tunnel", "avc4kMMU", "lowLatency", "gameMode"}, BOOLEAN)
        \cup Parameter({"pixelFormat"}, {"8bit", "10bit"})

\* The property that maxInputHandler is has a default of 8 MB; where a device makes it smaller
\* than the 4 MB that large pictures need, the handler undoes what the setter did.
ASSUME PlatformsAssumption ==
    \A p \in Platforms :
        /\ p.maxInput \in Nat /\ p.maxInputHandler \in Nat
        /\ p.maxInputHandler >= 4 * kLinearBufferSize
        /\ \A n \in DOMAIN p.xml : p.xml[n] \in [minSize : Sizes, maxSize : Sizes, blocks : Nat,
                                                blockArea : Nat, blocksPerSecond : Nat]

ASSUME BatchesAssumption == Batches \subseteq Seq(ClientParameters)

IntfImpl(n) ==
    [tier |-> Tier(n), size |-> DefaultSize, rate |-> 30, maxInput |-> kLinearBufferSize,
     outputDelay |-> 3, inputDelay |-> kMaxInputDelay, streamInputDelay |-> 0, tunnel |-> FALSE,
     allocator |-> "bufferqueue", lowLatency |-> FALSE, gameMode |-> FALSE,
     avc4kMMU |-> FALSE, pixelFormat |-> "8bit", hdr |-> noHdr, colors |-> none]

noInterface == [tier |-> none]

PossibleSide(v, min, max) == v \in min .. max /\ (v - min) % 16 = 0

PossibleValue(n, p) ==
    CASE p.param = "size" ->
             /\ PossibleSide(p.value.width, Xml(n).minSize.width, Xml(n).maxSize.width)
             /\ PossibleSide(p.value.height, Xml(n).minSize.height, Xml(n).maxSize.height)
      [] p.param = "rate"             -> p.value > 0
      [] p.param = "outputDelay"      -> p.value \in 0 .. kMaxOutputDelay
      [] p.param = "inputDelay"       -> p.value \in 0 .. kMaxInputDelay
      [] p.param = "streamInputDelay" -> p.value \in 0 .. 256
      [] p.param = "pixelFormat"      -> platform.swP010 \/ platform.hwP010
      [] OTHER                        -> TRUE

Apply(n, i, p) == IF PossibleValue(n, p) THEN [i EXCEPT ![p.param] = p.value] ELSE i

\* size is in bytes; a client's value over 8 MB is left as it is.
MaxSizeCalculator(value, size) ==
    LET padded == CASE value = 0 -> kLinearBufferSize
                    [] value > 0 /\ padding = 0 /\ value < 2 * kLinearBufferSize
                           -> 2 * kLinearBufferSize
                    [] OTHER -> value + padding
        capped == IF padded > platform.maxInput THEN platform.maxInput ELSE padded
    IN  IF value > kMaxInputBufferSize THEN value
        ELSE IF Area(size) > 1920 * 1088 /\ capped < 4 * kLinearBufferSize
             THEN 4 * kLinearBufferSize
             ELSE capped

Recalculate_IfConfigured(batch, before, after) ==
    \E k \in DOMAIN batch : batch[k].param = "maxInput"

\* What the size of input buffers depends on was changed.
Recalculate(batch, before, after) ==
    \/ \E k \in DOMAIN batch : batch[k].param = "maxInput"
    \/ after.size # before.size

InterfaceHelper_config(n, i, batch) ==
    LET after == FoldLeft(LAMBDA acc, p : Apply(n, acc, p), i, batch)
    IN  IF Recalculate(batch, i, after)
        THEN [after EXCEPT !.maxInput = MaxSizeCalculator(after.maxInput, after.size)]
        ELSE after
-----------------------------------------------------------------------------
(* The handlers of config(), on an interface i, a component c and the size  *)
(* accepted last.                                                           *)

onTunneledModeTuningConfigParam(s) ==
    [s EXCEPT !.c.tunnel = TRUE, !.i.allocator = "gralloc",
              !.i.outputDelay = kDefaultOutputDelayTunnel]

\* The range of the delay is not that of the parameter it is assigned to.
onStreamModeInputDelayConfigParam(s) == [s EXCEPT !.i.inputDelay = s.i.streamInputDelay]

onStreamMaxBufferSizeInfoConfigParam(s) ==
    IF ~isCodecSupport4k(name) /\ s.i.maxInput > platform.maxInputHandler
    THEN [s EXCEPT !.i.inputDelay = 0, !.i.maxInput = platform.maxInputHandler]
    ELSE s

\* The component counts as one of the largest pictures even where the size is not accepted.
onStreamPictureSizeConfigParam(s) ==
    LET ok == isCodecSupportResolutionRatio(name, Area(s.i.size))
    IN  [s EXCEPT !.c.maxResolution = @ \/ isMaxResolutionFromXml(name, s.i.size),
                  !.ok = ok,
                  !.accepted = IF ok THEN s.i.size ELSE @]

onStreamFrameRateConfigParam(s) ==
    [s EXCEPT !.ok = isCodecSupportFrameRate(name, s.i.size, s.i.rate)]

\* The first parameter that is not accepted ends the loop.
Handle(s, p) ==
    CASE ~s.ok                           -> s
      [] s.ok /\ p.param = "tunnel"           -> onTunneledModeTuningConfigParam(s)
      [] s.ok /\ p.param = "streamInputDelay" -> onStreamModeInputDelayConfigParam(s)
      [] s.ok /\ p.param = "maxInput"         -> onStreamMaxBufferSizeInfoConfigParam(s)
      [] s.ok /\ p.param = "size"             -> onStreamPictureSizeConfigParam(s)
      [] s.ok /\ p.param = "rate"             -> onStreamFrameRateConfigParam(s)
      [] OTHER                                -> s
-----------------------------------------------------------------------------
(* The calls of a client.                                                   *)

noComponent  == [exists |-> FALSE, tunnel |-> FALSE, maxResolution |-> FALSE]
newComponent == [noComponent EXCEPT !.exists = TRUE]

\* The store is made at the start of the process.
InterfaceInit ==
    /\ platform \in Platforms
    /\ mCodecAttributes = {n \in gVideoDecoderComponents :
                               /\ platform.checkXml
                               /\ platform.disableSecure => ~n.secure
                               /\ codecSupportFromMediaCodecXml(n)}
    /\ mComponents = {n \in gVideoDecoderComponents :
                          /\ platform.disableSecure => ~n.secure
                          /\ codecSupport(n)}
    /\ padding = 0
    /\ name = noName
    /\ intf = noInterface
    /\ comp = noComponent
    /\ accepted = DefaultSize

\* An interface whose sizes are not known has a bad status and is given to nobody.
Usable == mComponents \cap mCodecAttributes

\* An interface of each name is made, in no known order, and asked for its media type.
listComponents ==
    /\ \E n \in Usable : padding' = kLinearPaddingBufferSize(n)
    /\ UNCHANGED <<platform, mComponents, mCodecAttributes, name, intf, comp, accepted, configs>>

\* createInterface() and createComponent(); the limits of instances are in VdecInstances.
Create(n, component) ==
    /\ name = noName
    /\ n \in Usable
    /\ name' = n
    /\ intf' = IntfImpl(n)
    /\ comp' = IF component THEN newComponent ELSE noComponent
    /\ padding' = kLinearPaddingBufferSize(n)
    /\ UNCHANGED <<platform, mComponents, mCodecAttributes, accepted, configs>>

\* Another client's interface is made in the same process.
CreateAnother(n) ==
    /\ name # noName
    /\ n \in Usable
    /\ padding' = kLinearPaddingBufferSize(n)
    /\ UNCHANGED <<platform, mComponents, mCodecAttributes, name, intf, comp, accepted,
                   configs>>

\* The interface after the call, and whether it succeeds: the parameters are applied before
\* anything is checked.
Configured(batch) ==
    LET applied == InterfaceHelper_config(name, intf, batch)
        start   == [i |-> applied, c |-> comp, accepted |-> accepted, ok |-> TRUE]
    IN  IF comp.exists THEN FoldLeft(Handle, start, batch) ELSE start

Configure(batch) ==
    /\ intf' = Configured(batch).i
    /\ comp' = Configured(batch).c
    /\ accepted' = Configured(batch).accepted

config(batch) ==
    /\ name # noName
    /\ configs > 0
    /\ configs' = configs - 1
    /\ Configure(batch)
    /\ UNCHANGED <<platform, mComponents, mCodecAttributes, padding, name>>

InterfaceNext ==
    \/ listComponents
    \/ \E n \in Usable, component \in BOOLEAN : Create(n, component)
    \/ \E n \in Usable : CreateAnother(n)
    \/ \E batch \in Batches : config(batch)
-----------------------------------------------------------------------------
(* Properties.                                                              *)

\* The type of the interface, and what setters and handlers bound.
InterfaceTypeOK ==
    /\ Usable \subseteq gVideoDecoderComponents
    /\ padding \in {0, 262144}
    /\ name # noName =>
           /\ intf.outputDelay \in 0 .. kMaxOutputDelay
           /\ intf.inputDelay \in 0 .. 256
           /\ intf.size = DefaultSize \/ PossibleValue(name, [param |-> "size", value |-> intf.size])

\* "App may set a smaller value for maximum of input buffer size than actually required by
\* mistake.  C2VdecComponent overrides it" (C2VdecInterfaceImpl.cpp:1371): whatever the
\* order of sizes of pictures and of buffers that the client configures, and whatever other
\* interfaces do to the padding, pictures larger than 1920x1088 have input buffers of 4 MB.
\* And a picture of 4K that config() accepts is within the levels that the interface declared
\* when it was made, which it decides by other means.
ParametersAgree ==
    name # noName =>
        /\ Area(intf.size) > 1920 * 1088 => intf.maxInput >= 4 * kLinearBufferSize
        /\ Area(accepted) >= 3840 * 2160 => intf.tier # "fhd"
=============================================================================
