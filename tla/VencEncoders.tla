---------------------------- MODULE VencEncoders ----------------------------
(***************************************************************************)
(* The encoders C2VencHCodec, C2VencW420New and C2VencMulti (for AVC and   *)
(* for HEVC): their interface, which the client configures at any time,    *)
(* and what they tell the library that encodes.                            *)
(*                                                                         *)
(* The library is opened with what the interface says at start(); for each *)
(* frame it is told of a new bitrate, of a request of a sync frame, and of *)
(* the frame rate that the time stamps show.  The component calls the      *)
(* encoder from one thread (C2VencComponent), so that every handler is one *)
(* step here; the steps of the request of a sync frame are modelled there. *)
(*                                                                         *)
(* Not modelled: profile, colour aspects, GOP layers, temporal layers,     *)
(* intra refresh, pixel formats and the planes of a picture.               *)
(*                                                                         *)
(* An operator with a suffix (Multi_Init_IntervalZero) is the one before   *)
(* the suffix with a plausible bug; no action uses it.                     *)
(***************************************************************************)
EXTENDS Integers, Sequences, FiniteSetsExt

CONSTANTS
    Sizes,          \* picture sizes the client configures
    FrameRates,
    Bitrates,
    Periods,        \* sync frame intervals in microseconds, or Never
    AvcLevels,      \* levels the client asks of an AVC encoder
    HevcLevels,     \* and of an HEVC encoder
    Quantizations,  \* functions from frame types to ranges of the quantizer
    Stamps,         \* time stamps of frames, in microseconds
    MaxCalls        \* bound on each kind of call and failure

Encoder   == {"HCodec", "W420New", "MultiAvc", "MultiHevc"}
Multi     == {"MultiAvc", "MultiHevc"}
Avc       == {"HCodec", "MultiAvc"}
FrameType == {"I", "P", "B"}
Call      == {"config", "start", "frame", "loadError", "initError"}

IntMax == 2147483647
IntMin == -IntMax - 1
Never  == IntMax        \* stands for INT64_MAX: one sync frame only
Exact  == 16777216      \* a float holds each natural number up to it

ASSUME ConfigurationAssumption ==
    /\ Sizes \subseteq [width : Nat, height : Nat]
    /\ FrameRates \subseteq Nat \ {0}
    /\ Bitrates \subseteq Nat
    /\ Periods \subseteq Nat
    /\ \A qp \in Quantizations :
           \E types \in SUBSET FrameType : qp \in [types -> [min : Nat, max : Nat]]
    /\ Stamps \subseteq Nat
    /\ MaxCalls \in [Call -> Nat]

VARIABLES
    encoder,
    intf,        \* the parameters of the interface
    enc,         \* the encoder object
    lib,         \* what the library was told
    configured,  \* the interface when the library was opened
    frames,      \* frames given to the encoder so far
    gap,         \* time that the last frame came after the one before it; 0 after start()
    undefined,   \* a function that is not loaded was called
    calls

vars == <<encoder, intf, enc, lib, configured, frames, gap, undefined, calls>>
-----------------------------------------------------------------------------
(* The interface.                                                           *)

Level(name, rate, samples, bitrate) ==
    [level |-> name, rate |-> rate, samples |-> samples, bitrate |-> bitrate]

\* In macroblocks per second, macroblocks and bits per second.
AvcLimits == <<
    Level("1",     1485,    99,     64000), Level("1.1",   3000,   396,    192000),
    Level("1.2",   6000,   396,    384000), Level("1.3",  11880,   396,    768000),
    Level("2",    11880,   396,   2000000), Level("2.1",  19800,   792,   4000000),
    Level("2.2",  20250,  1620,   4000000), Level("3",    40500,  1620,  10000000),
    Level("3.1", 108000,  3600,  14000000), Level("3.2", 216000,  5120,  20000000),
    Level("4",   245760,  8192,  20000000), Level("4.1", 245760,  8192,  50000000),
    Level("4.2", 522240,  8704,  50000000), Level("5",   589824, 22080, 135000000)>>

\* In 1024 samples per second, 1024 samples and bits per second.
HevcLimits == <<
    Level("main1",       540,    36,    128000), Level("main2",      3600,   120,   1500000),
    Level("main2.1",    7200,   240,   3000000), Level("main3",     16200,   540,   6000000),
    Level("main3.1",   32400,   960,  10000000), Level("main4",     65280,  2176,  12000000),
    Level("main4.1",  130560,  2176,  20000000), Level("main5",    261120,  8704,  25000000),
    Level("main5.1",  522240,  8704,  40000000), Level("main5.2", 1044480,  8704,  60000000),
    Level("main6",   1044480, 34816,  60000000), Level("main6.1", 2088960, 34816, 120000000),
    Level("main6.2", 4177920, 34816, 240000000)>>

\* An AVC encoder takes the levels of the table and one that the table leaves out.
ASSUME LevelAssumption ==
    AvcLevels \subseteq {"1b"} \cup {AvcLimits[i].level : i \in DOMAIN AvcLimits}

Covers(limit, need) ==
    need.samples <= limit.samples /\ need.rate <= limit.rate /\ need.bitrate <= limit.bitrate

Adjusted_OffByOne(level, limits, need, top) ==
    LET enough == {i \in DOMAIN limits : Covers(limits[i], need)}
        lowest == Min(enough)
    IN  IF enough = {} THEN top
        ELSE IF level = "1b" \/ \E i \in 1..(lowest - 2) : limits[i].level = level
        THEN limits[lowest].level
        ELSE level

\* The walk over the table ends at the first level that covers the stream; the level
\* is replaced if the walk has met it before, or if it must be (level 1b).
Adjusted(level, limits, need, top) ==
    LET enough == {i \in DOMAIN limits : Covers(limits[i], need)}
        lowest == Min(enough)
    IN  IF enough = {} THEN top
        ELSE IF level = "1b" \/ \E i \in 1..(lowest - 1) : limits[i].level = level
        THEN limits[lowest].level
        ELSE level

Blocks(n)   == (n + 15) \div 16
Kilo(n)     == (n + 1023) \div 1024
AvcNeed(i)  == LET mbs == Blocks(i.size.width) * Blocks(i.size.height)
               IN  [samples |-> mbs, rate |-> mbs * i.frameRate, bitrate |-> i.bitrate]
HevcNeed(i) == LET samples == i.size.width * i.size.height
               IN  [samples |-> Kilo(samples), rate |-> Kilo(samples * i.frameRate),
                    bitrate |-> i.bitrate]

HevcSupported == {"high4", "high4.1", "high5", "high5.1", "high5.2", "high6", "high6.1",
                  "high6.2"}

HCodec_ProfileLevelSetter(i)    == Adjusted(i.level, AvcLimits, AvcNeed(i), "5")
Multi_AvcProfileLevelSetter(i)  == Adjusted(i.level, AvcLimits, AvcNeed(i), "5")
Multi_HevcProfileLevelSetter(i) == Adjusted(i.level, HevcLimits, HevcNeed(i), "main5.2")
W420New_ProfileLevelSetter(i)   ==
    Adjusted(IF i.level \in HevcSupported THEN i.level ELSE "main5",
             HevcLimits, HevcNeed(i), "main5.2")

\* The level is set again whenever the size, the rate or the bitrate is.
WithLevel(i) ==
    [i EXCEPT !.level = CASE encoder = "HCodec"    -> HCodec_ProfileLevelSetter(i)
                          [] encoder = "W420New"   -> W420New_ProfileLevelSetter(i)
                          [] encoder = "MultiAvc"  -> Multi_AvcProfileLevelSetter(i)
                          [] encoder = "MultiHevc" -> Multi_HevcProfileLevelSetter(i)]

Interface(width, height, level) ==
    [size |-> [width |-> width, height |-> height], frameRate |-> 1, bitrate |-> 64000,
     level |-> level, period |-> 1000000, qp |-> <<>>, requestSync |-> FALSE]

HCodec_IntfImpl  == Interface(16, 16, "4.1")
W420New_IntfImpl == Interface(176, 144, "high5.1")
Multi_IntfImpl   == Interface(176, 144, IF encoder \in Avc THEN "4.1" ELSE "high5.1")

SupportedWidth(w) ==
    CASE encoder = "HCodec"    -> w \in 2..2560 /\ w % 2 = 0
      [] encoder = "W420New"   -> w \in 176..2160 /\ w % 8 = 0
      [] encoder = "MultiAvc"  -> w \in 176..3840 /\ w % 2 = 0
      [] encoder = "MultiHevc" -> w \in 176..3840 /\ w % 8 = 0
SupportedHeight(h) ==
    IF encoder = "HCodec" THEN h \in 2..2560 /\ h % 2 = 0 ELSE h \in 144..2160 /\ h % 2 = 0

SizeSetter(old, size) ==
    [width  |-> IF SupportedWidth(size.width) THEN size.width ELSE old.width,
     height |-> IF SupportedHeight(size.height) THEN size.height ELSE old.height]

BitrateSetter_Unclamped(bitrate) == bitrate

BitrateSetter(bitrate) == Max({bitrate, 4096})

CodecQp   == 4..51
DefaultQp == [min |-> 10, max |-> 40]
Clamp(n)  == Max({4, Min({51, n})})

PictureQuantizationSetter(qp) ==
    [t \in DOMAIN qp |-> [min |-> Clamp(qp[t].min), max |-> Clamp(qp[t].max)]]
-----------------------------------------------------------------------------
(* start(): LoadModule() and Init().                                        *)

\* The functions in the order they are looked up.
Functions ==
    CASE encoder = "HCodec"  -> <<"init", "header", "frame", "qp", "destroy">>
      [] encoder = "W420New" -> <<"init", "header", "frame", "qp", "bitrate", "rate", "destroy">>
      [] encoder \in Multi   -> <<"init", "header", "qp", "bitrate", "frame", "destroy">>
Names(k) == {Functions[j] : j \in 1..k}

\* The first k are found; the next one, if there is one, is not, and the rest are what
\* they were.
LoadModule(k) ==
    (enc.funcs \ (IF k < Len(Functions) THEN {Functions[k + 1]} ELSE {})) \cup Names(k)

\* The conversion of a float to uint32_t saturates; -1 is UINT32_MAX as an int.
UintMax == -1

Interval(period, rate) == (period \div 1000000) * rate

\* But for Never, the product is one that the float it is computed in holds.
ASSUME IntervalAssumption ==
    \A period \in Periods \cup {1000000}, rate \in FrameRates \cup {1} :
        period # Never => Interval(period, rate) < Exact

IDRInterval(max) ==
    IF intf.period = Never THEN max ELSE Interval(intf.period, intf.frameRate)

getQp(t) == IF t \in DOMAIN intf.qp THEN intf.qp[t] ELSE DefaultQp

Opened(width, crop, gop, qp, level) ==
    [width |-> width, crop |-> crop, gop |-> gop, qp |-> qp, level |-> level,
     bitrate |-> intf.bitrate, frameRate |-> intf.frameRate, frameType |-> "none"]

\* mIDRInterval is a uint32_t, and UINT32_MAX + 1 is 0.
HCodec_Init ==
    Opened(intf.size.width, 0, IDRInterval(UintMax) + 1, [t \in {"I", "P"} |-> getQp(t)],
           intf.level)

\* mIDRInterval is an int32_t; the sum overflows, and wraps as the processor's does.
\* The level is not given to the library.
W420New_Init ==
    LET interval == IDRInterval(IntMax)
        narrow   == intf.size.width < 256
    IN  Opened(IF narrow THEN 256 ELSE intf.size.width, IF narrow THEN intf.size.width ELSE 0,
               IF interval = IntMax THEN IntMin ELSE interval + 1,
               [t \in FrameType |-> DefaultQp], "none")

Multi_Init_IntervalZero ==
    Opened(Max({256, intf.size.width}), 0, IDRInterval(UintMax),
           [t \in FrameType |-> getQp(t)], "none")

Multi_Init ==
    LET interval == IDRInterval(UintMax)
    IN  Opened(Max({256, intf.size.width}), 0, IF interval = 0 THEN 1 ELSE interval,
               [t \in FrameType |-> getQp(t)], "none")

Closed == [width |-> 0, crop |-> 0, gop |-> 0, qp |-> <<>>, level |-> "none", bitrate |-> 0,
           frameRate |-> 0, frameType |-> "none"]

Encoder_Init ==
    CASE encoder = "HCodec"  -> HCodec_Init
      [] encoder = "W420New" -> W420New_Init
      [] encoder \in Multi   -> Multi_Init

Uses(functions) == undefined' = (undefined \/ ~(functions \subseteq enc.funcs))
May(c)  == calls[c] < MaxCalls[c]
Took(S) == calls' = [c \in Call |-> IF c \in S THEN calls[c] + 1 ELSE calls[c]]

\* Of mtimeStampBak nothing is reset.
StartSucceeds ==
    /\ ~enc.mCodecHandle
    /\ May("start") /\ Took({"start"})
    /\ enc' = [enc EXCEPT !.funcs = LoadModule(Len(Functions)), !.mCodecHandle = TRUE,
                          !.mBitrateBak = intf.bitrate, !.mFrameRateValue = intf.frameRate]
    /\ lib' = Encoder_Init
    /\ configured' = intf
    /\ gap' = 0
    /\ UNCHANGED <<encoder, intf, frames, undefined>>

StartWithoutModule ==
    /\ ~enc.mCodecHandle
    /\ May("start") /\ May("loadError") /\ Took({"start", "loadError"})
    /\ \E k \in 0..(Len(Functions) - 1) : enc' = [enc EXCEPT !.funcs = LoadModule(k)]
    /\ UNCHANGED <<encoder, intf, lib, configured, frames, gap, undefined>>

\* The library refuses.
StartWithoutHandle ==
    /\ ~enc.mCodecHandle
    /\ May("start") /\ May("initError") /\ Took({"start", "initError"})
    /\ enc' = [enc EXCEPT !.funcs = LoadModule(Len(Functions)),
                          !.mBitrateBak = intf.bitrate, !.mFrameRateValue = intf.frameRate]
    /\ UNCHANGED <<encoder, intf, lib, configured, frames, gap, undefined>>

\* Close(), from stop() and the destructor.
Close ==
    /\ enc.mCodecHandle
    /\ Uses({"destroy"})
    /\ enc' = [enc EXCEPT !.mCodecHandle = FALSE]
    /\ lib' = Closed
    /\ UNCHANGED <<encoder, intf, configured, frames, gap, calls>>
-----------------------------------------------------------------------------
(* ProcessOneFrame().                                                       *)

Elapsed(stamp) == stamp - enc.mtimeStampBak
Timed(stamp)   == frames > 0 /\ stamp # 0

\* 1000000.0 / mElapsedTime as a uint32_t: of infinity the greatest one, of a negative
\* number 0.
CurFrameRate(elapsed) ==
    IF elapsed > 0 THEN 1000000 \div elapsed ELSE IF elapsed = 0 THEN UintMax ELSE 0

AbsValue(now, old) ==
    IF now = UintMax THEN UintMax - old ELSE Max({now, old}) - Min({now, old})

RateChanges(stamp) ==
    LET now == CurFrameRate(Elapsed(stamp))
    IN  Timed(stamp) /\ now # 0 /\ AbsValue(now, enc.mFrameRateValue) >= 2

FrameRateValue(stamp) ==
    IF RateChanges(stamp) THEN CurFrameRate(Elapsed(stamp)) ELSE enc.mFrameRateValue

BitrateChanges == enc.mBitrateBak # intf.bitrate

Requested(type) == IF intf.requestSync THEN "IDR" ELSE type

\* The frame carries its rate and bitrate.
HCodec_ProcessOneFrame(stamp) ==
    /\ lib' = [lib EXCEPT !.frameRate = FrameRateValue(stamp), !.bitrate = intf.bitrate,
                          !.frameType = Requested("P")]
    /\ enc' = [enc EXCEPT !.mFrameRateValue = FrameRateValue(stamp),
                          !.mtimeStampBak = stamp, !.mBitrateBak = intf.bitrate]
    /\ Uses({"frame", "qp"})

\* The library is called for a new rate, which goes with the bitrate, and for a new
\* bitrate.
W420New_ProcessOneFrame(stamp) ==
    LET rated == RateChanges(stamp)
    IN  /\ lib' = [lib EXCEPT !.frameRate = IF rated THEN FrameRateValue(stamp) ELSE @,
                              !.bitrate = IF rated \/ BitrateChanges THEN intf.bitrate ELSE @,
                              !.frameType = Requested("auto")]
        /\ enc' = [enc EXCEPT !.mFrameRateValue = FrameRateValue(stamp),
                              !.mtimeStampBak = stamp, !.mBitrateBak = intf.bitrate]
        /\ Uses({"frame", "qp"} \cup (IF rated THEN {"rate"} ELSE {})
                                \cup (IF BitrateChanges THEN {"bitrate"} ELSE {}))

Multi_ProcessOneFrame(stamp) ==
    /\ lib' = [lib EXCEPT !.bitrate = IF BitrateChanges THEN intf.bitrate ELSE @,
                          !.frameType = Requested("P")]
    /\ enc' = [enc EXCEPT !.mBitrateBak = intf.bitrate]
    /\ Uses({"frame", "qp"} \cup (IF BitrateChanges THEN {"bitrate"} ELSE {}))

\* The request is unset, and a frame that fails to be encoded has taken all of this
\* along.
ProcessOneFrame(stamp) ==
    /\ enc.mCodecHandle
    /\ May("frame") /\ Took({"frame"})
    /\ \/ encoder = "HCodec" /\ HCodec_ProcessOneFrame(stamp)
       \/ encoder = "W420New" /\ W420New_ProcessOneFrame(stamp)
       \/ encoder \in Multi /\ Multi_ProcessOneFrame(stamp)
    /\ frames' = frames + 1
    /\ gap' = IF Timed(stamp) THEN Elapsed(stamp) ELSE 0
    /\ intf' = [intf EXCEPT !.requestSync = FALSE]
    /\ UNCHANGED <<encoder, configured>>
-----------------------------------------------------------------------------
(* config_vb() of the interface.                                            *)

Configure(i) ==
    /\ May("config") /\ Took({"config"})
    /\ intf' = i
    /\ UNCHANGED <<encoder, enc, lib, configured, frames, gap, undefined>>

ConfigureSize(size) ==
    Configure(WithLevel([intf EXCEPT !.size = SizeSetter(intf.size, size)]))
ConfigureFrameRate(rate) == Configure(WithLevel([intf EXCEPT !.frameRate = rate]))
ConfigureBitrate(bitrate) ==
    Configure(WithLevel([intf EXCEPT !.bitrate = BitrateSetter(bitrate)]))
ConfigureLevel(level) ==
    /\ level \in (IF encoder \in Avc THEN AvcLevels ELSE HevcLevels)
    /\ Configure(WithLevel([intf EXCEPT !.level = level]))
ConfigurePeriod(period) == Configure([intf EXCEPT !.period = period])
ConfigureQuantization(qp) ==
    Configure([intf EXCEPT !.qp = PictureQuantizationSetter(qp)])
RequestSync == Configure([intf EXCEPT !.requestSync = TRUE])
-----------------------------------------------------------------------------
Init ==
    /\ encoder \in Encoder
    /\ intf = CASE encoder = "HCodec"  -> HCodec_IntfImpl
                [] encoder = "W420New" -> W420New_IntfImpl
                [] encoder \in Multi   -> Multi_IntfImpl
    /\ enc = [funcs |-> {}, mCodecHandle |-> FALSE, mBitrateBak |-> 0, mFrameRateValue |-> 0,
              mtimeStampBak |-> 0]
    /\ lib = Closed
    /\ configured = intf
    /\ frames = 0
    /\ gap = 0
    /\ undefined = FALSE
    /\ calls = [c \in Call |-> 0]

Next ==
    \/ StartSucceeds \/ StartWithoutModule \/ StartWithoutHandle \/ Close
    \/ \E stamp \in Stamps : ProcessOneFrame(stamp)
    \/ \E size \in Sizes : ConfigureSize(size)
    \/ \E rate \in FrameRates : ConfigureFrameRate(rate)
    \/ \E bitrate \in Bitrates : ConfigureBitrate(bitrate)
    \/ \E level \in AvcLevels \cup HevcLevels : ConfigureLevel(level)
    \/ \E period \in Periods : ConfigurePeriod(period)
    \/ \E qp \in Quantizations : ConfigureQuantization(qp)
    \/ RequestSync

Spec == Init /\ [][Next]_vars
-----------------------------------------------------------------------------
(* Properties.                                                              *)

\* Values of the variables; the parameters keep to what the encoder supports.
TypeOK ==
    /\ encoder \in Encoder
    /\ SupportedWidth(intf.size.width) /\ SupportedHeight(intf.size.height)
    /\ intf.frameRate \in Nat \ {0} /\ intf.bitrate >= 4096 /\ intf.period \in Nat
    /\ intf.requestSync \in BOOLEAN
    /\ DOMAIN intf = DOMAIN configured
    /\ enc.funcs \subseteq Names(Len(Functions))
    /\ enc.mCodecHandle \in BOOLEAN
    /\ DOMAIN lib = DOMAIN Closed
    /\ frames \in Nat
    /\ gap \in Int
    /\ undefined \in BOOLEAN
    /\ calls \in [Call -> Nat]

\* The level of an AVC stream covers its size, rate and bitrate in whatever order they
\* and the level are configured, unless no level does.
LevelCovers ==
    encoder \in Avc =>
        \E i \in DOMAIN AvcLimits :
            /\ intf.level = AvcLimits[i].level
            /\ Covers(AvcLimits[i], AvcNeed(intf)) \/ i = Len(AvcLimits)

\* The library is opened for the stream the client configured.  A sync frame comes as
\* often as the interval asks, or never again for the greatest interval, however the
\* conversions and the sum wrap; the quantizers are in the range of the codec; and the
\* picture has the size configured, by cropping if it is narrow (C2VencMulti does not).
StreamAsConfigured ==
    /\ IF configured.period = Never THEN lib.gop \notin 1..(IntMax - 1)
       ELSE /\ lib.gop >= 1
            /\ lib.gop <= Interval(configured.period, configured.frameRate) + 1
    /\ \A t \in DOMAIN lib.qp : lib.qp[t].min \in CodecQp /\ lib.qp[t].max \in CodecQp
    /\ configured.size.width \in {lib.width, lib.crop} \/ encoder \in Multi

\* The rate in the library is the one configured at start() or one that two frames in a
\* row have shown, never what is left of a division by zero or of time stamps that go
\* back; and it is the one that the last two frames show, but for one frame per second.
RateIsReal ==
    /\ lib.frameRate > 0
    /\ gap > 0 /\ encoder \notin Multi =>
           \/ 1000000 \div gap = 0
           \/ lib.frameRate - (1000000 \div gap) \in -1..1

\* The open library has the stream and the rate it should have, and no function is
\* called that was not loaded, although a later start() may fail to load what an earlier
\* one did.
LibraryAsConfigured ==
    /\ enc.mCodecHandle => StreamAsConfigured /\ RateIsReal
    /\ ~undefined
=============================================================================
