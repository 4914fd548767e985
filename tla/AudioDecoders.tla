--------------------------- MODULE AudioDecoders ---------------------------
(***************************************************************************)
(* What the audio decoders keep between the handlers C2AudioDecComponent   *)
(* calls on its looper, as functions from what a decoder keeps to what it  *)
(* keeps afterwards.  The AAC decoder is linked in.  The other five load a *)
(* library when they are set up, tear down what they allocated when that   *)
(* fails, and differ in what stop, reset and release do.                   *)
(*                                                                         *)
(* A handler that uses what is not there (a configuration that was freed,  *)
(* a library that is not loaded, a codec that was closed) has no defined   *)
(* outcome.                                                                *)
(*                                                                         *)
(* An operator with a suffix is the one before the underscore with a       *)
(* plausible bug.                                                          *)
(***************************************************************************)
EXTENDS Integers, Sequences

Decoder == {"AAC", "EAC3", "AC4", "DTS", "DTSX", "FFMPEG"}

\* What a decoder keeps.  The fields after mSignalledError are of the decoders with
\* a library, those of a delayed output (ring, compensated) of AAC.
NewCodec ==
    [infos |-> <<>>, ring |-> 0, compensated |-> 0, mSignalledError |-> FALSE,
     library |-> FALSE,     \* dlopen() succeeded, the functions are found
     handle |-> "none",     \* the codec inside the library
     config |-> TRUE,       \* mConfig, or mAInfo of FFmpeg, is allocated
     mSetUp |-> FALSE,
     raw |-> FALSE,         \* the player asked for the stream itself: digital_raw = 3
     reopens |-> TRUE,      \* FFmpeg: the format is one onReset() opens again
     undefined |-> FALSE]

Undefined(c) == [c EXCEPT !.undefined = TRUE]

\* What the constructors leave, for each stream the decoder may be created for.
\* The library of FFmpeg is loaded by the constructor.
Constructed(decoder) ==
    CASE decoder \in {"EAC3", "DTS", "DTSX"} -> {[NewCodec EXCEPT !.raw = r] : r \in BOOLEAN}
      [] decoder = "FFMPEG" -> {[NewCodec EXCEPT !.library = TRUE, !.reopens = r] : r \in BOOLEAN}
      [] OTHER -> {NewCodec}
-----------------------------------------------------------------------------
(* onInit(): ok is whether the library can be loaded and opens a codec.     *)

\* tearDownAudioDecoder_l() after a set-up that failed.
TornDown(c) == [c EXCEPT !.config = FALSE, !.library = FALSE, !.handle = "none"]

\* AC3 and E-AC3: nothing is opened when the stream itself is output.
EAC3_SetUp(c, ok) ==
    IF c.mSetUp THEN c
    ELSE IF ~ok THEN TornDown(c)
    ELSE IF ~c.config THEN Undefined(c)
    ELSE [c EXCEPT !.library = TRUE, !.mSetUp = TRUE,
                   !.handle = IF c.raw THEN "none" ELSE "open"]

\* AC-4: the library may also be there and fail to open a codec, after mConfig was
\* used; what was loaded is then unloaded.
AC4_SetUp(c, loads, ok) ==
    IF c.mSetUp THEN c
    ELSE IF ~loads THEN TornDown(c)
    ELSE IF ~c.config THEN Undefined(c)
    ELSE IF ~ok THEN TornDown(c)
    ELSE [c EXCEPT !.library = TRUE, !.mSetUp = TRUE, !.handle = "open"]

\* DTS: dts_decoder_init() is not asked whether it succeeded.
DTS_SetUp(c, ok) ==
    IF c.mSetUp THEN c
    ELSE IF ~ok THEN TornDown(c)
    ELSE IF ~c.config THEN Undefined(c)
    ELSE [c EXCEPT !.library = TRUE, !.mSetUp = TRUE]

\* _aml_dtsx_dualcore_init(): unloads the library when one of the two cores fails.
DTSX_DualcoreInit(c, ok) ==
    IF ok THEN [c EXCEPT !.library = TRUE, !.handle = "open"]
    ELSE [c EXCEPT !.library = FALSE, !.handle = "none"]

\* DTS:X: the result of _aml_dtsx_dualcore_init() is not looked at: without a library
\* (~loads) the set-up fails, without cores it does not.
DTSX_SetUp(c, loads, ok) ==
    IF c.mSetUp THEN c
    ELSE IF ~loads THEN TornDown(c)
    ELSE IF ~c.config THEN Undefined(c)
    ELSE [(IF c.raw THEN [c EXCEPT !.library = TRUE] ELSE DTSX_DualcoreInit(c, ok))
             EXCEPT !.mSetUp = TRUE]

\* FFmpeg: ffmpeg_decoder_init() is not asked whether it succeeded.
FFMPEG_SetUp(c) ==
    IF c.mSetUp THEN c ELSE [c EXCEPT !.mSetUp = TRUE, !.handle = "open"]

\* The decoder after onInit(), in each way a set-up that fails (~ok) may go.
Initialized(decoder, c, ok) ==
    CASE decoder = "EAC3"   -> {EAC3_SetUp(c, ok)}
      [] decoder = "AC4"    -> {AC4_SetUp(c, l, ok) : l \in IF ok THEN {TRUE} ELSE BOOLEAN}
      [] decoder = "DTS"    -> {DTS_SetUp(c, ok)}
      [] decoder = "DTSX"   -> {DTSX_SetUp(c, l, ok) : l \in IF ok THEN {TRUE} ELSE BOOLEAN}
      [] decoder = "FFMPEG" -> {FFMPEG_SetUp(c)}
      [] OTHER              -> {c}

\* Whether onInit() reports success: AAC's does as its library says.
InitSucceeds(decoder, c, ok) == IF decoder = "AAC" THEN ok ELSE c.mSetUp
-----------------------------------------------------------------------------
(* onStop(), onReset() and onRelease().                                     *)

\* AAC starts afresh.
AAC_Stop(c) == NewCodec

\* AC-3 keeps even its infos.
EAC3_Stop(c) == c

AC4_Stop(c)    == [c EXCEPT !.infos = <<>>]
DTS_Stop(c)    == [c EXCEPT !.infos = <<>>]
DTSX_Stop(c)   == [c EXCEPT !.infos = <<>>]
FFMPEG_Stop(c) == [c EXCEPT !.infos = <<>>]

Stopped(decoder, c) ==
    CASE decoder = "AAC"    -> AAC_Stop(c)
      [] decoder = "EAC3"   -> EAC3_Stop(c)
      [] decoder = "AC4"    -> AC4_Stop(c)
      [] decoder = "DTS"    -> DTS_Stop(c)
      [] decoder = "DTSX"   -> DTSX_Stop(c)
      [] decoder = "FFMPEG" -> FFMPEG_Stop(c)

AAC_Reset(c) == AAC_Stop(c)

EAC3_Reset_OnlyCloses(c) ==
    IF c.handle = "none" THEN c ELSE [c EXCEPT !.handle = "closed"]

\* The codec is closed and another one opened.
EAC3_Reset(c) ==
    IF c.handle = "none" THEN c ELSE [c EXCEPT !.handle = "open"]

AC4_Reset(c)  == c
DTS_Reset(c)  == c
DTSX_Reset(c) == c

\* The codec is closed; only for some formats is another one opened.
FFMPEG_Reset(c) ==
    IF ~c.config \/ c.handle = "closed" THEN Undefined(c)
    ELSE [FFMPEG_Stop(c) EXCEPT !.handle = IF c.reopens THEN "open"
                                           ELSE IF @ = "open" THEN "closed" ELSE @]

WasReset(decoder, c) ==
    CASE decoder = "AAC"    -> AAC_Reset(c)
      [] decoder = "EAC3"   -> EAC3_Reset(c)
      [] decoder = "AC4"    -> AC4_Reset(c)
      [] decoder = "DTS"    -> DTS_Reset(c)
      [] decoder = "DTSX"   -> DTSX_Reset(c)
      [] decoder = "FFMPEG" -> FFMPEG_Reset(c)

\* What tearDown() frees, if the decoder was set up; AC-4 and the two DTS decoders
\* keep mSetUp.
EAC3_Release(c) ==
    [(IF c.mSetUp THEN TornDown(c) ELSE c) EXCEPT !.handle = "none", !.mSetUp = FALSE]
AC4_Release(c)  == [(IF c.mSetUp THEN TornDown(c) ELSE c) EXCEPT !.infos = <<>>, !.handle = "none"]
DTS_Release(c)  == [(IF c.mSetUp THEN TornDown(c) ELSE c) EXCEPT !.infos = <<>>]
DTSX_Release(c) == [(IF c.mSetUp THEN TornDown(c) ELSE c) EXCEPT !.infos = <<>>]

\* unload_ffmpeg_decoder_lib() closes mCodec, also one that is closed already.
FFMPEG_Release(c) ==
    IF c.mSetUp /\ c.handle = "closed" THEN Undefined(c)
    ELSE [(IF c.mSetUp THEN TornDown(c) ELSE c) EXCEPT !.infos = <<>>, !.mSetUp = FALSE]

Released(decoder, c) ==
    CASE decoder = "AAC"    -> c
      [] decoder = "EAC3"   -> EAC3_Release(c)
      [] decoder = "AC4"    -> AC4_Release(c)
      [] decoder = "DTS"    -> DTS_Release(c)
      [] decoder = "DTSX"   -> DTSX_Release(c)
      [] decoder = "FFMPEG" -> FFMPEG_Release(c)
-----------------------------------------------------------------------------
(* process() of the decoders with a library, up to where it sends output:   *)
(* out is whether samples came out, ok whether the interface accepts the    *)
(* format they have.  All of them leave at once when it does not.           *)

WithInfo(c, w) == [c EXCEPT !.infos = Append(@, [work |-> w, frames |-> 0])]

\* The frames of the input, and of what was left of the input before, go to the
\* library, unless the stream itself is output.
EAC3_Decode(c) ==
    IF ~c.config \/ (~c.raw /\ (~c.library \/ c.handle # "open")) THEN Undefined(c) ELSE c

\* The info is kept with and without output.
EAC3_Process(c, w, out, ok) ==
    LET decoded == EAC3_Decode(c) IN
    IF decoded.undefined THEN decoded ELSE WithInfo(decoded, w)

AC4_Process(c, w, out, ok) ==
    IF ~c.config \/ ~c.library \/ c.handle # "open" THEN Undefined(c)
    ELSE IF out THEN WithInfo(c, w) ELSE c

DTS_Process(c, w, out, ok) ==
    IF ~c.config \/ (~c.raw /\ ~c.library) THEN Undefined(c)
    ELSE IF out THEN WithInfo(c, w) ELSE c

DTSX_Process(c, w, out, ok) ==
    IF ~c.config \/ (~c.raw /\ (~c.library \/ c.handle # "open")) THEN Undefined(c)
    ELSE IF out THEN WithInfo(c, w) ELSE c

\* The format is set before the info is kept.
FFMPEG_Process(c, w, out, ok) ==
    IF ~c.library \/ c.handle # "open" THEN Undefined(c)
    ELSE IF ok THEN WithInfo(c, w) ELSE c

\* Codec config of FFmpeg: the codec is closed, and opened with it.
FFMPEG_Configure(c) ==
    IF ~c.config THEN c
    ELSE IF ~c.library \/ c.handle = "closed" THEN Undefined(c)
    ELSE [c EXCEPT !.handle = "open"]

Processed(decoder, c, w, out, ok) ==
    CASE decoder = "EAC3"   -> EAC3_Process(c, w, out, ok)
      [] decoder = "AC4"    -> AC4_Process(c, w, out, ok)
      [] decoder = "DTS"    -> DTS_Process(c, w, out, ok)
      [] decoder = "DTSX"   -> DTSX_Process(c, w, out, ok)
      [] decoder = "FFMPEG" -> FFMPEG_Process(c, w, out, ok)
=============================================================================
