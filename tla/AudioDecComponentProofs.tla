---------------------- MODULE AudioDecComponentProofs ---------------------
(***************************************************************************)
(* Proofs about AudioDecComponent, for each of the decoders, any number of *)
(* works and any number of calls and failures.                             *)
(*                                                                         *)
(* Types; that a decoder finds its library, its configuration and its codec*)
(* wherever it uses them (UseInv: what each decoder needs, and in which    *)
(* messages the looper may still ask for it); and the order in which works *)
(* come back (OrderInv for every session, InfosHold as long as nothing     *)
(* disturbs it).                                                           *)
(***************************************************************************)
EXTENDS AudioDecComponent, TLAPS

-----------------------------------------------------------------------------
(* Types.                                                                    *)

Entry == [work : {0} \cup Works, drainMode : DrainMode \cup {"none"}]

\* What is known of the places a work may be at.
LEMMA PlaceNames ==
    /\ Held \subseteq Loc /\ Returned \subseteq Loc
    /\ {"client", "queue", "processing", "pending", "done", "notFound", "flushed", "destroyed"}
          \subseteq Loc
  BY DEF Held, Returned, Loc

\* Moving works keeps the type of loc.
LEMMA MovedType ==
    ASSUME loc \in [Works -> Loc], NEW S, NEW place \in Loc
    PROVE  Moved(S, place) \in [Works -> Loc]
  BY DEF Moved

LEMMA OneMoved ==
    ASSUME loc \in [Works -> Loc], NEW w \in {0} \cup Works, NEW place \in Loc
    PROVE  (IF w = 0 THEN loc ELSE [loc EXCEPT ![w] = place]) \in [Works -> Loc]
  BY DEF Works

\* Where the tasks of a looper go.
LEMMA TakeType ==
    ASSUME TypeOK, NEW m, Take(m)
    PROVE  /\ msgs \in Seq(Message) /\ msgs # <<>> /\ msgs' = Tail(msgs)
           /\ msgs' \in Seq(Message) /\ m \in Message
  BY DEF Take, TypeOK

LEMMA PostType ==
    ASSUME TypeOK, NEW m \in Message, Post(m)
    PROVE  msgs' \in Seq(Message)
  BY DEF Post, TypeOK

LEMMA ReturnType ==
    ASSUME NEW more, NEW posted \in Seq(Message), Return(more, posted)
    PROVE  msgs' \in Seq(Message) /\ cur' \in CurSet
  BY DEF Return, IdleCur, CurSet, Message

\* The decoder has the kinds the module AudioDecoders knows.
LEMMA Kinds ==
    ASSUME TypeOK
    PROVE  decoder \in {"AAC", "EAC3", "AC4", "DTS", "DTSX", "FFMPEG"}
  BY AudioDecoderAssumption DEF TypeOK, Decoder

LEMMA NewCodecType == NewCodec \in CodecSet
  BY AudioDecoderAssumption DEF NewCodec, CodecSet

\* The initial states.
LEMMA InitType == Init => TypeOK
<1> SUFFICES ASSUME Init PROVE TypeOK
  OBVIOUS
<1>1. codec \in CodecSet
  <2>1. codec \in Constructed(decoder)
    BY DEF Init
  <2>2. \/ codec = NewCodec
        \/ \E r \in BOOLEAN : \/ codec = [NewCodec EXCEPT !.raw = r]
                              \/ codec = [NewCodec EXCEPT !.library = TRUE, !.reopens = r]
    <3>1. CASE decoder \in {"EAC3", "DTS", "DTSX"}
      BY <2>1, <3>1 DEF Constructed
    <3>2. CASE decoder = "FFMPEG"
      BY <2>1, <3>2 DEF Constructed
    <3>3. CASE decoder \notin {"EAC3", "DTS", "DTSX", "FFMPEG"}
      BY <2>1, <3>3 DEF Constructed
    <3> QED BY <3>1, <3>2, <3>3
  <2> QED BY <2>2, NewCodecType DEF CodecSet
<1>2. cur \in CurSet
  BY DEF Init, IdleCur, CurSet
<1>3. loc \in [Works -> Loc] /\ calls \in [Call -> Nat]
  BY PlaceNames DEF Init
<1>4. msgs \in Seq(Message) /\ mQueue \in Seq(Entry) /\ mGeneration \in Nat
  BY DEF Init
<1> QED
  BY <1>1, <1>2, <1>3, <1>4 DEF Init, TypeOK, Entry

\* The client's calls keep the types.
LEMMA ClientTypes ==
    ASSUME TypeOK, Client
    PROVE  TypeOK'
<1> USE DEF queueVars, looper, clientVars
<1>0. loc \in [Works -> Loc] /\ mQueue \in Seq(Entry) /\ msgs \in Seq(Message)
      /\ calls \in [Call -> Nat] /\ mGeneration \in Nat
  BY DEF TypeOK, Entry
<1>c. \A c \in Call : Count(c) => calls' \in [Call -> Nat]
  BY <1>0 DEF Count
<1>q. \A e \in Entry : Enqueue(e) => mQueue' \in Seq(Entry) /\ feeder' \in {"idle", "post"}
  BY <1>0 DEF Enqueue
<1>w. ClearWorks => mQueue' \in Seq(Entry) /\ loc' \in [Works -> Loc]
  BY <1>0, MovedType, PlaceNames DEF ClearWorks
<1>m. \A m \in Message : Post(m) => msgs' \in Seq(Message)
  BY PostType
<1>1. ASSUME NEW w \in Works, queue_nb(w) PROVE TypeOK'
  <2>1. [work |-> w, drainMode |-> "none"] \in Entry
    BY DEF Entry
  <2>2. loc' \in [Works -> Loc]
    BY <1>0, <1>1, PlaceNames DEF queue_nb
  <2> QED BY <1>1, <1>q, <2>1, <2>2 DEF queue_nb, TypeOK, Entry
<1>2. ASSUME NEW mode \in DrainModes, drain_nb(mode) PROVE TypeOK'
  <2>1. [work |-> 0, drainMode |-> mode] \in Entry
    BY AudioDecoderAssumption DEF Entry
  <2>2. calls' \in [Call -> Nat]
    BY <1>2, <1>c DEF drain_nb, Call
  <2> QED BY <1>2, <1>q, <2>1, <2>2 DEF drain_nb, TypeOK, Entry
<1>3. CASE PostProcess
  <2>1. msgs' \in Seq(Message)
    BY <1>3, <1>m DEF PostProcess, Message
  <2> QED BY <1>3, <2>1 DEF PostProcess, TypeOK
<1>4. CASE flush_sm
  <2>1. calls' \in [Call -> Nat]
    BY <1>4, <1>c DEF flush_sm, Call
  <2>2. loc' \in [Works -> Loc] /\ mQueue' \in Seq(Entry) /\ mGeneration' \in Nat
    BY <1>0, <1>4, MovedType, PlaceNames DEF flush_sm
  <2> QED BY <1>4, <2>1, <2>2 DEF flush_sm, TypeOK, Entry
<1>5. CASE start
  <2>1. calls' \in [Call -> Nat]
    BY <1>5, <1>c DEF start, Call
  <2>2. msgs' \in Seq(Message)
    BY <1>5, <1>m DEF start, Message
  <2> QED BY <1>5, <2>1, <2>2 DEF start, TypeOK
<1>6. CASE InitReturn
  BY <1>6 DEF InitReturn, TypeOK
<1>7. CASE stop
  <2>1. calls' \in [Call -> Nat]
    BY <1>7, <1>c DEF stop, Call
  <2>2. msgs' \in Seq(Message)
    BY <1>7, <1>m DEF stop, Message
  <2> QED BY <1>7, <1>w, <2>1, <2>2 DEF stop, TypeOK, Entry
<1>8. CASE reset
  <2>1. calls' \in [Call -> Nat]
    BY <1>8, <1>c DEF reset, Call
  <2>2. msgs' \in Seq(Message)
    BY <1>8, <1>m DEF reset, Message
  <2> QED BY <1>8, <1>w, <2>1, <2>2 DEF reset, TypeOK, Entry
<1>9. CASE release
  <2>1. msgs' \in Seq(Message)
    BY <1>9, <1>m DEF release, Message
  <2> QED BY <1>9, <2>1 DEF release, TypeOK
<1> QED
  BY <1>1, <1>2, <1>3, <1>4, <1>5, <1>6, <1>7, <1>8, <1>9 DEF Client

\* No infos are a list of infos.
LEMMA NoInfos == <<>> \in Seq(Info)
  OBVIOUS

\* A decoder keeps its type whatever it is asked to do.
LEMMA FieldTypes ==
    ASSUME NEW c \in CodecSet
    PROVE  /\ Undefined(c) \in CodecSet /\ TornDown(c) \in CodecSet
           /\ [c EXCEPT !.infos = <<>>] \in CodecSet
           /\ \A h \in {"none", "open", "closed"} : [c EXCEPT !.handle = h] \in CodecSet
<1>1. Undefined(c) \in CodecSet
  BY DEF CodecSet, Undefined
<1>2. TornDown(c) \in CodecSet
  BY DEF CodecSet, TornDown
<1>3. [c EXCEPT !.infos = <<>>] \in CodecSet
  BY NoInfos DEF CodecSet
<1>4. ASSUME NEW h \in {"none", "open", "closed"}
      PROVE  [c EXCEPT !.handle = h] \in CodecSet
  BY DEF CodecSet
<1> QED
  BY <1>1, <1>2, <1>3, <1>4

LEMMA SetUpTypes ==
    ASSUME TypeOK, NEW ok \in BOOLEAN
    PROVE  Initialized(decoder, codec, ok) \subseteq CodecSet
<1> DEFINE c == codec
<1>1. c \in CodecSet
  BY DEF TypeOK
<1>2. EAC3_SetUp(c, ok) \in CodecSet
  BY <1>1 DEF EAC3_SetUp, Undefined, TornDown, CodecSet
<1>3. \A l \in BOOLEAN : AC4_SetUp(c, l, ok) \in CodecSet
  BY <1>1 DEF AC4_SetUp, Undefined, TornDown, CodecSet
<1>4. DTS_SetUp(c, ok) \in CodecSet
  BY <1>1 DEF DTS_SetUp, Undefined, TornDown, CodecSet
<1>5. \A l \in BOOLEAN : DTSX_SetUp(c, l, ok) \in CodecSet
  BY <1>1 DEF DTSX_SetUp, DTSX_DualcoreInit, Undefined, TornDown, CodecSet
<1>6. FFMPEG_SetUp(c) \in CodecSet
  BY <1>1 DEF FFMPEG_SetUp, CodecSet
<1> HIDE DEF c
<1> QED
  <2>1. CASE decoder = "EAC3"
    BY <1>2, <2>1 DEF Initialized, c
  <2>2. CASE decoder = "AC4"
    BY <1>3, <2>2 DEF Initialized, c
  <2>3. CASE decoder = "DTS"
    BY <1>4, <2>3 DEF Initialized, c
  <2>4. CASE decoder = "DTSX"
    BY <1>5, <2>4 DEF Initialized, c
  <2>5. CASE decoder = "FFMPEG"
    BY <1>6, <2>5 DEF Initialized, c
  <2>6. CASE decoder = "AAC"
    BY <1>1, <2>6 DEF Initialized, c
  <2> QED BY <2>1, <2>2, <2>3, <2>4, <2>5, <2>6, Kinds

LEMMA EndTypes ==
    ASSUME TypeOK
    PROVE  /\ Stopped(decoder, codec) \in CodecSet
           /\ WasReset(decoder, codec) \in CodecSet
           /\ Released(decoder, codec) \in CodecSet
<1>1. codec \in CodecSet
  BY DEF TypeOK
<1>2. Stopped(decoder, codec) \in CodecSet
  BY <1>1, FieldTypes, Kinds, NewCodecType
  DEF Stopped, AAC_Stop, EAC3_Stop, AC4_Stop, DTS_Stop, DTSX_Stop, FFMPEG_Stop
<1>3. WasReset(decoder, codec) \in CodecSet
  <2>1. EAC3_Reset(codec) \in CodecSet
    BY <1>1, FieldTypes DEF EAC3_Reset
  <2>2. FFMPEG_Reset(codec) \in CodecSet
    <3>1. FFMPEG_Stop(codec) \in CodecSet /\ FFMPEG_Stop(codec).handle = codec.handle
      BY <1>1, FieldTypes DEF FFMPEG_Stop, CodecSet
    <3>2. codec.handle \in {"none", "open", "closed"}
      BY <1>1 DEF CodecSet
    <3> QED BY <1>1, <3>1, <3>2, FieldTypes DEF FFMPEG_Reset
  <2> QED
    BY <1>1, <2>1, <2>2, Kinds, NewCodecType
    DEF WasReset, AAC_Reset, AAC_Stop, AC4_Reset, DTS_Reset, DTSX_Reset
<1>4. Released(decoder, codec) \in CodecSet
  <2>1. EAC3_Release(codec) \in CodecSet
    BY <1>1 DEF EAC3_Release, TornDown, CodecSet
  <2>2. AC4_Release(codec) \in CodecSet
    BY <1>1, NoInfos DEF AC4_Release, TornDown, CodecSet
  <2>3. DTS_Release(codec) \in CodecSet /\ DTSX_Release(codec) \in CodecSet
    BY <1>1, NoInfos DEF DTS_Release, DTSX_Release, TornDown, CodecSet
  <2>4. FFMPEG_Release(codec) \in CodecSet
    BY <1>1, NoInfos DEF FFMPEG_Release, Undefined, TornDown, CodecSet
  <2> QED BY <1>1, <2>1, <2>2, <2>3, <2>4, Kinds DEF Released
<1> QED
  BY <1>2, <1>3, <1>4

\* The ring buffer of the AAC decoder never holds more than it can.
LEMMA LeastIs ==
    ASSUME NEW a \in Int, NEW b \in Int
    PROVE  Least(a, b) \in Int /\ Least(a, b) <= a /\ Least(a, b) <= b
           /\ (Least(a, b) = a \/ Least(a, b) = b)
  BY DEF Least

LEMMA DrainType ==
    ASSUME NEW c \in CodecSet
    PROVE  drainDecoder(c) \in CodecSet
<1> DEFINE fits == Least(c.compensated, RingFrames - c.ring)
<1>1. c.ring \in 0..RingFrames /\ c.compensated \in 0..OutputDelay /\ c.mSignalledError \in BOOLEAN
      /\ RingFrames \in Nat /\ OutputDelay \in Nat
  BY AudioDecoderAssumption DEF CodecSet
<1>2. fits \in 0..c.compensated /\ fits <= RingFrames - c.ring
  BY <1>1, LeastIs DEF Least
<1>3. c.ring + fits \in 0..RingFrames /\ c.compensated - fits \in 0..OutputDelay
      /\ (c.mSignalledError \/ fits < c.compensated) \in BOOLEAN
  BY <1>1, <1>2
<1> HIDE DEF fits
<1>4. drainDecoder(c) = [c EXCEPT !.ring = c.ring + fits, !.compensated = c.compensated - fits,
                                  !.mSignalledError = c.mSignalledError \/ fits < c.compensated]
  BY DEF drainDecoder, fits
<1> QED
  BY <1>3, <1>4 DEF CodecSet

LEMMA DecodeType ==
    ASSUME NEW c \in CodecSet, NEW w \in Works, NEW frames \in Nat
    PROVE  Decode(c, w, frames) \in CodecSet
<1> DEFINE fits == Least(frames, RingFrames - c.ring)
<1>1. c.ring \in 0..RingFrames /\ RingFrames \in Nat /\ c.infos \in Seq(Info)
  BY AudioDecoderAssumption DEF CodecSet
<1>2. fits \in Nat /\ c.ring + fits \in 0..RingFrames
  BY <1>1, LeastIs DEF Least
<1>3. Append(c.infos, [work |-> w, frames |-> fits]) \in Seq(Info)
  BY <1>1, <1>2 DEF Info
<1> QED
  BY <1>2, <1>3 DEF Decode, CodecSet

LEMMA CompensateType ==
    ASSUME NEW c \in CodecSet
    PROVE  Compensate(c) \in CodecSet
<1> DEFINE discarded == Least(c.ring, OutputDelay - c.compensated)
<1>1. c.ring \in 0..RingFrames /\ RingFrames \in Nat /\ c.compensated \in 0..OutputDelay
      /\ OutputDelay \in Nat
  BY AudioDecoderAssumption DEF CodecSet
<1>2. c.ring - discarded \in 0..RingFrames /\ c.compensated + discarded \in 0..OutputDelay
  BY <1>1, LeastIs DEF Least
<1> QED
  BY <1>2 DEF Compensate, CodecSet

\* Flushed decoders.
LEMMA FlushType ==
    ASSUME TypeOK
    PROVE  onFlush_sm(codec) \in CodecSet
<1>1. codec \in CodecSet /\ drainDecoder(codec) \in CodecSet
  BY DrainType DEF TypeOK
<1>2. 0 \in 0..RingFrames
  BY AudioDecoderAssumption
<1>3. \A c \in CodecSet : [c EXCEPT !.infos = <<>>, !.ring = 0] \in CodecSet
  BY <1>2, NoInfos DEF CodecSet
<1> QED
  BY <1>1, <1>3, FieldTypes DEF onFlush_sm

\* What process() makes of a decoder.
LEMMA ProcessedType ==
    ASSUME TypeOK, NEW w \in Works, NEW out, NEW ok, decoder # "AAC"
    PROVE  Processed(decoder, codec, w, out, ok) \in CodecSet
<1>1. codec \in CodecSet /\ Undefined(codec) \in CodecSet
  BY FieldTypes DEF TypeOK
<1>2. WithInfo(codec, w) \in CodecSet
  <2>1. Append(codec.infos, [work |-> w, frames |-> 0]) \in Seq(Info)
    BY <1>1 DEF CodecSet, Info
  <2> QED BY <1>1, <2>1 DEF WithInfo, CodecSet
<1>3. EAC3_Process(codec, w, out, ok) \in CodecSet
  <2>1. Undefined(codec).undefined
    BY <1>1 DEF Undefined, CodecSet
  <2> QED BY <1>1, <1>2, <2>1 DEF EAC3_Process, EAC3_Decode
<1>4. AC4_Process(codec, w, out, ok) \in CodecSet
  BY <1>1, <1>2 DEF AC4_Process
<1>5. DTS_Process(codec, w, out, ok) \in CodecSet /\ DTSX_Process(codec, w, out, ok) \in CodecSet
  BY <1>1, <1>2 DEF DTS_Process, DTSX_Process
<1>6. FFMPEG_Process(codec, w, out, ok) \in CodecSet
  BY <1>1, <1>2 DEF FFMPEG_Process
<1> QED
  BY <1>3, <1>4, <1>5, <1>6, Kinds DEF Processed

\* The messages other than kWhatProcess.
LEMMA MessageTypes ==
    ASSUME TypeOK, \/ \E ok \in BOOLEAN : InitMessage(ok)
                   \/ StartMessage \/ StopMessage \/ ResetMessage \/ ReleaseMessage
    PROVE  TypeOK'
<1> USE DEF queueVars, looper, clientVars
<1>1. ASSUME NEW ok \in BOOLEAN, InitMessage(ok) PROVE TypeOK'
  <2>1. calls' \in [Call -> Nat]
    BY <1>1 DEF InitMessage, TypeOK, Count, Call
  <2>2. codec' \in CodecSet /\ msgs' \in Seq(Message)
    BY <1>1, SetUpTypes, TakeType DEF InitMessage
  <2> QED BY <1>1, <2>1, <2>2 DEF InitMessage, TypeOK
<1>2. CASE StartMessage
  BY <1>2, TakeType DEF StartMessage, TypeOK
<1>3. CASE StopMessage
  BY <1>3, TakeType, EndTypes DEF StopMessage, TypeOK
<1>4. CASE ResetMessage
  BY <1>4, TakeType, EndTypes DEF ResetMessage, TypeOK
<1>5. CASE ReleaseMessage
  BY <1>5, TakeType, EndTypes DEF ReleaseMessage, TypeOK
<1> QED
  BY <1>1, <1>2, <1>3, <1>4, <1>5

\* The steps of cur.
LEMMA CurTypes ==
    ASSUME TypeOK
    PROVE  /\ cur.pc \in {"idle", "popped", "ring", "eos", "tail"}
           /\ cur.work \in {0} \cup Works
           /\ \A p \in {"ring", "eos", "tail"} :
                 /\ [cur EXCEPT !.pc = p] \in CurSet
                 /\ \A b \in BOOLEAN : [cur EXCEPT !.pc = p, !.processed = b] \in CurSet
           /\ \A b \in BOOLEAN : [cur EXCEPT !.processed = b] \in CurSet
  BY DEF TypeOK, CurSet

\* finish() moves a work from one place to another.
LEMMA FinishType ==
    ASSUME TypeOK, NEW w \in {0} \cup Works, finish(w)
    PROVE  loc' \in [Works -> Loc]
  BY PlaceNames DEF TypeOK, finish

LEMMA ProcessTypes ==
    ASSUME TypeOK, NEW frames \in FrameCounts, NEW ok \in BOOLEAN, Process(frames, ok)
    PROVE  TypeOK'
<1>1. cur.work \in Works /\ frames \in Nat /\ codec \in CodecSet
  BY CurTypes, AudioDecoderAssumption DEF Process, TypeOK
<1>2. calls' \in [Call -> Nat]
  BY DEF Process, TypeOK, Count, Call
<1>3. codec' \in CodecSet /\ cur' \in CurSet
  <2>1. CASE decoder = "AAC"
    <3> DEFINE c == Decode(codec, cur.work, frames)
    <3>1. c \in CodecSet
      BY <1>1, DecodeType
    <3>2. Compensate(c) \in CodecSet /\ drainDecoder(c) \in CodecSet
      BY <3>1, CompensateType, DrainType
    <3>3. c.ring \in 0..RingFrames
      BY <3>1 DEF CodecSet
    <3>4. [codec EXCEPT !.ring = IF cur.work \in CsdWorks THEN codec.ring ELSE c.ring,
                        !.mSignalledError = TRUE] \in CodecSet
      BY <1>1, <3>3 DEF CodecSet
    <3>5. ProcessAac(frames, ok)
      BY <2>1 DEF Process
    <3>6. \/ codec' = codec
          \/ codec' \in {Compensate(c), drainDecoder(c), c}
          \/ codec' = [codec EXCEPT !.ring = IF cur.work \in CsdWorks THEN codec.ring ELSE c.ring,
                                    !.mSignalledError = TRUE]
      BY <3>5 DEF ProcessAac
    <3>7. \/ cur' = [cur EXCEPT !.pc = "tail"]
          \/ \E p \in {"tail", "ring"} : cur' = [cur EXCEPT !.pc = p, !.processed = FALSE]
      BY <3>5 DEF ProcessAac
    <3>8. codec' \in CodecSet
      BY <1>1, <3>1, <3>2, <3>4, <3>6
    <3>9. cur' \in CurSet
      BY <3>7, CurTypes
    <3> QED BY <3>8, <3>9
  <2>2. CASE decoder # "AAC"
    <3>1. ProcessDirect(frames, ok)
      BY <2>2 DEF Process
    <3>2. Processed(decoder, codec, cur.work, frames > 0, ok) \in CodecSet
      BY <1>1, <2>2, ProcessedType
    <3>3. FFMPEG_Configure(codec) \in CodecSet
      BY <1>1, FieldTypes DEF FFMPEG_Configure
    <3> QED
      BY <3>1, <3>2, <3>3, CurTypes DEF ProcessDirect
  <2> QED BY <2>1, <2>2
<1> QED
  BY <1>2, <1>3 DEF Process, queueVars, TypeOK

LEMMA LooperTypes ==
    ASSUME TypeOK, Looper
    PROVE  TypeOK'
<1> USE DEF queueVars, looper, clientVars
<1>0. codec \in CodecSet /\ codec.infos \in Seq(Info) /\ codec.ring \in 0..RingFrames
      /\ RingFrames \in Nat
  BY AudioDecoderAssumption DEF TypeOK, CodecSet
<1>1. CASE ProcessNothing
  BY <1>1, TakeType DEF ProcessNothing, TypeOK
<1>2. CASE Pop
  <2>1. mQueue \in Seq(Entry) /\ mQueue # <<>> /\ Head(mQueue) \in Entry
        /\ mQueue' \in Seq(Entry)
    <3>1. mQueue \in Seq(Entry) /\ mQueue # <<>> /\ mQueue' = Tail(mQueue)
      BY <1>2 DEF Pop, TypeOK, Entry
    <3> QED BY <3>1
  <2>2. PICK e \in Entry : e = Head(mQueue)
    BY <2>1
  <2>3. cur' \in CurSet
    <3>1. e.work \in {0} \cup Works /\ mGeneration \in Nat
      BY DEF Entry, TypeOK
    <3> QED BY <1>2, <2>2, <3>1 DEF Pop, CurSet
  <2>4. loc' \in [Works -> Loc]
    BY <1>2, <2>2, OneMoved, PlaceNames DEF Pop, Entry, TypeOK
  <2>5. codec' \in CodecSet /\ msgs' \in Seq(Message)
    BY <1>0, <1>2, FlushType, TakeType DEF Pop
  <2> QED BY <1>2, <2>1, <2>3, <2>4, <2>5 DEF Pop, TypeOK, Entry
<1>3. CASE NoPool
  <2>1. loc' \in [Works -> Loc] /\ calls' \in [Call -> Nat]
    <3>1. calls' \in [Call -> Nat]
      BY <1>3 DEF NoPool, TypeOK, Count, Call
    <3>2. loc' \in [Works -> Loc]
      BY <1>3, CurTypes, OneMoved, PlaceNames DEF NoPool, TypeOK
    <3> QED BY <3>1, <3>2
  <2>2. msgs' \in Seq(Message) /\ cur' \in CurSet
    BY <1>3, ReturnType DEF NoPool, TypeOK
  <2> QED BY <1>3, <2>1, <2>2 DEF NoPool, TypeOK
<1>4. CASE Drain
  <2>1. codec' \in CodecSet
    BY <1>0, <1>4, DrainType DEF Drain
  <2>2. msgs' \in Seq(Message) /\ cur' \in CurSet
    BY <1>4, ReturnType, CurTypes DEF Drain, TypeOK
  <2> QED BY <1>4, <2>1, <2>2 DEF Drain, TypeOK
<1>5. CASE \E frames \in FrameCounts, ok \in BOOLEAN : Process(frames, ok)
  BY <1>5, ProcessTypes
<1>6. CASE SendOutput
  <2>1. codec.infos # <<>>
    BY <1>6 DEF SendOutput, OutputReady
  <2>2. PICK i \in Info : i = Head(codec.infos)
    BY <1>0, <2>1
  <2>3. i.frames \in Nat /\ i.work \in Works
    BY DEF Info
  <2>4. Tail(codec.infos) \in Seq(Info) /\ codec.ring - Least(codec.ring, i.frames) \in 0..RingFrames
    BY <1>0, <2>1, <2>3, LeastIs DEF Least
  <2>5. codec' \in CodecSet
    BY <1>0, <1>6, <2>2, <2>4 DEF SendOutput, CodecSet
  <2>6. cur' \in CurSet /\ loc' \in [Works -> Loc]
    BY <1>6, <2>2, <2>3, CurTypes, FinishType DEF SendOutput, TypeOK
  <2> QED BY <1>6, <2>5, <2>6 DEF SendOutput, TypeOK
<1>7. CASE NoMoreOutput
  BY <1>7, CurTypes DEF NoMoreOutput, TypeOK
<1>8. CASE FinishWithoutOutput
  <2>1. [codec EXCEPT !.infos = <<>>] \in CodecSet
    BY <1>0, FieldTypes
  <2>2. CASE Len(codec.infos) > LastInfos
    <3>1. codec.infos # <<>>
      BY <2>2, <1>0 DEF LastInfos
    <3>2. PICK i \in Info : i = Head(codec.infos)
      BY <1>0, <3>1
    <3>3. i.work \in Works /\ Tail(codec.infos) \in Seq(Info)
      BY <1>0, <3>1 DEF Info
    <3>4. codec' \in CodecSet
      BY <1>0, <1>8, <2>2, <3>3 DEF FinishWithoutOutput, CodecSet
    <3>5. loc' \in [Works -> Loc]
      BY <1>8, <2>2, <3>2, <3>3, FinishType DEF FinishWithoutOutput
    <3> QED BY <1>8, <2>2, <3>4, <3>5 DEF FinishWithoutOutput, TypeOK
  <2>3. CASE ~(Len(codec.infos) > LastInfos)
    BY <1>8, <2>1, <2>3, CurTypes DEF FinishWithoutOutput, TypeOK
  <2> QED BY <2>2, <2>3
<1>9. CASE EndOfProcess
  <2>1. loc' \in [Works -> Loc]
    BY <1>9, CurTypes, PlaceNames DEF EndOfProcess, TypeOK
  <2>2. msgs' \in Seq(Message) /\ cur' \in CurSet
    BY <1>9, ReturnType DEF EndOfProcess, TypeOK
  <2> QED BY <1>9, <2>1, <2>2 DEF EndOfProcess, TypeOK
<1> QED
  BY <1>1, <1>2, <1>3, <1>4, <1>5, <1>6, <1>7, <1>8, <1>9, MessageTypes DEF Looper

\* Every variable keeps its type, for every decoder, client and sequence of failures:
\* the ring buffer is never filled beyond what it holds.
LEMMA NextType == TypeOK /\ [Next]_vars => TypeOK'
<1>1. TypeOK /\ UNCHANGED vars => TypeOK'
  BY DEF vars, queueVars, looper, clientVars, TypeOK
<1> QED
  BY <1>1, ClientTypes, LooperTypes DEF Next

THEOREM TypeCorrect == Spec => []TypeOK
<1>1. Init => TypeOK
  BY InitType
<1>2. TypeOK /\ [Next]_vars => TypeOK'
  BY NextType
<1> QED
  BY <1>1, <1>2, PTL DEF Spec

-----------------------------------------------------------------------------
(* A decoder finds what it uses.  It is set up from the first start() until  *)
(* release(), whatever is stopped, reset or flushed in between, and nothing  *)
(* but kWhatProcess follows kWhatRelease in the messages of the looper.      *)

Has(s, m) == \E i \in 1..Len(s) : s[i] = m
Queued(m) == Has(msgs, m)
Control == Message \ {"process"}

\* The messages a call waits for (release() for none of them, but no call follows
\* it), and what the call is in meanwhile.
Awaited == {"init", "stop", "reset", "release"}
Calling == [init |-> "initializing", stop |-> "stopping", reset |-> "resetting",
            release |-> "releasing"]
AwaitedIsLast(s) == \A i, j \in 1..Len(s) : i < j /\ s[i] \in Awaited => s[j] \notin Control

Called == /\ Queued("stop") => calls["stop"] > 0
          /\ Queued("reset") => calls["reset"] > 0
CallMessages ==
    /\ AwaitedIsLast(msgs)
    /\ \A m \in Awaited : Queued(m) => ctl = Calling[m]
    /\ ctl = "released" => ~mRunning /\ cur.pc = "idle" /\ \A m \in Control : ~Queued(m)
Excused == \/ calls["initError"] > 0
           \/ decoder = "FFMPEG" /\ ~codec.reopens /\ calls["reset"] > 0

\* What each decoder needs once it is set up, and before.
Usable(c) ==
    /\ decoder = "EAC3" => /\ c.config
                           /\ IF c.mSetUp THEN ~c.raw => c.library /\ c.handle = "open"
                              ELSE c.handle = "none"
    /\ decoder = "AC4"  => c.config /\ (c.mSetUp => c.library /\ c.handle = "open")
    /\ decoder = "DTS"  => c.config /\ (c.mSetUp => c.library)
    /\ decoder = "DTSX" => c.config /\ (c.mSetUp => c.library /\ (c.raw \/ c.handle = "open"))
    /\ decoder = "FFMPEG" => /\ c.config /\ c.library /\ c.handle # "closed"
                             /\ c.mSetUp => c.handle = "open"
Prepared ==
    mRunning \/ mState # "UNINITIALIZED" \/ ctl = "initialized" \/ Queued("start")
        => decoder = "AAC" \/ codec.mSetUp
Working == ~codec.undefined /\ (ctl # "released" => Usable(codec) /\ Prepared)

UseInv ==
    /\ Called /\ CallMessages
    /\ cur.pc # "idle" => mRunning
    /\ Excused \/ Working

\* A message taken, and one posted.
LEMMA TakeFacts ==
    ASSUME TypeOK, NEW m, Take(m)
    PROVE  /\ \A o : Has(msgs', o) => Has(msgs, o)
           /\ Has(msgs, m)
           /\ AwaitedIsLast(msgs) => AwaitedIsLast(msgs')
           /\ AwaitedIsLast(msgs) /\ m \in Awaited => \A o \in Control : ~Has(msgs', o)
<1>1. msgs \in Seq(Message) /\ msgs # <<>> /\ msgs' = Tail(msgs) /\ msgs[1] = m
  BY TakeType DEF Take
<1>2. \A i \in 1..Len(msgs') : i + 1 \in 1..Len(msgs) /\ msgs'[i] = msgs[i + 1]
  BY <1>1
<1>3. 1 \in 1..Len(msgs) /\ \A i \in 1..Len(msgs') : 1 < i + 1
  BY <1>1
<1>4. \A i, j \in 1..Len(msgs') : i < j => i + 1 < j + 1
  OBVIOUS
<1> QED
  BY <1>1, <1>2, <1>3, <1>4 DEF Has, AwaitedIsLast

LEMMA PostFacts ==
    ASSUME NEW s \in Seq(Message), NEW m \in Message
    PROVE  /\ \A o : Has(Append(s, m), o) <=> Has(s, o) \/ o = m
           /\ AwaitedIsLast(s) /\ (m = "process" \/ \A o \in Awaited : ~Has(s, o)) => AwaitedIsLast(Append(s, m))
<1>1. Len(Append(s, m)) = Len(s) + 1 /\ Append(s, m)[Len(s) + 1] = m
  OBVIOUS
<1>2. \A i \in 1..Len(s) : i \in 1..Len(s) + 1 /\ Append(s, m)[i] = s[i] /\ i < Len(s) + 1
  OBVIOUS
<1>3. \A i \in 1..Len(s) + 1 : i = Len(s) + 1 \/ i \in 1..Len(s)
  OBVIOUS
<1>4. Len(s) + 1 \in 1..Len(s) + 1
  OBVIOUS
<1>5. \A i \in 1..Len(s) + 1 : ~(Len(s) + 1 < i)
  OBVIOUS
<1> QED
  BY <1>1, <1>2, <1>3, <1>4, <1>5 DEF Has, AwaitedIsLast, Control, Awaited

\* The decoder after a step that keeps what it needs.
SameUse(c, d) ==
    /\ d.library = c.library /\ d.handle = c.handle /\ d.config = c.config /\ d.mSetUp = c.mSetUp
    /\ d.raw = c.raw /\ d.reopens = c.reopens /\ d.undefined = c.undefined

LEMMA SameUseTypes ==
    ASSUME NEW c \in CodecSet
    PROVE  /\ SameUse(c, drainDecoder(c)) /\ SameUse(c, onFlush_sm(c)) /\ SameUse(c, Compensate(c))
           /\ \A w, frames : SameUse(c, Decode(c, w, frames))
           /\ \A w : SameUse(c, WithInfo(c, w))
<1>1. SameUse(c, drainDecoder(c))
  BY DEF SameUse, drainDecoder, CodecSet
<1>2. SameUse(c, onFlush_sm(c))
  BY DEF SameUse, onFlush_sm, drainDecoder, CodecSet
<1>3. SameUse(c, Compensate(c))
  BY DEF SameUse, Compensate, CodecSet
<1>4. ASSUME NEW w, NEW frames PROVE SameUse(c, Decode(c, w, frames))
  BY DEF SameUse, Decode, CodecSet
<1>5. ASSUME NEW w PROVE SameUse(c, WithInfo(c, w))
  BY DEF SameUse, WithInfo, CodecSet
<1> QED
  BY <1>1, <1>2, <1>3, <1>4, <1>5

\* onInit() of a decoder whose library loads.
LEMMA SetUpUse ==
    ASSUME TypeOK, Usable(codec), ~codec.undefined, NEW d \in Initialized(decoder, codec, TRUE)
    PROVE  /\ Usable(d) /\ ~d.undefined /\ d.reopens = codec.reopens
           /\ decoder # "AAC" => d.mSetUp
<1>1. codec \in CodecSet
  BY DEF TypeOK
<1>2. CASE decoder = "EAC3"
  <2>1. d = EAC3_SetUp(codec, TRUE)
    BY <1>2 DEF Initialized
  <2> QED BY <1>1, <1>2, <2>1 DEF EAC3_SetUp, Usable, CodecSet
<1>3. CASE decoder = "AC4"
  <2>1. d = AC4_SetUp(codec, TRUE, TRUE)
    BY <1>3 DEF Initialized
  <2> QED BY <1>1, <1>3, <2>1 DEF AC4_SetUp, Usable, CodecSet
<1>4. CASE decoder = "DTS"
  <2>1. d = DTS_SetUp(codec, TRUE)
    BY <1>4 DEF Initialized
  <2> QED BY <1>1, <1>4, <2>1 DEF DTS_SetUp, Usable, CodecSet
<1>5. CASE decoder = "DTSX"
  <2>1. d = DTSX_SetUp(codec, TRUE, TRUE)
    BY <1>5 DEF Initialized
  <2> QED BY <1>1, <1>5, <2>1 DEF DTSX_SetUp, DTSX_DualcoreInit, Usable, CodecSet
<1>6. CASE decoder = "FFMPEG"
  <2>1. d = FFMPEG_SetUp(codec)
    BY <1>6 DEF Initialized
  <2> QED BY <1>1, <1>6, <2>1 DEF FFMPEG_SetUp, Usable, CodecSet
<1>7. CASE decoder = "AAC"
  BY <1>1, <1>7 DEF Initialized, Usable
<1> QED
  BY <1>2, <1>3, <1>4, <1>5, <1>6, <1>7, Kinds

\* onStop() and onReset().
LEMMA EndUse ==
    ASSUME TypeOK, Usable(codec), ~codec.undefined,
           NEW d, \/ d = Stopped(decoder, codec)
                  \/ d = WasReset(decoder, codec) /\ (decoder = "FFMPEG" => codec.reopens)
    PROVE  /\ Usable(d) /\ ~d.undefined
           /\ decoder # "AAC" => d.mSetUp = codec.mSetUp /\ d.reopens = codec.reopens
<1>1. codec \in CodecSet
  BY DEF TypeOK
<1>2. CASE d = Stopped(decoder, codec)
  BY <1>1, <1>2, Kinds
  DEF Stopped, AAC_Stop, EAC3_Stop, AC4_Stop, DTS_Stop, DTSX_Stop, FFMPEG_Stop, NewCodec, Usable,
      CodecSet
<1>3. CASE d = WasReset(decoder, codec) /\ (decoder = "FFMPEG" => codec.reopens)
  <2>1. CASE decoder = "EAC3"
    BY <1>1, <1>3, <2>1 DEF WasReset, EAC3_Reset, Usable, CodecSet
  <2>2. CASE decoder = "FFMPEG"
    BY <1>1, <1>3, <2>2 DEF WasReset, FFMPEG_Reset, FFMPEG_Stop, Usable, CodecSet
  <2>3. CASE decoder \in {"AAC", "AC4", "DTS", "DTSX"}
    BY <1>1, <1>3, <2>3
    DEF WasReset, AAC_Reset, AAC_Stop, AC4_Reset, DTS_Reset, DTSX_Reset, NewCodec, Usable
  <2> QED BY <2>1, <2>2, <2>3, Kinds
<1> QED
  BY <1>2, <1>3

\* process(), and codec config of FFmpeg.
LEMMA ProcessUse ==
    ASSUME TypeOK, Usable(codec), ~codec.undefined, decoder # "AAC", codec.mSetUp,
           NEW d, \/ \E w, out, ok : d = Processed(decoder, codec, w, out, ok)
                  \/ decoder = "FFMPEG" /\ d = FFMPEG_Configure(codec)
    PROVE  /\ Usable(d) /\ ~d.undefined /\ d.mSetUp /\ d.reopens = codec.reopens
<1>1. codec \in CodecSet
  BY DEF TypeOK
<1>2. ASSUME \E w, out, ok : d = Processed(decoder, codec, w, out, ok)
      PROVE  SameUse(codec, d)
  <2>1. PICK w, out, ok : d = Processed(decoder, codec, w, out, ok)
    BY <1>2
  <2>2. SameUse(codec, codec) /\ SameUse(codec, WithInfo(codec, w))
    <3>1. SameUse(codec, codec)
      BY DEF SameUse
    <3>2. SameUse(codec, WithInfo(codec, w))
      BY <1>1, SameUseTypes
    <3> QED BY <3>1, <3>2
  <2>3. ASSUME decoder = "EAC3" PROVE d = codec \/ d = WithInfo(codec, w)
    BY <2>1, <2>3 DEF Processed, EAC3_Process, EAC3_Decode, Usable
  <2>4. ASSUME decoder = "AC4" PROVE d = codec \/ d = WithInfo(codec, w)
    BY <2>1, <2>4 DEF Processed, AC4_Process, Usable
  <2>5. ASSUME decoder = "DTS" PROVE d = codec \/ d = WithInfo(codec, w)
    BY <2>1, <2>5 DEF Processed, DTS_Process, Usable
  <2>6. ASSUME decoder = "DTSX" PROVE d = codec \/ d = WithInfo(codec, w)
    BY <2>1, <2>6 DEF Processed, DTSX_Process, Usable
  <2>7. ASSUME decoder = "FFMPEG" PROVE d = codec \/ d = WithInfo(codec, w)
    BY <2>1, <2>7 DEF Processed, FFMPEG_Process, Usable
  <2>8. d = codec \/ d = WithInfo(codec, w)
    BY <2>3, <2>4, <2>5, <2>6, <2>7, Kinds
  <2> QED BY <2>2, <2>8
<1>3. ASSUME SameUse(codec, d)
      PROVE  Usable(d) /\ ~d.undefined /\ d.mSetUp /\ d.reopens = codec.reopens
  BY <1>3 DEF SameUse, Usable
<1>4. CASE decoder = "FFMPEG" /\ d = FFMPEG_Configure(codec)
  BY <1>1, <1>4 DEF FFMPEG_Configure, Usable, CodecSet
<1> QED
  BY <1>2, <1>3, <1>4

\* A step that posts at most kWhatProcess.
Unposted ==
    /\ \A o \in Control : Queued(o)' => Queued(o)
    /\ AwaitedIsLast(msgs) => AwaitedIsLast(msgs')

LEMMA SameMsgs == UNCHANGED msgs => Unposted
  BY DEF Unposted, Queued

LEMMA ProcessPosted ==
    ASSUME TypeOK, Post("process")
    PROVE  Unposted
<1>1. msgs \in Seq(Message) /\ "process" \in Message
  BY DEF TypeOK, Message
<1> QED
  BY <1>1, PostFacts DEF Post, Unposted, Queued, Control

LEMMA ReturnUnposted ==
    ASSUME TypeOK, NEW more, Return(more, msgs)
    PROVE  Unposted
  BY ProcessPosted, SameMsgs DEF Return, Post

LEMMA TakeUnposted ==
    ASSUME TypeOK, NEW m, Take(m)
    PROVE  Unposted
  BY TakeFacts DEF Unposted, Queued

\* Nothing that was counted is forgotten.
LEMMA CountsGrow ==
    ASSUME TypeOK
    PROVE  /\ \A c \in Call : Count(c) => \A d \in Call : calls'[d] \in Nat /\ calls'[d] >= calls[d]
           /\ UNCHANGED calls => \A d \in Call : calls'[d] \in Nat /\ calls'[d] >= calls[d]
           /\ \A c \in Call : Count(c) => calls'[c] > 0
<1>1. calls \in [Call -> Nat]
  BY DEF TypeOK
<1>2. ASSUME NEW c \in Call, Count(c)
      PROVE  (\A d \in Call : calls'[d] \in Nat /\ calls'[d] >= calls[d]) /\ calls'[c] > 0
  BY <1>1, <1>2 DEF Count
<1> QED
  BY <1>1, <1>2

\* A step that neither begins nor ends a call, and leaves the decoder usable.
CalmUse ==
    /\ UNCHANGED <<decoder, mState, ctl, mRunning>>
    /\ Unposted
    /\ \A c \in Call : calls'[c] \in Nat /\ calls'[c] >= calls[c]
    /\ cur'.pc # "idle" => mRunning
    /\ \/ SameUse(codec, codec')
       \/ /\ ctl # "released" /\ codec'.reopens = codec.reopens
          /\ Working => Usable(codec') /\ ~codec'.undefined
                        /\ (decoder # "AAC" => codec'.mSetUp = codec.mSetUp)

LEMMA CalmUseSteps ==
    ASSUME TypeOK, UseInv, CalmUse
    PROVE  UseInv'
<1>1. \A o \in Awaited \cup {"start"} : o \in Control /\ (Queued(o)' => Queued(o))
  BY DEF CalmUse, Unposted, Control, Message, Awaited
<1>2. \A c \in {"stop", "reset", "initError"} : calls'[c] \in Nat /\ calls[c] \in Nat /\ calls'[c] >= calls[c]
  BY DEF CalmUse, Call, TypeOK
<1>3. Called'
  BY <1>1, <1>2 DEF UseInv, Called, Awaited
<1>4. CallMessages'
  BY <1>1 DEF UseInv, CallMessages, CalmUse, Unposted
<1>5. Excused => Excused'
  BY <1>2 DEF Excused, CalmUse, SameUse
<1>6. Working => Working'
  <2>1. Prepared => (Prepared' \/ codec'.mSetUp # codec.mSetUp)
    BY <1>1 DEF Prepared, CalmUse
  <2>2. SameUse(codec, codec') /\ Usable(codec) => Usable(codec')
    BY DEF SameUse, Usable
  <2>3. CASE SameUse(codec, codec')
    <3>1. UNCHANGED <<decoder, ctl, mRunning, mState>>
      BY DEF CalmUse
    <3>2. Usable(codec) => Usable(codec)'
      BY <2>3, <3>1 DEF Usable, SameUse
    <3> QED BY <2>1, <2>3, <3>1, <3>2 DEF Working, SameUse
  <2>4. CASE ~SameUse(codec, codec')
    <3>1. UNCHANGED <<decoder, ctl, mRunning, mState>>
      BY DEF CalmUse
    <3>2. Usable(codec') => Usable(codec)'
      BY <3>1 DEF Usable
    <3> QED BY <1>1, <2>4, <3>1, <3>2 DEF Working, CalmUse, Prepared
  <2> QED BY <2>3, <2>4
<1> QED
  BY <1>3, <1>4, <1>5, <1>6 DEF UseInv, CalmUse

\* The steps of a work, and the calls that nobody waits for.
LEMMA CalmActions ==
    ASSUME TypeOK, UseInv, ~codec.undefined,
           \/ \E w \in Works : queue_nb(w)
           \/ \E mode \in DrainModes : drain_nb(mode)
           \/ PostProcess \/ flush_sm
           \/ ProcessNothing \/ Pop \/ NoPool \/ Drain
           \/ \E frames \in FrameCounts, ok \in BOOLEAN : Process(frames, ok)
           \/ SendOutput \/ NoMoreOutput \/ FinishWithoutOutput \/ EndOfProcess
    PROVE  CalmUse
<1> USE DEF queueVars, looper, clientVars
<1>1. codec \in CodecSet /\ SameUse(codec, codec)
  BY DEF TypeOK, SameUse
<1>2. cur.pc # "idle" => mRunning /\ ctl # "released"
  BY DEF UseInv, CallMessages
<1>3. {"drain", "flush", "poolError", "decodeError"} \subseteq Call
  BY DEF Call
<1>4. CASE \/ \E w \in Works : queue_nb(w)
           \/ \E mode \in DrainModes : drain_nb(mode)
           \/ flush_sm
  <2>1. UNCHANGED <<decoder, mState, ctl, mRunning, msgs, cur, codec>>
    BY <1>4 DEF queue_nb, drain_nb, flush_sm
  <2>2. UNCHANGED calls \/ \E c \in Call : Count(c)
    BY <1>3, <1>4 DEF queue_nb, drain_nb, flush_sm
  <2> QED BY <1>1, <1>2, <2>1, <2>2, SameMsgs, CountsGrow DEF CalmUse
<1>5. CASE PostProcess
  BY <1>1, <1>2, <1>5, ProcessPosted, CountsGrow DEF PostProcess, CalmUse
<1>6. CASE ProcessNothing
  BY <1>1, <1>2, <1>6, TakeUnposted, CountsGrow DEF ProcessNothing, CalmUse
<1>7. CASE Pop
  <2>1. SameUse(codec, codec')
    BY <1>1, <1>7, SameUseTypes DEF Pop
  <2> QED BY <1>7, <2>1, TakeUnposted, CountsGrow DEF Pop, CalmUse
<1>8. CASE NoPool
  BY <1>1, <1>2, <1>3, <1>8, ReturnUnposted, CountsGrow DEF NoPool, CalmUse
<1>9. CASE Drain
  <2>1. SameUse(codec, codec') /\ Unposted
    BY <1>1, <1>9, SameUseTypes, SameMsgs, ReturnUnposted DEF Drain
  <2> QED BY <1>2, <1>9, <2>1, CountsGrow DEF Drain, CalmUse
<1>10. ASSUME NEW frames \in FrameCounts, NEW ok \in BOOLEAN, Process(frames, ok) PROVE CalmUse
  <2>1. UNCHANGED <<decoder, mState, ctl, mRunning, msgs>> /\ cur.pc = "popped"
        /\ (UNCHANGED calls \/ Count("decodeError"))
    BY <1>10 DEF Process
  <2>2. CASE decoder = "AAC"
    <3> DEFINE c == Decode(codec, cur.work, frames)
    <3>1. c \in CodecSet /\ SameUse(codec, c)
      <4>1. cur.work \in Works /\ frames \in Nat
        BY <1>10, CurTypes, AudioDecoderAssumption DEF Process
      <4> QED BY <1>1, <4>1, DecodeType, SameUseTypes
    <3>2. SameUse(c, Compensate(c)) /\ SameUse(c, drainDecoder(c))
      BY <3>1, SameUseTypes
    <3>3. \/ codec' = codec
          \/ codec' \in {Compensate(c), drainDecoder(c), c}
          \/ codec' = [codec EXCEPT !.ring = IF cur.work \in CsdWorks THEN codec.ring ELSE c.ring,
                                    !.mSignalledError = TRUE]
      BY <1>10, <2>2 DEF Process, ProcessAac
    <3> HIDE DEF c
    <3>4. SameUse(codec, codec')
      <4>1. CASE codec' \in {Compensate(c), drainDecoder(c), c}
        BY <3>1, <3>2, <4>1 DEF SameUse
      <4>2. CASE codec' = [codec EXCEPT !.ring = IF cur.work \in CsdWorks THEN codec.ring ELSE c.ring,
                                        !.mSignalledError = TRUE]
        BY <1>1, <4>2 DEF SameUse, CodecSet
      <4> QED BY <1>1, <3>3, <4>1, <4>2
    <3> QED BY <1>2, <1>3, <2>1, <3>4, SameMsgs, CountsGrow DEF CalmUse
  <2>3. CASE decoder # "AAC"
    <3>1. \/ codec' = Processed(decoder, codec, cur.work, frames > 0, ok)
          \/ decoder = "FFMPEG" /\ codec' = FFMPEG_Configure(codec)
      BY <1>10, <2>3 DEF Process, ProcessDirect
    <3>2. codec'.reopens = codec.reopens
      <4>1. CASE decoder \in {"EAC3", "AC4"}
        BY <1>1, <3>1, <4>1
        DEF Processed, EAC3_Process, EAC3_Decode, AC4_Process, WithInfo, Undefined, CodecSet
      <4>2. CASE decoder \in {"DTS", "DTSX"}
        BY <1>1, <3>1, <4>2 DEF Processed, DTS_Process, DTSX_Process, WithInfo, Undefined, CodecSet
      <4>3. CASE decoder = "FFMPEG"
        BY <1>1, <3>1, <4>3
        DEF Processed, FFMPEG_Process, FFMPEG_Configure, WithInfo, Undefined, CodecSet
      <4> QED BY <2>3, <4>1, <4>2, <4>3, Kinds
    <3>3. Working => Usable(codec) /\ codec.mSetUp
      BY <1>2, <2>1, <2>3 DEF Working, Prepared
    <3>4. Working => Usable(codec') /\ ~codec'.undefined /\ codec'.mSetUp
      BY <2>3, <3>1, <3>3, ProcessUse
    <3> QED BY <1>2, <1>3, <2>1, <3>2, <3>3, <3>4, SameMsgs, CountsGrow DEF CalmUse
  <2> QED BY <2>2, <2>3
<1>11. CASE SendOutput \/ NoMoreOutput \/ FinishWithoutOutput
  <2>1. UNCHANGED <<decoder, mState, ctl, mRunning, msgs, calls>> /\ cur.pc # "idle"
    BY <1>11 DEF SendOutput, NoMoreOutput, FinishWithoutOutput
  <2>2. SameUse(codec, codec')
    <3>1. CASE SendOutput
      BY <1>1, <3>1 DEF SendOutput, SameUse, CodecSet
    <3>2. CASE FinishWithoutOutput
      BY <1>1, <3>2 DEF FinishWithoutOutput, SameUse, CodecSet
    <3> QED BY <1>1, <1>11, <3>1, <3>2 DEF NoMoreOutput
  <2> QED BY <1>2, <2>1, <2>2, SameMsgs, CountsGrow DEF CalmUse
<1>12. CASE EndOfProcess
  BY <1>1, <1>2, <1>12, ReturnUnposted, CountsGrow DEF EndOfProcess, CalmUse
<1> QED
  BY <1>4, <1>5, <1>6, <1>7, <1>8, <1>9, <1>10, <1>11, <1>12

\* A message of a call is posted when none is being made.
LEMMA CallPosted ==
    ASSUME TypeOK, UseInv, ctl = "idle", NEW m \in Control, Post(m)
    PROVE  /\ AwaitedIsLast(msgs')
           /\ \A o : Queued(o)' <=> Queued(o) \/ o = m
           /\ \A o \in Awaited : ~Queued(o)
<1>1. msgs \in Seq(Message) /\ m \in Message /\ \A o \in Awaited : ~Queued(o)
  BY DEF TypeOK, Control, UseInv, CallMessages, Awaited, Calling
<1> QED
  BY <1>1, PostFacts DEF Post, Queued, UseInv, CallMessages

\* The calls that begin or end a session.
LEMMA CallUse ==
    ASSUME TypeOK, UseInv, start \/ InitReturn \/ stop \/ reset \/ release
    PROVE  UseInv'
<1> USE DEF queueVars, looper, clientVars
<1>0. /\ {"stop", "reset", "start", "init", "release"} \subseteq Control
      /\ {"stop", "reset", "start", "initError"} \subseteq Call
      /\ calls["initError"] \in Nat /\ calls["reset"] \in Nat /\ calls["stop"] \in Nat
  BY DEF Control, Message, Call, TypeOK
<1>1. \A c \in {"stop", "reset", "initError"} : calls'[c] \in Nat /\ calls'[c] >= calls[c]
  BY <1>0, CountsGrow DEF start, InitReturn, stop, reset, release
<1>2. UNCHANGED <<decoder, cur, mRunning, codec>> /\ (Excused => Excused')
  BY <1>0, <1>1 DEF start, InitReturn, stop, reset, release, Excused
<1>3. Usable(codec) => Usable(codec)'
  BY <1>2 DEF Usable
<1>4. CASE start
  <2>1. /\ ctl = "idle"
        /\ mState' # "UNINITIALIZED" => mState # "UNINITIALIZED"
        /\ \/ Post("init") /\ ctl' = "initializing"
           \/ Post("start") /\ mState # "UNINITIALIZED" /\ ctl' = "idle"
    BY <1>4 DEF start, MayCall
  <2>2. PICK m \in {"init", "start"} :
           /\ Post(m)
           /\ \/ m = "init" /\ ctl' = "initializing"
              \/ m = "start" /\ mState # "UNINITIALIZED" /\ ctl' = "idle"
    BY <2>1
  <2>3. AwaitedIsLast(msgs') /\ (\A o \in Awaited : ~Queued(o)) /\ \A o : Queued(o)' <=> Queued(o) \/ o = m
    <3>1. m \in Control /\ Post(m) /\ ctl = "idle"
      BY <1>0, <2>1, <2>2
    <3> QED BY <3>1, CallPosted
  <2>4. Called' /\ CallMessages'
    BY <1>0, <1>1, <2>1, <2>2, <2>3 DEF UseInv, Called, CallMessages, Awaited, Calling
  <2>5. Working => Working'
    BY <1>2, <1>3, <2>1, <2>2, <2>3 DEF Working, Prepared
  <2> QED BY <1>2, <2>4, <2>5 DEF UseInv
<1>5. CASE InitReturn
  <2>1. ctl \in {"initialized", "initFailed"} /\ ctl' = "idle" /\ UNCHANGED msgs
        /\ (mState' = mState \/ ctl = "initialized")
    BY <1>5 DEF InitReturn
  <2>2. Called' /\ CallMessages'
    BY <1>1, <1>0, <2>1 DEF UseInv, Called, CallMessages, Queued, Awaited, Calling
  <2>3. Working => Working'
    BY <1>2, <1>3, <2>1 DEF Working, Prepared, Queued
  <2> QED BY <1>2, <2>2, <2>3 DEF UseInv
<1>6. CASE stop \/ reset
  <2>1. ctl = "idle" /\ ctl' \in {"stopping", "resetting"}
        /\ (mState' # "UNINITIALIZED" => mState # "UNINITIALIZED")
        /\ \E m \in {"stop", "reset"} : Post(m) /\ Count(m) /\ ctl' = Calling[m]
    BY <1>6 DEF stop, reset, MayCall, Calling
  <2>2. PICK m \in {"stop", "reset"} : Post(m) /\ Count(m) /\ ctl' = Calling[m]
    BY <2>1
  <2>3. AwaitedIsLast(msgs') /\ (\A o \in Awaited : ~Queued(o)) /\ \A o : Queued(o)' <=> Queued(o) \/ o = m
    BY <1>0, <2>1, <2>2, CallPosted
  <2>4. calls'[m] > 0
    BY <1>0, <2>2, CountsGrow
  <2>5. Called' /\ CallMessages'
    BY <1>0, <1>1, <2>1, <2>2, <2>3, <2>4 DEF UseInv, Called, CallMessages, Awaited, Calling
  <2>6. Working => Working'
    BY <1>2, <1>3, <2>1, <2>3 DEF Working, Prepared
  <2> QED BY <1>2, <2>5, <2>6 DEF UseInv
<1>7. CASE release
  <2>1. ctl = "idle" /\ ctl' = "releasing" /\ Post("release") /\ UNCHANGED mState
    BY <1>7 DEF release, MayCall
  <2>2. AwaitedIsLast(msgs') /\ \A o : Queued(o)' <=> Queued(o) \/ o = "release"
    BY <1>0, <2>1, CallPosted
  <2>3. Called' /\ CallMessages'
    BY <1>0, <1>1, <2>1, <2>2 DEF UseInv, Called, CallMessages, Awaited, Calling
  <2>4. Working => Working'
    BY <1>2, <1>3, <2>1, <2>2 DEF Working, Prepared
  <2> QED BY <1>2, <2>3, <2>4 DEF UseInv
<1> QED
  BY <1>4, <1>5, <1>6, <1>7

\* The looper's side of them.
LEMMA MessageUse ==
    ASSUME TypeOK, UseInv,
           \/ \E ok \in BOOLEAN : InitMessage(ok)
           \/ StartMessage \/ StopMessage \/ ResetMessage \/ ReleaseMessage
    PROVE  UseInv'
<1> USE DEF queueVars, looper, clientVars
<1>0. codec \in CodecSet /\ {"stop", "reset", "initError"} \subseteq Call
      /\ {"stop", "reset", "start", "init", "release"} \subseteq Control
  BY DEF Control, Message, Call, TypeOK
<1>1. \A c \in {"stop", "reset", "initError"} :
         calls[c] \in Nat /\ calls'[c] \in Nat /\ calls'[c] >= calls[c]
  BY <1>0, CountsGrow
  DEF InitMessage, StartMessage, StopMessage, ResetMessage, ReleaseMessage, TypeOK
<1>2. PICK m \in Control : Take(m)
  BY <1>0 DEF InitMessage, StartMessage, StopMessage, ResetMessage, ReleaseMessage
<1>3. /\ \A o : Queued(o)' => Queued(o)
      /\ Queued(m) /\ AwaitedIsLast(msgs') /\ cur.pc = "idle"
      /\ m \in Awaited => (\A o \in Control : ~Queued(o)') /\ ctl = Calling[m]
  BY <1>2, TakeFacts DEF Queued, UseInv, CallMessages, Take
<1>4. UNCHANGED <<decoder, cur, mState>> /\ ctl # "released"
  BY <1>2, <1>3 DEF UseInv, CallMessages, InitMessage, StartMessage, StopMessage, ResetMessage,
     ReleaseMessage
<1>5. Called'
  BY <1>1, <1>3 DEF UseInv, Called
<1>6. \A d : Usable(d) => Usable(d)'
  BY <1>4 DEF Usable
<1>8. /\ ctl' # "released" \/ (~mRunning' /\ m \in Awaited)
      /\ ctl' = ctl \/ m \in Awaited
      => CallMessages'
  <2>1. \A o \in Awaited : o \in Control
    BY DEF Awaited, Control, Message
  <2>2. (ctl' = ctl \/ m \in Awaited) => \A o \in Awaited : Queued(o)' => ctl' = Calling[o]
    BY <1>3, <2>1 DEF UseInv, CallMessages
  <2>3. m \in Awaited => \A o \in Control : ~Queued(o)'
    BY <1>3
  <2> QED BY <1>3, <1>4, <2>2, <2>3 DEF UseInv, CallMessages
<1>9. ASSUME NEW ok \in BOOLEAN, InitMessage(ok) PROVE UseInv'
  <2>1. ctl' \in {"initialized", "initFailed"} /\ mRunning' /\ Take("init")
        /\ codec' \in Initialized(decoder, codec, ok) /\ (~ok => Count("initError"))
    BY <1>9 DEF InitMessage
  <2>2. m \in Awaited
    BY <1>2, <2>1 DEF Take, Awaited
  <2>3. CallMessages'
    BY <1>8, <2>1, <2>2
  <2>4. Excused => Excused'
    <3>1. decoder = "FFMPEG" => codec'.reopens = codec.reopens
      BY <1>0, <2>1 DEF Initialized, FFMPEG_SetUp, CodecSet
    <3> QED BY <1>1, <1>4, <3>1 DEF Excused
  <2>5. ~ok => Excused'
    BY <1>0, <2>1, CountsGrow DEF Excused
  <2>6. ASSUME Working, ok PROVE Working'
    <3>1. Usable(codec) /\ ~codec.undefined
      BY <1>4, <2>6 DEF Working
    <3>2. Usable(codec') /\ ~codec'.undefined /\ (decoder # "AAC" => codec'.mSetUp)
      BY <2>1, <2>6, <3>1, SetUpUse
    <3> QED BY <1>4, <1>6, <3>2 DEF Working, Prepared
  <2> QED BY <1>3, <1>4, <1>5, <2>3, <2>4, <2>5, <2>6 DEF UseInv
<1>10. CASE StartMessage
  <2>1. mRunning' /\ Take("start") /\ codec' = codec /\ ctl' = ctl /\ Queued("start")
    <3>1. mRunning' /\ Take("start") /\ codec' = codec /\ ctl' = ctl
      BY <1>10 DEF StartMessage
    <3> QED BY <3>1, TakeFacts DEF Queued
  <2>2. CallMessages'
    BY <1>4, <1>8, <2>1
  <2>3. Excused => Excused'
    BY <1>1, <1>4, <2>1 DEF Excused
  <2>4. Working => Working'
    BY <1>4, <1>6, <2>1 DEF Working, Prepared
  <2> QED BY <1>3, <1>4, <1>5, <2>2, <2>3, <2>4 DEF UseInv
<1>11. CASE StopMessage
  <2>1. codec' = Stopped(decoder, codec) /\ ctl' = "idle" /\ UNCHANGED mRunning /\ Take("stop")
    BY <1>11 DEF StopMessage
  <2>2. m \in Awaited
    BY <1>2, <2>1 DEF Take, Awaited
  <2>3. CallMessages'
    BY <1>8, <2>1, <2>2
  <2>4. Excused => Excused'
    <3>1. decoder = "FFMPEG" => codec'.reopens = codec.reopens
      BY <1>0, <2>1 DEF Stopped, FFMPEG_Stop, CodecSet
    <3> QED BY <1>1, <1>4, <3>1 DEF Excused
  <2>5. ASSUME Working PROVE Working'
    <3>1. Usable(codec) /\ ~codec.undefined
      BY <1>4, <2>5 DEF Working
    <3>2. Usable(codec') /\ ~codec'.undefined /\ (decoder # "AAC" => codec'.mSetUp = codec.mSetUp)
      BY <2>1, <3>1, EndUse
    <3> QED BY <1>0, <1>3, <1>4, <1>6, <2>1, <2>5, <3>2 DEF Working, Prepared
  <2> QED BY <1>3, <1>4, <1>5, <2>3, <2>4, <2>5 DEF UseInv
<1>12. CASE ResetMessage
  <2>1. codec' = WasReset(decoder, codec) /\ ctl' = "idle" /\ ~mRunning' /\ Take("reset")
    BY <1>12 DEF ResetMessage
  <2>2. m = "reset" /\ m \in Awaited
    BY <1>2, <2>1 DEF Take, Awaited
  <2>3. CallMessages'
    BY <1>8, <2>1, <2>2
  <2>4. Excused => Excused'
    <3>1. decoder = "FFMPEG" => codec'.reopens = codec.reopens
      BY <1>0, <2>1 DEF WasReset, FFMPEG_Reset, FFMPEG_Stop, Undefined, CodecSet
    <3> QED BY <1>1, <1>4, <3>1 DEF Excused
  <2>5. decoder = "FFMPEG" => codec.reopens \/ Excused
    BY <1>3, <2>2 DEF UseInv, Called, Excused
  <2>6. ASSUME Working, ~Excused PROVE Working'
    <3>1. Usable(codec) /\ ~codec.undefined
      BY <1>4, <2>6 DEF Working
    <3>2. Usable(codec') /\ ~codec'.undefined /\ (decoder # "AAC" => codec'.mSetUp = codec.mSetUp)
      BY <2>1, <2>5, <2>6, <3>1, EndUse
    <3> QED BY <1>0, <1>3, <1>4, <1>6, <2>1, <2>6, <3>2 DEF Working, Prepared
  <2> QED BY <1>3, <1>4, <1>5, <2>3, <2>4, <2>6 DEF UseInv
<1>13. CASE ReleaseMessage
  <2>1. codec' = Released(decoder, codec) /\ ctl' = "released" /\ ~mRunning' /\ Take("release")
    BY <1>13 DEF ReleaseMessage
  <2>2. m \in Awaited
    BY <1>2, <2>1 DEF Take, Awaited
  <2>3. CallMessages'
    BY <1>8, <2>1, <2>2
  <2>4. Excused => Excused'
    <3>1. decoder = "FFMPEG" => codec'.reopens = codec.reopens
      BY <1>0, <2>1 DEF Released, FFMPEG_Release, TornDown, Undefined, CodecSet
    <3> QED BY <1>1, <1>4, <3>1 DEF Excused
  <2>5. ASSUME Working PROVE Working'
    <3>1. Usable(codec) /\ ~codec.undefined
      BY <1>4, <2>5 DEF Working
    <3>2. ~codec'.undefined
      BY <1>0, <2>1, <3>1, Kinds
      DEF Released, EAC3_Release, AC4_Release, DTS_Release, DTSX_Release, FFMPEG_Release, TornDown,
          Usable, CodecSet
    <3> QED BY <2>1, <3>2 DEF Working
  <2> QED BY <1>3, <1>4, <1>5, <2>3, <2>4, <2>5 DEF UseInv
<1> QED
  BY <1>9, <1>10, <1>11, <1>12, <1>13

LEMMA InitUse ==
    ASSUME Init
    PROVE  UseInv
<1>1. \A m : ~Queued(m)
  BY DEF Init, Queued, Has
<1>2. AwaitedIsLast(msgs)
  BY DEF Init, AwaitedIsLast
<1>3. decoder \in Decoder /\ codec \in Constructed(decoder)
  BY AudioDecoderAssumption DEF Init
<1>4. Usable(codec) /\ ~codec.undefined
  <2>1. CASE decoder \in {"EAC3", "DTS", "DTSX"}
    BY <1>3, <2>1 DEF Usable, Constructed, NewCodec
  <2>2. CASE decoder = "FFMPEG"
    BY <1>3, <2>2 DEF Usable, Constructed, NewCodec
  <2>3. CASE decoder \in {"AAC", "AC4"}
    <3>1. codec = NewCodec
      BY <1>3, <2>3 DEF Constructed
    <3> QED BY <2>3, <3>1 DEF Usable, NewCodec
  <2> QED BY <1>3, <2>1, <2>2, <2>3 DEF Decoder
<1>5. Working
  BY <1>1, <1>4 DEF Init, Working, Prepared
<1> QED
  BY <1>1, <1>2, <1>5 DEF Init, UseInv, Called, CallMessages, IdleCur

LEMMA NextUse ==
    ASSUME TypeOK, UseInv, Next
    PROVE  UseInv'
<1>1. CASE start \/ InitReturn \/ stop \/ reset \/ release
  BY <1>1, CallUse
<1>2. CASE \/ \E ok \in BOOLEAN : InitMessage(ok)
           \/ StartMessage \/ StopMessage \/ ResetMessage \/ ReleaseMessage
  BY <1>2, MessageUse
<1>3. CASE \/ \E w \in Works : queue_nb(w)
           \/ \E mode \in DrainModes : drain_nb(mode)
           \/ PostProcess \/ flush_sm
           \/ ProcessNothing \/ Pop \/ NoPool \/ Drain
           \/ \E frames \in FrameCounts, ok \in BOOLEAN : Process(frames, ok)
           \/ SendOutput \/ NoMoreOutput \/ FinishWithoutOutput \/ EndOfProcess
  <2>1. ~codec.undefined
    BY DEF Next, Client, Looper
  <2> QED BY <1>3, <2>1, CalmActions, CalmUseSteps
<1> QED
  BY <1>1, <1>2, <1>3 DEF Next, Client, Looper

LEMMA StutterUse ==
    ASSUME UseInv, UNCHANGED vars
    PROVE  UseInv'
<1> USE DEF vars, queueVars, looper, clientVars
<1>1. \A o : Queued(o)' <=> Queued(o)
  BY DEF Queued
<1>2. Called' /\ CallMessages'
  BY <1>1 DEF UseInv, Called, CallMessages
<1>3. Excused => Excused'
  BY DEF Excused
<1>4. Usable(codec) => Usable(codec)'
  BY DEF Usable
<1>5. Working => Working'
  BY <1>1, <1>4 DEF Working, Prepared
<1> QED
  BY <1>2, <1>3, <1>5 DEF UseInv

\* Whatever the order of the client's calls, and however the looper's handling of
\* them falls between them, onInit(), process(), onStop(), onReset() and onRelease()
\* of each decoder find the library, the configuration and the codec they use,
\* unless a set-up failed before or FFmpeg was reset with a format it does not open
\* again.
THEOREM OnlyUsesCorrect == Spec => []OnlyUsesWhatIsThere
<1>1. Init => UseInv
  BY InitUse
<1>2. TypeOK /\ UseInv /\ [Next]_vars => UseInv'
  BY NextUse, StutterUse
<1>3. UseInv => OnlyUsesWhatIsThere
  BY DEF UseInv, Excused, Working, OnlyUsesWhatIsThere
<1> QED
  BY <1>1, <1>2, <1>3, TypeCorrect, PTL DEF Spec

-----------------------------------------------------------------------------
(* The order in which works come back.  Works are taken out of the queue in  *)
(* the order they were queued, the infos of the AAC decoder name the works   *)
(* it left pending, in that order, and the work with EOS is the last of      *)
(* them: whatever is pending is given back before it.                        *)

\* EOS comes with a work, and not with codec config.
EosWithData == "withEos" \notin DrainModes /\ EosWorks \cap CsdWorks = {}

\* Works are queued in their order, and mQueue has those that wait in it.
ClientLast == \A v, w \in Works : v < w /\ loc[v] = "client" => loc[w] = "client"
Rising(q) == \A i, j \in 1..Len(q) : i < j /\ q[i].work # 0 /\ q[j].work # 0 => q[i].work < q[j].work
WorksOf(q) == {q[i].work : i \in 1..Len(q)}
QueueOrder ==
    /\ \A w \in Works : loc[w] = "queue" <=> w \in WorksOf(mQueue)
    /\ Rising(mQueue)
    /\ \A i \in 1..Len(mQueue) : mQueue[i].drainMode # "withEos"

\* The work the looper has came before those in the queue.
Active == cur.pc # "idle"
CurInv ==
    /\ \A w \in Works : loc[w] = "processing" <=> Active /\ cur.work = w
    /\ Active => \A w \in Works : loc[w] = "queue" => cur.work < w
    /\ Active => cur.generation <= mGeneration /\ (mFlush <=> Outdated)
    /\ Active => (cur.eos <=> cur.work \in EosWorks)
    /\ cur.pc = "eos" => cur.eos
    /\ cur.pc = "tail" /\ cur.eos => cur.processed
    /\ cur.pc = "popped" => (cur.processed <=> cur.work # 0)

\* Only works of the AAC decoder, without EOS, are left pending.
PendingInv ==
    /\ mFlush => In("pending") = {}
    /\ decoder # "AAC" => In("pending") = {} /\ (Active /\ cur.work # 0 => cur.processed)
    /\ \A e \in EosWorks : loc[e] # "pending"

OrderInv == ClientLast /\ QueueOrder /\ CurInv /\ PendingInv

\* Queues, an entry longer or shorter.
LEMMA LongerQueue ==
    ASSUME NEW q \in Seq(Entry), NEW e \in Entry
    PROVE  /\ WorksOf(Append(q, e)) = WorksOf(q) \cup {e.work}
           /\ Rising(q) /\ (e.work = 0 \/ \A v \in WorksOf(q) : v < e.work) => Rising(Append(q, e))
           /\ (\A i \in 1..Len(q) : q[i].drainMode # "withEos") /\ e.drainMode # "withEos"
                 => \A i \in 1..Len(Append(q, e)) : Append(q, e)[i].drainMode # "withEos"
<1>1. Len(Append(q, e)) = Len(q) + 1 /\ Append(q, e)[Len(q) + 1] = e
  OBVIOUS
<1>2. \A i \in 1..Len(q) : i \in 1..Len(q) + 1 /\ Append(q, e)[i] = q[i] /\ i < Len(q) + 1
  OBVIOUS
<1>3. \A i \in 1..Len(q) + 1 : i = Len(q) + 1 \/ i \in 1..Len(q)
  OBVIOUS
<1>4. Len(q) + 1 \in 1..Len(q) + 1 /\ \A i \in 1..Len(q) + 1 : ~(Len(q) + 1 < i)
  OBVIOUS
<1>5. WorksOf(Append(q, e)) = WorksOf(q) \cup {e.work}
  BY <1>1, <1>2, <1>3, <1>4 DEF WorksOf
<1>6. ASSUME Rising(q), e.work = 0 \/ \A v \in WorksOf(q) : v < e.work
      PROVE  Rising(Append(q, e))
  <2> SUFFICES ASSUME NEW i \in 1..Len(Append(q, e)), NEW j \in 1..Len(Append(q, e)), i < j,
                      Append(q, e)[i].work # 0, Append(q, e)[j].work # 0
               PROVE  Append(q, e)[i].work < Append(q, e)[j].work
    BY DEF Rising
  <2>1. i \in 1..Len(q) /\ Append(q, e)[i] = q[i] /\ q[i].work \in WorksOf(q)
    BY <1>1, <1>2, <1>3, <1>4 DEF WorksOf
  <2>2. CASE j \in 1..Len(q)
    BY <1>2, <1>6, <2>1, <2>2 DEF Rising
  <2>3. CASE j = Len(q) + 1
    BY <1>1, <1>6, <2>1, <2>3
  <2> QED BY <1>1, <1>3, <2>2, <2>3
<1> QED
  BY <1>1, <1>2, <1>3, <1>5, <1>6

LEMMA ShorterQueue ==
    ASSUME NEW q \in Seq(Entry), q # <<>>
    PROVE  /\ Tail(q) \in Seq(Entry) /\ Head(q) \in Entry
           /\ WorksOf(q) = WorksOf(Tail(q)) \cup {Head(q).work}
           /\ Rising(q) => Rising(Tail(q))
                           /\ (Head(q).work # 0 =>
                                  \A v \in WorksOf(Tail(q)) : v # 0 => Head(q).work < v)
           /\ (\A i \in 1..Len(q) : q[i].drainMode # "withEos")
                 => Head(q).drainMode # "withEos"
                    /\ \A i \in 1..Len(Tail(q)) : Tail(q)[i].drainMode # "withEos"
<1>1. Head(q) = q[1] /\ Head(q) \in Entry /\ 1 \in 1..Len(q) /\ Tail(q) \in Seq(Entry)
  OBVIOUS
<1>2. \A i \in 1..Len(Tail(q)) : Tail(q)[i] = q[i + 1] /\ i + 1 \in 1..Len(q) /\ 1 < i + 1
  OBVIOUS
<1>3. \A i \in 1..Len(q) : i = 1 \/ (i - 1 \in 1..Len(Tail(q)) /\ Tail(q)[i - 1] = q[i])
  <2> SUFFICES ASSUME NEW i \in 1..Len(q), i # 1
               PROVE  i - 1 \in 1..Len(Tail(q)) /\ Tail(q)[i - 1] = q[i]
    OBVIOUS
  <2>1. i - 1 \in 1..Len(Tail(q)) /\ (i - 1) + 1 = i
    OBVIOUS
  <2> QED BY <1>2, <2>1
<1>4. WorksOf(q) = WorksOf(Tail(q)) \cup {Head(q).work}
  <2>1. WorksOf(q) \subseteq WorksOf(Tail(q)) \cup {Head(q).work}
    <3> SUFFICES ASSUME NEW i \in 1..Len(q), i # 1
                 PROVE  q[i].work \in WorksOf(Tail(q))
      BY <1>1 DEF WorksOf
    <3> QED BY <1>3 DEF WorksOf
  <2>2. WorksOf(Tail(q)) \cup {Head(q).work} \subseteq WorksOf(q)
    BY <1>1, <1>2 DEF WorksOf
  <2> QED BY <2>1, <2>2
<1>5. \A i, j \in 1..Len(Tail(q)) : i < j => i + 1 < j + 1
  OBVIOUS
<1>6. ASSUME Rising(q)
      PROVE  Rising(Tail(q)) /\ (Head(q).work # 0 => \A v \in WorksOf(Tail(q)) : v # 0 => Head(q).work < v)
  <2>1. Rising(Tail(q))
    BY <1>2, <1>5, <1>6 DEF Rising
  <2>2. Head(q).work # 0 => \A v \in WorksOf(Tail(q)) : v # 0 => Head(q).work < v
    BY <1>1, <1>2, <1>6 DEF Rising, WorksOf
  <2> QED BY <2>1, <2>2
<1> QED
  BY <1>1, <1>2, <1>4, <1>6

LEMMA NoQueue ==
    /\ <<>> \in Seq(Entry) /\ WorksOf(<<>>) = {} /\ Rising(<<>>)
    /\ \A i \in 1..Len(<<>>) : <<>>[i].drainMode # "withEos"
  BY DEF WorksOf, Rising

\* A step that leaves the works where they are.
LEMMA SameOrder ==
    ASSUME OrderInv, UNCHANGED <<decoder, loc, mQueue, cur, mFlush, mGeneration>>
    PROVE  OrderInv'
<1>1. In("pending")' = In("pending")
  BY DEF In
<1>2. ClientLast'
  BY DEF OrderInv, ClientLast
<1>3. QueueOrder'
  BY DEF OrderInv, QueueOrder
<1>4. CurInv'
  BY DEF OrderInv, CurInv, Active, Outdated
<1>5. PendingInv'
  BY <1>1 DEF OrderInv, PendingInv, Active
<1> QED
  BY <1>2, <1>3, <1>4, <1>5 DEF OrderInv

LEMMA QueueTypes ==
    ASSUME TypeOK
    PROVE  /\ mQueue \in Seq(Entry) /\ loc \in [Works -> Loc] /\ NumWorks \in Nat
           /\ \A w \in Works : w \in Nat /\ 0 < w
           /\ cur.work \in {0} \cup Works /\ cur.work \in Nat /\ (cur.work = 0 \/ cur.work \in Works)
           /\ mGeneration \in Nat /\ cur.generation \in Nat /\ mFlush \in BOOLEAN
           /\ cur.eos \in BOOLEAN /\ cur.processed \in BOOLEAN
           /\ \A v \in WorksOf(mQueue) : v = 0 \/ v \in Works
<1>1. NumWorks \in Nat /\ mQueue \in Seq(Entry)
  BY AudioWorksAssumption DEF TypeOK, Entry
<1>2. \A w \in Works : w \in Nat /\ 0 < w
  BY <1>1 DEF Works
<1>3. \A i \in 1..Len(mQueue) : mQueue[i] \in Entry
  BY <1>1
<1>4. \A v \in WorksOf(mQueue) : v = 0 \/ v \in Works
  BY <1>3 DEF WorksOf, Entry
<1> QED
  BY <1>1, <1>2, <1>4 DEF TypeOK, CurSet

LEMMA QueueOrderKept ==
    ASSUME TypeOK, OrderInv, NEW w \in Works, queue_nb(w)
    PROVE  OrderInv'
<1> USE DEF queueVars, looper, clientVars
<1> DEFINE e == [work |-> w, drainMode |-> "none"]
<1>1. /\ loc[w] = "client" /\ \A v \in Works : loc[v] = "client" => w <= v
      /\ loc' = [loc EXCEPT ![w] = "queue"] /\ mQueue' = Append(mQueue, e)
      /\ UNCHANGED <<decoder, cur, mFlush, mGeneration>>
  BY DEF queue_nb, Enqueue, In
<1>2. e \in Entry /\ e.work = w /\ e.drainMode # "withEos"
  BY DEF Entry
<1>3. \A v \in Works : loc'[v] = IF v = w THEN "queue" ELSE loc[v]
  BY <1>1, QueueTypes
<1>4. ClientLast'
  <2> SUFFICES ASSUME NEW v \in Works, NEW u \in Works, v < u, loc'[v] = "client"
               PROVE  loc'[u] = "client"
    BY DEF ClientLast
  <2>1. loc[v] = "client" /\ w <= v
    BY <1>1, <1>3
  <2>2. u # w /\ loc[u] = "client"
    BY <2>1, QueueTypes DEF OrderInv, ClientLast
  <2> QED BY <1>3, <2>2
<1>5. \A v \in Works : loc[v] # "client" => v < w
  <2> SUFFICES ASSUME NEW v \in Works, loc[v] # "client" PROVE v < w
    OBVIOUS
  <2>1. v # w /\ ~(w < v)
    BY <1>1 DEF OrderInv, ClientLast
  <2> QED BY <2>1, QueueTypes
<1> HIDE DEF e
<1>6. QueueOrder'
  <2>1. \A v \in WorksOf(mQueue) : v < w
    BY <1>5, QueueTypes DEF OrderInv, QueueOrder
  <2>2. Rising(mQueue') /\ \A i \in 1..Len(mQueue') : mQueue'[i].drainMode # "withEos"
    BY <1>1, <1>2, <2>1, LongerQueue, QueueTypes DEF OrderInv, QueueOrder
  <2>3. WorksOf(mQueue') = WorksOf(mQueue) \cup {w}
    BY <1>1, <1>2, LongerQueue, QueueTypes
  <2>4. \A v \in Works : loc'[v] = "queue" <=> v \in WorksOf(mQueue')
    BY <1>3, <2>3 DEF OrderInv, QueueOrder
  <2> QED BY <2>2, <2>4 DEF QueueOrder
<1>7. CurInv'
  <2>1. \A v \in Works : loc'[v] = "processing" <=> loc[v] = "processing"
    BY <1>1, <1>3
  <2>2. Active => \A v \in Works : loc'[v] = "queue" => cur.work < v
    BY <1>3, <1>5, QueueTypes DEF OrderInv, CurInv
  <2> QED BY <1>1, <2>1, <2>2 DEF OrderInv, CurInv, Active, Outdated
<1>8. PendingInv'
  <2>1. \A v \in Works : loc'[v] = "pending" <=> loc[v] = "pending"
    BY <1>1, <1>3
  <2>2. In("pending")' = In("pending")
    BY <2>1 DEF In
  <2> QED BY <1>1, <2>1, <2>2, AudioWorksAssumption DEF OrderInv, PendingInv, Active
<1> QED
  BY <1>4, <1>6, <1>7, <1>8 DEF OrderInv

LEMMA DrainOrderKept ==
    ASSUME TypeOK, OrderInv, EosWithData, NEW mode \in DrainModes, drain_nb(mode)
    PROVE  OrderInv'
<1> USE DEF queueVars, looper, clientVars
<1> DEFINE e == [work |-> 0, drainMode |-> mode]
<1>1. mQueue' = Append(mQueue, e) /\ UNCHANGED <<decoder, loc, cur, mFlush, mGeneration>>
  BY DEF drain_nb, Enqueue
<1>2. e \in Entry /\ e.work = 0 /\ e.drainMode # "withEos"
  BY AudioDecoderAssumption DEF Entry, EosWithData
<1> HIDE DEF e
<1>3. QueueOrder'
  <2>1. Rising(mQueue') /\ \A i \in 1..Len(mQueue') : mQueue'[i].drainMode # "withEos"
    BY <1>1, <1>2, LongerQueue, QueueTypes DEF OrderInv, QueueOrder
  <2>2. WorksOf(mQueue') = WorksOf(mQueue) \cup {0}
    BY <1>1, <1>2, LongerQueue, QueueTypes
  <2>3. \A v \in Works : v # 0
    BY QueueTypes
  <2> QED BY <1>1, <2>1, <2>2, <2>3 DEF OrderInv, QueueOrder
<1>4. In("pending")' = In("pending")
  BY <1>1 DEF In
<1> QED
  BY <1>1, <1>3, <1>4 DEF OrderInv, ClientLast, CurInv, PendingInv, Active, Outdated

\* flush_sm(), and what stop() and reset() clear.
LEMMA ClearOrderKept ==
    ASSUME TypeOK, OrderInv, NEW place \in {"flushed", "destroyed"},
           loc' = Moved(In("queue") \cup In("pending"), place), mQueue' = <<>>,
           UNCHANGED <<decoder, cur>>,
           UNCHANGED <<mFlush, mGeneration>> \/ (mFlush' = TRUE /\ mGeneration' = mGeneration + 1)
    PROVE  OrderInv'
<1>1. \A w \in Works : loc'[w] = IF loc[w] \in {"queue", "pending"} THEN place ELSE loc[w]
  BY DEF Moved, In
<1>2. \A w \in Works : /\ loc'[w] = "client" <=> loc[w] = "client"
                       /\ loc'[w] = "processing" <=> loc[w] = "processing"
                       /\ loc'[w] # "queue" /\ loc'[w] # "pending"
  BY <1>1
<1>3. In("pending")' = {}
  BY <1>2 DEF In
<1>4. ClientLast'
  BY <1>2 DEF OrderInv, ClientLast
<1>5. QueueOrder'
  BY <1>2, NoQueue DEF QueueOrder
<1>6. CurInv'
  <2>1. Active => cur.generation <= mGeneration' /\ (mFlush' <=> mGeneration' # cur.generation)
    BY QueueTypes DEF OrderInv, CurInv, Outdated
  <2> QED BY <1>2, <2>1 DEF OrderInv, CurInv, Active, Outdated
<1>7. PendingInv'
  BY <1>2, <1>3, AudioWorksAssumption DEF OrderInv, PendingInv, Active
<1> QED
  BY <1>4, <1>5, <1>6, <1>7 DEF OrderInv

LEMMA PopOrderKept ==
    ASSUME TypeOK, OrderInv, Pop
    PROVE  OrderInv'
<1> USE DEF queueVars, looper, clientVars
<1>1. PICK e \in Entry : e = Head(mQueue)
  BY ShorterQueue, QueueTypes DEF Pop
<1>2. /\ mQueue # <<>> /\ mQueue' = Tail(mQueue) /\ mFlush' = FALSE /\ ~Active
      /\ UNCHANGED <<decoder, mGeneration>>
      /\ cur'.pc = "popped" /\ cur'.work = e.work /\ cur'.generation = mGeneration
      /\ cur'.eos = (e.drainMode = "withEos" \/ e.work \in EosWorks)
      /\ cur'.processed = (e.work # 0)
      /\ loc' = IF e.work = 0 THEN loc ELSE [loc EXCEPT ![e.work] = "processing"]
  BY <1>1 DEF Pop, Take, Active
<1>3. /\ WorksOf(mQueue) = WorksOf(mQueue') \cup {e.work}
      /\ Rising(mQueue')
      /\ e.work # 0 => \A v \in WorksOf(mQueue') : v # 0 => e.work < v
      /\ e.drainMode # "withEos"
      /\ \A i \in 1..Len(mQueue') : mQueue'[i].drainMode # "withEos"
  BY <1>1, <1>2, ShorterQueue, QueueTypes DEF OrderInv, QueueOrder
<1>4. e.work = 0 \/ (e.work \in Works /\ loc[e.work] = "queue" /\ e.work \notin WorksOf(mQueue'))
  BY <1>3, QueueTypes DEF OrderInv, QueueOrder, Entry
<1>5. \A v \in Works : loc'[v] = IF v = e.work THEN "processing" ELSE loc[v]
  BY <1>2, <1>4, QueueTypes
<1>6. \A v \in Works : loc[v] # "processing" /\ v # 0
  <2>1. \A v \in Works : loc[v] = "processing" => Active
    BY DEF OrderInv, CurInv
  <2>2. \A v \in Works : v # 0
    BY QueueTypes
  <2> QED BY <1>2, <2>1, <2>2
<1>7. ClientLast'
  <2>1. \A v \in Works : loc'[v] = "client" <=> loc[v] = "client"
    BY <1>4, <1>5, <1>6
  <2> QED BY <2>1 DEF OrderInv, ClientLast
<1>8. QueueOrder'
  <2>1. \A v \in Works : loc'[v] = "queue" <=> v \in WorksOf(mQueue')
    BY <1>3, <1>4, <1>5, <1>6 DEF OrderInv, QueueOrder
  <2> QED BY <1>3, <2>1 DEF QueueOrder
<1>9. CurInv'
  <2>1. \A v \in Works : loc'[v] = "processing" <=> cur'.work = v
    BY <1>2, <1>5, <1>6
  <2>2. \A v \in Works : loc'[v] = "queue" => cur'.work < v
    BY <1>2, <1>3, <1>4, <1>8, QueueTypes DEF QueueOrder
  <2>3. cur'.generation <= mGeneration' /\ ~Outdated'
    BY <1>2, QueueTypes DEF Outdated
  <2>4. cur'.eos <=> cur'.work \in EosWorks
    <3>1. cur'.eos = (e.drainMode = "withEos" \/ cur'.work \in EosWorks)
      BY <1>2
    <3>2. e.drainMode # "withEos"
      BY <1>3
    <3> QED BY <3>1, <3>2
  <2> QED BY <1>2, <2>1, <2>2, <2>3, <2>4 DEF CurInv, Active
<1>10. PendingInv'
  <2>1. \A v \in Works : loc'[v] = "pending" <=> loc[v] = "pending"
    BY <1>4, <1>5, <1>6
  <2>2. In("pending")' = In("pending")
    BY <2>1 DEF In
  <2> QED BY <1>2, <2>1, <2>2, AudioWorksAssumption DEF OrderInv, PendingInv, Active
<1> QED
  BY <1>7, <1>8, <1>9, <1>10 DEF OrderInv

\* The work goes on to the next step of processQueue().
LEMMA StepOrderKept ==
    ASSUME TypeOK, OrderInv, Active, UNCHANGED <<decoder, loc, mQueue, mFlush, mGeneration>>,
           cur'.pc \in {"ring", "eos", "tail"}, cur'.work = cur.work,
           cur'.generation = cur.generation, cur'.eos = cur.eos,
           cur'.pc = "eos" => cur.eos,
           cur'.pc = "tail" /\ cur.eos => cur'.processed,
           decoder # "AAC" /\ cur.work # 0 => cur'.processed
    PROVE  OrderInv'
<1>1. ClientLast' /\ QueueOrder'
  BY DEF OrderInv, ClientLast, QueueOrder
<1>2. CurInv'
  BY DEF OrderInv, CurInv, Active, Outdated
<1>3. In("pending")' = In("pending")
  BY DEF In
<1>4. PendingInv'
  BY <1>3 DEF OrderInv, PendingInv, Active
<1> QED
  BY <1>1, <1>2, <1>4 DEF OrderInv

\* processQueue() is done with its work.
LEMMA LeaveOrderKept ==
    ASSUME TypeOK, OrderInv, Active, UNCHANGED <<decoder, mQueue, mFlush, mGeneration>>,
           cur' = IdleCur, NEW place \in {"destroyed", "notFound", "done", "pending"},
           loc' = IF cur.work = 0 THEN loc ELSE [loc EXCEPT ![cur.work] = place],
           cur.work # 0 /\ place = "pending"
              => ~mFlush /\ cur.work \notin EosWorks /\ decoder = "AAC"
    PROVE  OrderInv'
<1>1. \A v \in Works : loc'[v] = IF v = cur.work THEN place ELSE loc[v]
  BY QueueTypes
<1>2. cur.work = 0 \/ (cur.work \in Works /\ loc[cur.work] = "processing")
  BY QueueTypes DEF OrderInv, CurInv
<1>3. \A v \in Works : loc[v] = "processing" => v = cur.work
  BY DEF OrderInv, CurInv
<1>4. cur'.pc = "idle" /\ ~Active'
  BY DEF IdleCur, Active
<1>5. \A v \in Works : /\ loc'[v] = "client" <=> loc[v] = "client"
                       /\ loc'[v] = "queue" <=> loc[v] = "queue"
                       /\ loc'[v] # "processing"
  BY <1>1, <1>2, <1>3
<1>6. ClientLast' /\ QueueOrder'
  BY <1>5 DEF OrderInv, ClientLast, QueueOrder
<1>7. CurInv'
  BY <1>4, <1>5 DEF CurInv, Active
<1>8. PendingInv'
  <2>1. \A e \in EosWorks : loc'[e] # "pending"
    BY <1>1, QueueTypes, AudioWorksAssumption DEF OrderInv, PendingInv
  <2>2. CASE cur.work = 0 \/ place # "pending"
    <3>1. \A v \in Works : loc'[v] = "pending" => loc[v] = "pending"
      BY <1>1, <2>2, QueueTypes
    <3>2. In("pending") = {} => In("pending")' = {}
      BY <3>1 DEF In
    <3> QED BY <1>4, <2>1, <3>2 DEF OrderInv, PendingInv
  <2>3. CASE cur.work # 0 /\ place = "pending"
    BY <1>4, <2>1, <2>3 DEF PendingInv
  <2> QED BY <2>2, <2>3
<1> QED
  BY <1>6, <1>7, <1>8 DEF OrderInv

\* finish() gives a pending work back.
LEMMA FinishOrderKept ==
    ASSUME TypeOK, OrderInv, UNCHANGED <<decoder, cur, mQueue, mFlush, mGeneration>>,
           NEW w \in Works, finish(w)
    PROVE  OrderInv'
<1>1. \A v \in Works : loc'[v] = IF v = w /\ loc[w] = "pending" THEN "done" ELSE loc[v]
  BY QueueTypes DEF finish
<1>2. \A v \in Works : /\ loc'[v] = "client" <=> loc[v] = "client"
                       /\ loc'[v] = "queue" <=> loc[v] = "queue"
                       /\ loc'[v] = "processing" <=> loc[v] = "processing"
                       /\ loc'[v] = "pending" => loc[v] = "pending"
  BY <1>1
<1>3. ClientLast' /\ QueueOrder'
  BY <1>2 DEF OrderInv, ClientLast, QueueOrder
<1>4. CurInv'
  BY <1>2 DEF OrderInv, CurInv, Active, Outdated
<1>5. PendingInv'
  <2>1. In("pending") = {} => In("pending")' = {}
    BY <1>2 DEF In
  <2> QED BY <1>2, <2>1, AudioWorksAssumption DEF OrderInv, PendingInv, Active
<1> QED
  BY <1>3, <1>4, <1>5 DEF OrderInv

\* The decoder and its infos.
LEMMA InfoTypes ==
    ASSUME TypeOK
    PROVE  /\ codec \in CodecSet /\ codec.infos \in Seq(Info)
           /\ codec.infos # <<>> => /\ Tail(codec.infos) \in Seq(Info)
                                    /\ Head(codec.infos) \in Info
                                    /\ Head(codec.infos).work \in Works
<1>1. codec \in CodecSet /\ codec.infos \in Seq(Info)
  BY DEF TypeOK, CodecSet
<1>2. codec.infos # <<>> => Tail(codec.infos) \in Seq(Info) /\ Head(codec.infos) \in Info
  BY <1>1
<1> QED
  BY <1>1, <1>2 DEF Info

\* What a step of processQueue() makes of the work.
LEMMA ProcessCur ==
    ASSUME TypeOK, OrderInv, NEW frames, NEW ok, Process(frames, ok)
    PROVE  /\ cur.pc = "popped" /\ cur.work \in Works /\ cur.work # 0 /\ cur.processed
           /\ cur'.pc \in {"ring", "tail"} /\ cur'.work = cur.work
           /\ cur'.generation = cur.generation /\ cur'.eos = cur.eos
           /\ cur'.pc = "tail" /\ cur.eos => cur'.processed
           /\ decoder # "AAC" => cur'.processed
           /\ UNCHANGED <<decoder, loc, mQueue, mFlush, mGeneration>>
<1>1. cur \in CurSet /\ cur.pc = "popped" /\ cur.work # 0 /\ cur.work \in Works
      /\ UNCHANGED <<decoder, loc, mQueue, mFlush, mGeneration>>
  BY QueueTypes DEF Process, TypeOK, queueVars
<1>2. cur.processed
  BY <1>1 DEF OrderInv, CurInv
<1>3. CASE decoder = "AAC"
  <2>1. ProcessAac(frames, ok)
    BY <1>3 DEF Process
  <2>2. \/ cur' = [cur EXCEPT !.pc = "tail"]
        \/ ~cur.eos /\ cur' = [cur EXCEPT !.pc = "tail", !.processed = FALSE]
        \/ cur' = [cur EXCEPT !.pc = "ring", !.processed = FALSE]
    BY <2>1 DEF ProcessAac
  <2> QED BY <1>1, <1>2, <1>3, <2>2 DEF CurSet
<1>4. CASE decoder # "AAC"
  <2>1. ProcessDirect(frames, ok)
    BY <1>4 DEF Process
  <2>2. cur' = [cur EXCEPT !.pc = "tail"] \/ cur' = [cur EXCEPT !.pc = "ring"]
    BY <2>1 DEF ProcessDirect
  <2> QED BY <1>1, <1>2, <1>4, <2>2 DEF CurSet
<1> QED
  BY <1>3, <1>4

LEMMA LooperOrder ==
    ASSUME TypeOK, OrderInv,
           \/ Pop \/ NoPool \/ Drain
           \/ \E frames \in FrameCounts, ok \in BOOLEAN : Process(frames, ok)
           \/ SendOutput \/ NoMoreOutput \/ FinishWithoutOutput \/ EndOfProcess
    PROVE  OrderInv'
<1> USE DEF queueVars, looper, clientVars
<1>0. cur \in CurSet
  BY DEF TypeOK
<1>1. CASE NoPool
  BY <1>1, LeaveOrderKept DEF NoPool, Return, Active
<1>2. CASE Drain
  <2>1. Active /\ UNCHANGED <<decoder, loc, mQueue, mFlush, mGeneration>> /\ cur.work = 0
    BY <1>2 DEF Drain, Active
  <2>2. CASE decoder = "AAC"
    <3>1. cur' = [cur EXCEPT !.pc = "ring"]
      BY <1>2, <2>2 DEF Drain
    <3> QED BY <1>0, <2>1, <2>2, <3>1, StepOrderKept DEF CurSet
  <2>3. CASE decoder # "AAC"
    <3>1. cur' = IdleCur
      BY <1>2, <2>3 DEF Drain, Return
    <3> QED BY <2>1, <3>1, LeaveOrderKept
  <2> QED BY <2>2, <2>3
<1>3. ASSUME NEW frames \in FrameCounts, NEW ok \in BOOLEAN, Process(frames, ok)
      PROVE  OrderInv'
  BY <1>3, ProcessCur, StepOrderKept DEF Active
<1>4. CASE SendOutput
  <2> DEFINE w == Head(codec.infos).work
  <2>1. codec.infos # <<>> /\ cur.pc = "ring" /\ UNCHANGED <<decoder, mQueue, mFlush, mGeneration>>
    BY <1>4 DEF SendOutput, OutputReady
  <2>2. CASE w = cur.work
    <3>1. cur' = [cur EXCEPT !.processed = TRUE] /\ UNCHANGED loc
      BY <1>4, <2>2 DEF SendOutput
    <3> QED BY <1>0, <2>1, <3>1, StepOrderKept DEF CurSet, Active
  <2>3. CASE w # cur.work
    <3>1. finish(w) /\ UNCHANGED cur
      BY <1>4, <2>3 DEF SendOutput
    <3>2. w \in Works
      BY <2>1, InfoTypes
    <3> HIDE DEF w
    <3> QED BY <2>1, <3>1, <3>2, FinishOrderKept
  <2> QED BY <2>2, <2>3
<1>5. CASE NoMoreOutput
  <2>1. cur' = [cur EXCEPT !.pc = IF cur.eos THEN "eos" ELSE "tail"] /\ cur.pc = "ring"
        /\ UNCHANGED <<decoder, loc, mQueue, mFlush, mGeneration>>
    BY <1>5 DEF NoMoreOutput
  <2>2. decoder # "AAC" /\ cur.work # 0 => cur.processed
    BY <2>1 DEF OrderInv, PendingInv, Active
  <2> QED BY <1>0, <2>1, <2>2, StepOrderKept DEF CurSet, Active
<1>6. CASE FinishWithoutOutput
  <2> DEFINE w == Head(codec.infos).work
  <2>1. cur.pc = "eos" /\ UNCHANGED <<decoder, mQueue, mFlush, mGeneration>>
    BY <1>6 DEF FinishWithoutOutput
  <2>2. CASE Len(codec.infos) > LastInfos
    <3>1. codec.infos # <<>>
      BY <2>2, InfoTypes DEF LastInfos
    <3>2. finish(w) /\ UNCHANGED cur
      BY <1>6, <2>2 DEF FinishWithoutOutput
    <3>3. w \in Works
      BY <3>1, InfoTypes
    <3> HIDE DEF w
    <3> QED BY <2>1, <3>2, <3>3, FinishOrderKept
  <2>3. CASE ~(Len(codec.infos) > LastInfos)
    <3>1. cur' = [cur EXCEPT !.pc = "tail", !.processed = cur.work # 0] /\ UNCHANGED loc
      BY <1>6, <2>3 DEF FinishWithoutOutput
    <3>2. cur.eos /\ cur.work \in Works
      BY <2>1, AudioWorksAssumption DEF OrderInv, CurInv, Active
    <3>3. cur.work # 0
      BY <3>2, QueueTypes
    <3> QED BY <1>0, <2>1, <3>1, <3>3, StepOrderKept DEF CurSet, Active
  <2> QED BY <2>2, <2>3
<1>7. CASE EndOfProcess
  <2> DEFINE place == IF Outdated THEN "notFound" ELSE IF cur.processed THEN "done" ELSE "pending"
  <2>1. Active /\ cur.pc = "tail" /\ UNCHANGED <<decoder, mQueue, mFlush, mGeneration>>
        /\ cur' = IdleCur /\ loc' = IF cur.work = 0 THEN loc ELSE [loc EXCEPT ![cur.work] = place]
    BY <1>7 DEF EndOfProcess, Return, Active
  <2>2. cur.work # 0 /\ place = "pending"
           => ~mFlush /\ cur.work \notin EosWorks /\ decoder = "AAC"
    BY <2>1 DEF OrderInv, CurInv, PendingInv
  <2>3. place \in {"notFound", "done", "pending"}
    OBVIOUS
  <2> HIDE DEF place
  <2> QED BY <2>1, <2>2, <2>3, LeaveOrderKept
<1> QED
  BY <1>1, <1>2, <1>3, <1>4, <1>5, <1>6, <1>7, PopOrderKept

LEMMA NextOrder ==
    ASSUME TypeOK, OrderInv, EosWithData, [Next]_vars
    PROVE  OrderInv'
<1> USE DEF queueVars, looper, clientVars
<1>1. ASSUME NEW w \in Works, queue_nb(w) PROVE OrderInv'
  BY <1>1, QueueOrderKept
<1>2. ASSUME NEW mode \in DrainModes, drain_nb(mode) PROVE OrderInv'
  BY <1>2, DrainOrderKept
<1>3. CASE flush_sm
  BY <1>3, ClearOrderKept DEF flush_sm
<1>4. CASE stop \/ reset
  BY <1>4, ClearOrderKept DEF stop, reset, ClearWorks
<1>5. CASE PostProcess \/ start \/ InitReturn \/ release
  BY <1>5, SameOrder DEF PostProcess, start, InitReturn, release
<1>6. CASE \/ \E ok \in BOOLEAN : InitMessage(ok)
           \/ StartMessage \/ StopMessage \/ ResetMessage \/ ReleaseMessage \/ ProcessNothing
  BY <1>6, SameOrder
  DEF InitMessage, StartMessage, StopMessage, ResetMessage, ReleaseMessage, ProcessNothing
<1>7. CASE \/ Pop \/ NoPool \/ Drain
           \/ \E frames \in FrameCounts, ok \in BOOLEAN : Process(frames, ok)
           \/ SendOutput \/ NoMoreOutput \/ FinishWithoutOutput \/ EndOfProcess
  BY <1>7, LooperOrder
<1>8. CASE UNCHANGED vars
  BY <1>8, SameOrder DEF vars
<1> QED
  BY <1>1, <1>2, <1>3, <1>4, <1>5, <1>6, <1>7, <1>8 DEF Next, Client, Looper

LEMMA InitOrder ==
    ASSUME Init
    PROVE  OrderInv
<1>1. mQueue = <<>> /\ cur.pc = "idle" /\ mFlush = FALSE /\ \A w \in Works : loc[w] = "client"
  BY DEF Init, IdleCur
<1>2. In("pending") = {}
  BY <1>1 DEF In
<1> QED
  BY <1>1, <1>2, NoQueue, AudioWorksAssumption
  DEF OrderInv, ClientLast, QueueOrder, CurInv, PendingInv, Active

\* Infos, one more or less.
Distinct(q) == \A i, j \in 1..Len(q) : i < j => q[i].work # q[j].work

LEMMA LongerInfos ==
    ASSUME NEW q \in Seq(Info), NEW e \in Info
    PROVE  /\ WorksOf(Append(q, e)) = WorksOf(q) \cup {e.work}
           /\ Distinct(q) /\ e.work \notin WorksOf(q) => Distinct(Append(q, e))
           /\ Append(q, e) # <<>> /\ Append(q, e)[Len(Append(q, e))] = e
<1>1. Len(Append(q, e)) = Len(q) + 1 /\ Append(q, e)[Len(q) + 1] = e /\ Append(q, e) # <<>>
  OBVIOUS
<1>2. \A i \in 1..Len(q) : i \in 1..Len(q) + 1 /\ Append(q, e)[i] = q[i] /\ i < Len(q) + 1
  OBVIOUS
<1>3. \A i \in 1..Len(q) + 1 : i = Len(q) + 1 \/ i \in 1..Len(q)
  OBVIOUS
<1>4. Len(q) + 1 \in 1..Len(q) + 1 /\ \A i \in 1..Len(q) + 1 : ~(Len(q) + 1 < i)
  OBVIOUS
<1>5. WorksOf(Append(q, e)) = WorksOf(q) \cup {e.work}
  BY <1>1, <1>2, <1>3, <1>4 DEF WorksOf
<1>6. Distinct(q) /\ e.work \notin WorksOf(q) => Distinct(Append(q, e))
  BY <1>1, <1>2, <1>3, <1>4 DEF Distinct, WorksOf
<1> QED
  BY <1>1, <1>5, <1>6

LEMMA ShorterInfos ==
    ASSUME NEW q \in Seq(Info), q # <<>>, Distinct(q)
    PROVE  /\ WorksOf(Tail(q)) = WorksOf(q) \ {Head(q).work}
           /\ Distinct(Tail(q))
           /\ Head(q).work \in WorksOf(q)
           /\ Head(q).work = q[Len(q)].work => Tail(q) = <<>>
           /\ Head(q).work # q[Len(q)].work
                 => Tail(q) # <<>> /\ Tail(q)[Len(Tail(q))] = q[Len(q)]
<1>1. Head(q) = q[1] /\ Tail(q) \in Seq(Info) /\ Len(Tail(q)) = Len(q) - 1 /\ Len(q) \in Nat
      /\ Len(q) >= 1 /\ 1 \in 1..Len(q) /\ Len(q) \in 1..Len(q)
  OBVIOUS
<1>2. \A i \in 1..Len(Tail(q)) : Tail(q)[i] = q[i + 1] /\ i + 1 \in 1..Len(q) /\ 1 < i + 1
  OBVIOUS
<1>3. \A i \in 1..Len(q) : i = 1 \/ (i - 1 \in 1..Len(Tail(q)) /\ Tail(q)[i - 1] = q[i])
  <2> SUFFICES ASSUME NEW i \in 1..Len(q), i # 1
               PROVE  i - 1 \in 1..Len(Tail(q)) /\ Tail(q)[i - 1] = q[i]
    OBVIOUS
  <2>1. i - 1 \in 1..Len(Tail(q)) /\ (i - 1) + 1 = i
    OBVIOUS
  <2> QED BY <1>2, <2>1
<1>4. \A i \in 1..Len(Tail(q)) : Tail(q)[i].work # Head(q).work
  BY <1>1, <1>2 DEF Distinct
<1>5. WorksOf(Tail(q)) \subseteq WorksOf(q) \ {Head(q).work}
  BY <1>2, <1>4 DEF WorksOf
<1>6. WorksOf(q) \ {Head(q).work} \subseteq WorksOf(Tail(q))
  BY <1>1, <1>3 DEF WorksOf
<1>7. Distinct(Tail(q))
  <2>1. \A i, j \in 1..Len(Tail(q)) : i < j => i + 1 < j + 1
    OBVIOUS
  <2> QED BY <1>2, <2>1 DEF Distinct
<1>8. Head(q).work \in WorksOf(q)
  BY <1>1 DEF WorksOf
<1>e. \A s \in Seq(Info) : s = <<>> <=> Len(s) = 0
  OBVIOUS
<1>9. ASSUME Head(q).work = q[Len(q)].work PROVE Tail(q) = <<>>
  <2>1. ~(1 < Len(q))
    BY <1>1, <1>9 DEF Distinct
  <2>2. Len(Tail(q)) = 0
    BY <1>1, <2>1
  <2> QED BY <1>1, <1>e, <2>2
<1>10. ASSUME Head(q).work # q[Len(q)].work
       PROVE  Tail(q) # <<>> /\ Tail(q)[Len(Tail(q))] = q[Len(q)]
  <2>1. Len(q) # 1
    BY <1>1, <1>10
  <2>2. Len(Tail(q)) \in 1..Len(Tail(q)) /\ Len(Tail(q)) + 1 = Len(q)
    <3>1. PICK n \in Nat : n = Len(q)
      BY <1>1
    <3>2. n - 1 \in 1..(n - 1) /\ (n - 1) + 1 = n
      BY <1>1, <2>1, <3>1
    <3> QED BY <1>1, <3>1, <3>2
  <2>3. Tail(q) # <<>>
    <3>1. Tail(q) = <<>> => Len(Tail(q)) = 0
      BY <1>1, <1>e
    <3> QED BY <1>1, <2>1, <3>1
  <2>4. Tail(q)[Len(Tail(q))] = q[Len(Tail(q)) + 1]
    BY <1>2, <2>2
  <2> QED BY <2>2, <2>3, <2>4
<1> QED
  BY <1>5, <1>6, <1>7, <1>8, <1>9, <1>10

\* An error, once signalled, stays until a session ends.
LEMMA ErrorStays ==
    ASSUME TypeOK, [Next]_vars, ~StopMessage, ~ResetMessage, codec.mSignalledError
    PROVE  codec'.mSignalledError
<1> USE DEF queueVars, looper, clientVars
<1>1. codec \in CodecSet /\ decoder \in {"AAC", "EAC3", "AC4", "DTS", "DTSX", "FFMPEG"}
  BY Kinds DEF TypeOK
<1>2. ASSUME NEW ok \in BOOLEAN, InitMessage(ok) PROVE codec'.mSignalledError
  <2>1. codec' \in Initialized(decoder, codec, ok)
    BY <1>2 DEF InitMessage
  <2>2. CASE decoder \in {"EAC3", "AC4"}
    BY <1>1, <2>1, <2>2 DEF Initialized, EAC3_SetUp, AC4_SetUp, TornDown, Undefined, CodecSet
  <2>3. CASE decoder \in {"DTS", "DTSX"}
    BY <1>1, <2>1, <2>3
    DEF Initialized, DTS_SetUp, DTSX_SetUp, DTSX_DualcoreInit, TornDown, Undefined, CodecSet
  <2>4. CASE decoder \in {"AAC", "FFMPEG"}
    BY <1>1, <2>1, <2>4 DEF Initialized, FFMPEG_SetUp, CodecSet
  <2> QED BY <1>1, <2>2, <2>3, <2>4
<1>3. CASE ReleaseMessage
  BY <1>1, <1>3
  DEF ReleaseMessage, Released, EAC3_Release, AC4_Release, DTS_Release, DTSX_Release,
      FFMPEG_Release, TornDown, Undefined, CodecSet
<1>4. CASE Pop \/ Drain
  BY <1>1, <1>4 DEF Pop, Drain, onFlush_sm, drainDecoder, CodecSet
<1>5. ASSUME NEW frames \in FrameCounts, NEW ok \in BOOLEAN, Process(frames, ok)
      PROVE  codec'.mSignalledError
  <2>1. CASE decoder = "AAC"
    BY <1>1, <1>5, <2>1 DEF Process, ProcessAac
  <2>2. CASE decoder # "AAC"
    <3>1. codec' = FFMPEG_Configure(codec)
          \/ codec' = Processed(decoder, codec, cur.work, frames > 0, ok)
      BY <1>5, <2>2 DEF Process, ProcessDirect
    <3>2. CASE decoder \in {"EAC3", "AC4"}
      BY <1>1, <3>1, <3>2
      DEF FFMPEG_Configure, Processed, EAC3_Process, EAC3_Decode, AC4_Process, WithInfo, Undefined,
          CodecSet
    <3>3. CASE decoder \in {"DTS", "DTSX", "FFMPEG"}
      BY <1>1, <3>1, <3>3
      DEF FFMPEG_Configure, Processed, DTS_Process, DTSX_Process, FFMPEG_Process, WithInfo,
          Undefined, CodecSet
    <3> QED BY <1>1, <2>2, <3>2, <3>3
  <2> QED BY <2>1, <2>2
<1>6. CASE SendOutput \/ FinishWithoutOutput
  BY <1>1, <1>6 DEF SendOutput, FinishWithoutOutput, CodecSet
<1>7. CASE UNCHANGED codec
  BY <1>7
<1>8. Client => UNCHANGED codec
  BY DEF Client, queue_nb, drain_nb, PostProcess, flush_sm, start, InitReturn, stop, reset, release
<1>9. StartMessage \/ ProcessNothing \/ NoPool \/ NoMoreOutput \/ EndOfProcess => UNCHANGED codec
  BY DEF StartMessage, ProcessNothing, NoPool, NoMoreOutput, EndOfProcess
<1>10. UNCHANGED vars => UNCHANGED codec
  BY DEF vars
<1> QED
  BY <1>2, <1>3, <1>4, <1>5, <1>6, <1>7, <1>8, <1>9, <1>10 DEF Next, Looper

\* Where nothing was disturbed up to a step, the step and those before disturbed nothing.
LEMMA UndisturbedBefore ==
    ASSUME TypeOK, UseInv, [Next]_vars, Undisturbed'
    PROVE  /\ Undisturbed
           /\ ~stop /\ ~reset /\ ~StopMessage /\ ~ResetMessage /\ ~NoPool
           /\ \A frames \in FrameCounts, ok \in BOOLEAN : Process(frames, ok) => ok
<1> USE DEF queueVars, looper, clientVars
<1> DEFINE Bad == {"stop", "reset", "decodeError", "poolError"}
<1>1. Bad \subseteq Call /\ \A c \in Bad : calls[c] \in Nat
  BY DEF Call, TypeOK
<1>2. \E c \in Call : Count(c) \/ UNCHANGED calls
  <2>1. Client => \E c \in Call : Count(c) \/ UNCHANGED calls
    BY DEF Client, queue_nb, drain_nb, PostProcess, flush_sm, start, InitReturn, stop, reset,
       release, Call
  <2>2. (\E ok \in BOOLEAN : InitMessage(ok)) => \E c \in Call : Count(c) \/ UNCHANGED calls
    BY DEF InitMessage, Call
  <2>3. StartMessage \/ StopMessage \/ ResetMessage \/ ReleaseMessage \/ ProcessNothing \/ Pop \/ NoPool
        => \E c \in Call : Count(c) \/ UNCHANGED calls
    BY DEF StartMessage, StopMessage, ResetMessage, ReleaseMessage, ProcessNothing, Pop, NoPool, Call
  <2>4. Drain \/ SendOutput \/ NoMoreOutput \/ FinishWithoutOutput \/ EndOfProcess
        => \E c \in Call : Count(c) \/ UNCHANGED calls
    BY DEF Drain, SendOutput, NoMoreOutput, FinishWithoutOutput, EndOfProcess, Call
  <2>5. (\E frames \in FrameCounts, ok \in BOOLEAN : Process(frames, ok))
        => \E c \in Call : Count(c) \/ UNCHANGED calls
    BY DEF Process, Call
  <2>6. UNCHANGED vars => \E c \in Call : Count(c) \/ UNCHANGED calls
    BY DEF vars, Call
  <2> QED BY <2>1, <2>2, <2>3, <2>4, <2>5, <2>6 DEF Next, Looper
<1>3. \A c \in Bad : calls'[c] \in Nat /\ calls'[c] >= calls[c]
  BY <1>1, <1>2, CountsGrow
<1>4. \A c \in Bad : calls'[c] = 0 /\ calls[c] = 0
  BY <1>1, <1>3 DEF Undisturbed
<1>5. \A c \in Bad : ~Count(c)
  BY <1>1, <1>4, CountsGrow
<1>6. ~StopMessage /\ ~ResetMessage
  <2>1. ~Queued("stop") /\ ~Queued("reset")
    BY <1>1, <1>4 DEF UseInv, Called
  <2> QED BY <2>1, TakeFacts DEF StopMessage, ResetMessage, Queued
<1>7. ~codec.mSignalledError
  BY <1>6, ErrorStays DEF Undisturbed
<1>8. Undisturbed
  BY <1>4, <1>7 DEF Undisturbed
<1>9. ~stop /\ ~reset /\ ~NoPool
  BY <1>5 DEF stop, reset, NoPool
<1>10. \A frames \in FrameCounts, ok \in BOOLEAN : Process(frames, ok) => ok
  BY <1>5 DEF Process
<1> QED
  BY <1>6, <1>8, <1>9, <1>10

\* The infos of the AAC decoder name the pending works and, at the end, the one that
\* is still to become pending; after a work with EOS none is left.
Waits == Active /\ cur.work # 0 /\ ~cur.processed
InfosInv ==
    /\ WorksOf(codec.infos) = In("pending") \cup (IF Waits THEN {cur.work} ELSE {})
    /\ Waits => codec.infos # <<>> /\ codec.infos[Len(codec.infos)].work = cur.work
    /\ Distinct(codec.infos)
    /\ cur.pc \in {"ring", "eos"} /\ cur.work # 0 /\ cur.processed => codec.infos = <<>>
    /\ cur.pc = "tail" /\ cur.eos => codec.infos = <<>>
InfosHold == decoder = "AAC" /\ Undisturbed /\ ~mFlush => InfosInv

LEMMA NoInfosLeft == WorksOf(<<>>) = {} /\ Distinct(<<>>)
  BY DEF WorksOf, Distinct

\* A step that touches neither the infos nor the work.
LEMMA SameInfos ==
    ASSUME InfosInv, codec'.infos = codec.infos, cur' = cur, In("pending")' = In("pending")
    PROVE  InfosInv'
  BY DEF InfosInv, Waits, Active

LEMMA PopInfos ==
    ASSUME TypeOK, OrderInv, Pop, decoder = "AAC", mFlush \/ InfosInv
    PROVE  InfosInv'
<1> USE DEF queueVars, looper, clientVars
<1>1. PICK e \in Entry : e = Head(mQueue)
  BY ShorterQueue, QueueTypes DEF Pop
<1>2. /\ ~Active /\ cur'.pc = "popped" /\ cur'.work = e.work /\ cur'.processed = (e.work # 0)
      /\ loc' = IF e.work = 0 THEN loc ELSE [loc EXCEPT ![e.work] = "processing"]
  BY <1>1 DEF Pop, Take, Active
<1>3. ~Waits /\ ~Waits'
  BY <1>2 DEF Waits
<1>4. In("pending")' = In("pending")
  <2>1. e.work = 0 \/ loc[e.work] = "queue"
    <3>1. e.work \in WorksOf(mQueue)
      BY <1>1, ShorterQueue, QueueTypes DEF Pop
    <3> QED BY <3>1, QueueTypes DEF OrderInv, QueueOrder
  <2>2. \A v \in Works : loc'[v] = "pending" <=> loc[v] = "pending"
    BY <1>2, <2>1, QueueTypes
  <2> QED BY <2>2 DEF In
<1>5. CASE mFlush
  <2>1. codec'.infos = <<>>
    BY <1>5, InfoTypes DEF Pop, onFlush_sm, drainDecoder, CodecSet
  <2>2. In("pending")' = {}
    BY <1>4, <1>5 DEF OrderInv, PendingInv
  <2> QED BY <1>2, <1>3, <2>1, <2>2, NoInfosLeft DEF InfosInv
<1>6. CASE ~mFlush
  <2>1. codec'.infos = codec.infos /\ InfosInv
    BY <1>6 DEF Pop
  <2> QED BY <1>2, <1>3, <1>4, <2>1 DEF InfosInv
<1> QED
  BY <1>5, <1>6

\* The frames of a work are appended to the infos.
LEMMA ProcessInfos ==
    ASSUME TypeOK, OrderInv, InfosInv, EosWithData, decoder = "AAC", ~codec.mSignalledError,
           NEW frames \in FrameCounts, Process(frames, TRUE)
    PROVE  InfosInv'
<1>1. /\ cur \in CurSet /\ codec \in CodecSet
      /\ cur.pc = "popped" /\ cur.work \in Works /\ cur.work # 0 /\ cur.processed
      /\ cur'.work = cur.work /\ cur'.eos = cur.eos /\ UNCHANGED loc
  BY ProcessCur, InfoTypes DEF TypeOK
<1>2. In("pending")' = In("pending")
  BY <1>1 DEF In
<1>3. ProcessAac(frames, TRUE)
  BY DEF Process
<1>4. CASE cur.work \in CsdWorks
  <2>1. cur' = [cur EXCEPT !.pc = "tail"] /\ UNCHANGED codec
    BY <1>3, <1>4 DEF ProcessAac
  <2>2. ~cur.eos
    BY <1>1, <1>4 DEF EosWithData, OrderInv, CurInv, Active
  <2>3. ~Waits /\ ~Waits' /\ cur'.pc = "tail" /\ ~cur'.eos
    BY <1>1, <2>1, <2>2 DEF Waits, CurSet
  <2> QED BY <1>2, <2>1, <2>3 DEF InfosInv
<1>5. CASE cur.work \notin CsdWorks
  <2> DEFINE c == Decode(codec, cur.work, frames)
             e == [work |-> cur.work, frames |-> Least(frames, RingFrames - codec.ring)]
  <2>1. e \in Info /\ e.work = cur.work
    <3>1. Least(frames, RingFrames - codec.ring) \in Nat
      <4>1. frames \in Nat /\ RingFrames - codec.ring \in Nat
        BY <1>1, AudioDecoderAssumption DEF CodecSet
      <4> QED BY <4>1 DEF Least
    <3> QED BY <1>1, <3>1 DEF Info
  <2>2. c \in CodecSet /\ c.infos = Append(codec.infos, e)
    BY <1>1, AudioDecoderAssumption, DecodeType DEF Decode, CodecSet
  <2>3. Compensate(c).infos = c.infos /\ drainDecoder(c).infos = c.infos
    BY <2>2 DEF Compensate, drainDecoder, CodecSet
  <2>4. /\ codec'.infos = c.infos
        /\ \/ ~cur.eos /\ cur' = [cur EXCEPT !.pc = "tail", !.processed = FALSE]
           \/ cur' = [cur EXCEPT !.pc = "ring", !.processed = FALSE]
    BY <1>3, <1>5, <2>3 DEF ProcessAac
  <2> HIDE DEF c, e
  <2>5. ~Waits /\ Waits' /\ ~cur'.processed /\ (cur'.pc = "tail" => ~cur'.eos)
    BY <1>1, <2>4 DEF Waits, Active, CurSet
  <2>6. cur.work \notin In("pending")
    BY <1>1 DEF OrderInv, CurInv, Active, In
  <2>7. WorksOf(codec.infos) = In("pending") /\ Distinct(codec.infos)
    BY <2>5 DEF InfosInv
  <2>8. /\ WorksOf(codec'.infos) = In("pending") \cup {cur.work}
        /\ Distinct(codec'.infos) /\ codec'.infos # <<>>
        /\ codec'.infos[Len(codec'.infos)].work = cur.work
    BY <2>1, <2>2, <2>4, <2>6, <2>7, InfoTypes, LongerInfos
  <2> QED BY <1>1, <1>2, <2>5, <2>8 DEF InfosInv
<1> QED
  BY <1>4, <1>5

\* The first info is taken out, and its work given back.
LEMMA FinishInfos ==
    ASSUME TypeOK, OrderInv, InfosInv, codec.infos # <<>>,
           NEW w, w = Head(codec.infos).work, w # cur.work, finish(w),
           cur' = cur, codec'.infos = Tail(codec.infos),
           cur.pc \in {"ring", "eos"}
    PROVE  InfosInv'
<1>1. w \in Works /\ codec.infos \in Seq(Info)
  BY InfoTypes
<1>2. /\ WorksOf(codec'.infos) = WorksOf(codec.infos) \ {w} /\ w \in WorksOf(codec.infos)
      /\ Distinct(codec'.infos)
      /\ w # codec.infos[Len(codec.infos)].work
            => codec'.infos # <<>>
               /\ codec'.infos[Len(codec'.infos)] = codec.infos[Len(codec.infos)]
  BY <1>1, ShorterInfos DEF InfosInv
<1>3. Waits' = Waits
  BY DEF Waits, Active
<1>4. In("pending")' = In("pending") \ {w}
  <2>1. \A v \in Works : loc'[v] = IF v = w /\ loc[w] = "pending" THEN "done" ELSE loc[v]
    BY <1>1, QueueTypes DEF finish
  <2> QED BY <2>1 DEF In
<1>5. WorksOf(codec'.infos) = In("pending")' \cup (IF Waits' THEN {cur'.work} ELSE {})
  BY <1>2, <1>3, <1>4 DEF InfosInv
<1>6. Waits => codec'.infos # <<>> /\ codec'.infos[Len(codec'.infos)].work = cur'.work
  BY <1>2 DEF InfosInv
<1>7. ~(cur.work # 0 /\ cur.processed)
  BY DEF InfosInv
<1> QED
  BY <1>2, <1>3, <1>5, <1>6, <1>7 DEF InfosInv

LEMMA SendInfos ==
    ASSUME TypeOK, OrderInv, InfosInv, SendOutput
    PROVE  InfosInv'
<1> DEFINE w == Head(codec.infos).work
<1>1. cur \in CurSet /\ codec.infos # <<>> /\ cur.pc = "ring" /\ codec'.infos = Tail(codec.infos)
  BY InfoTypes DEF SendOutput, OutputReady, CodecSet, TypeOK
<1>2. CASE w = cur.work
  <2>1. cur' = [cur EXCEPT !.processed = TRUE] /\ UNCHANGED loc
    BY <1>2 DEF SendOutput
  <2>2. cur.work # 0 /\ Waits
    <3>1. cur.work \in Works
      BY <1>1, <1>2, InfoTypes
    <3>2. cur.work # 0
      BY <3>1, QueueTypes
    <3> QED BY <1>1, <3>2 DEF InfosInv, Waits, Active
  <2>3. w = codec.infos[Len(codec.infos)].work
    BY <1>2, <2>2 DEF InfosInv
  <2>4. codec'.infos = <<>> /\ WorksOf(codec.infos) \ {cur.work} = {}
    <3>1. Tail(codec.infos) = <<>> /\ WorksOf(Tail(codec.infos)) = WorksOf(codec.infos) \ {w}
      BY <1>1, <2>3, InfoTypes, ShorterInfos DEF InfosInv
    <3> QED BY <1>1, <1>2, <3>1, NoInfosLeft
  <2>5. cur.work \notin In("pending")
    BY <1>1 DEF OrderInv, CurInv, Active, In
  <2>6. In("pending") = {} /\ In("pending")' = In("pending")
    BY <2>1, <2>2, <2>4, <2>5 DEF InfosInv, In
  <2>7. ~Waits'
    BY <1>1, <2>1 DEF Waits, CurSet
  <2> QED BY <2>4, <2>6, <2>7, NoInfosLeft DEF InfosInv
<1>3. CASE w # cur.work
  <2>1. finish(w) /\ UNCHANGED cur
    BY <1>3 DEF SendOutput
  <2> HIDE DEF w
  <2>2. w = Head(codec.infos).work
    BY DEF w
  <2> QED BY <1>1, <1>3, <2>1, <2>2, FinishInfos
<1> QED
  BY <1>2, <1>3

LEMMA EosInfos ==
    ASSUME TypeOK, OrderInv, InfosInv, FinishWithoutOutput
    PROVE  InfosInv'
<1> DEFINE w == Head(codec.infos).work
<1>1. cur \in CurSet /\ cur.pc = "eos" /\ codec.infos \in Seq(Info) /\ Len(codec.infos) \in Nat
      /\ codec \in CodecSet
  BY InfoTypes DEF FinishWithoutOutput, TypeOK
<1>2. cur.eos /\ cur.work # 0
  <2>1. cur.eos /\ cur.work \in Works
    BY <1>1, AudioWorksAssumption DEF OrderInv, CurInv, Active
  <2> QED BY <2>1, QueueTypes
<1>3. ~Waits => codec.infos = <<>>
  BY <1>1, <1>2 DEF InfosInv, Waits, Active
<1>4. \A s \in Seq(Info) : s = <<>> <=> Len(s) = 0
  OBVIOUS
<1>5. CASE Len(codec.infos) > LastInfos
  <2>1. codec.infos # <<>> /\ finish(w) /\ UNCHANGED cur /\ codec'.infos = Tail(codec.infos)
    BY <1>1, <1>5 DEF FinishWithoutOutput, LastInfos, CodecSet
  <2>2. w # cur.work
    <3>1. Waits /\ codec.infos[Len(codec.infos)].work = cur.work
      BY <1>3, <2>1 DEF InfosInv
    <3>2. Tail(codec.infos) # <<>>
      <4>1. Tail(codec.infos) \in Seq(Info) /\ Len(Tail(codec.infos)) = Len(codec.infos) - 1
        BY <1>1, <2>1
      <4> QED BY <1>1, <1>4, <1>5, <4>1 DEF LastInfos
    <3> QED BY <1>1, <2>1, <3>1, <3>2, ShorterInfos DEF InfosInv
  <2> HIDE DEF w
  <2>3. w = Head(codec.infos).work
    BY DEF w
  <2> QED BY <1>1, <2>1, <2>2, <2>3, FinishInfos
<1>6. CASE ~(Len(codec.infos) > LastInfos)
  <2>1. /\ codec'.infos = <<>> /\ UNCHANGED loc
        /\ cur' = [cur EXCEPT !.pc = "tail", !.processed = cur.work # 0]
    BY <1>1, <1>6 DEF FinishWithoutOutput, CodecSet
  <2>2. In("pending") = {}
    <3>1. CASE Waits
      <4>1. codec.infos # <<>> /\ codec.infos[Len(codec.infos)].work = cur.work
        BY <3>1 DEF InfosInv
      <4>2. Len(codec.infos) = 1
        <5>1. Len(codec.infos) # 0
          BY <1>1, <1>4, <4>1
        <5>2. \A n \in Nat : n # 0 /\ ~(n > 1) => n = 1
          OBVIOUS
        <5>3. ~(Len(codec.infos) > 1) /\ Len(codec.infos) \in Nat
          BY <1>1, <1>6 DEF LastInfos
        <5> HIDE DEF w
        <5> QED BY <5>1, <5>2, <5>3, Zenon
      <4>3. WorksOf(codec.infos) = {cur.work}
        <5>1. WorksOf(codec.infos) = {codec.infos[i].work : i \in 1..1}
          BY <4>2 DEF WorksOf
        <5>2. \A i \in 1..1 : i = 1
          OBVIOUS
        <5>3. codec.infos[1].work = cur.work /\ 1 \in 1..1
          BY <4>1, <4>2
        <5> QED BY <5>1, <5>2, <5>3
      <4>4. cur.work \notin In("pending")
        BY <1>1 DEF OrderInv, CurInv, Active, In
      <4> QED BY <3>1, <4>3, <4>4 DEF InfosInv
    <3>2. CASE ~Waits
      BY <1>3, <3>2, NoInfosLeft DEF InfosInv
    <3> QED BY <3>1, <3>2
  <2>3. In("pending")' = {} /\ ~Waits'
    BY <1>1, <1>2, <2>1, <2>2 DEF In, Waits, CurSet
  <2> QED BY <2>1, <2>3, NoInfosLeft DEF InfosInv
<1> QED
  BY <1>5, <1>6

LEMMA EndInfos ==
    ASSUME TypeOK, OrderInv, InfosInv, EndOfProcess, ~mFlush
    PROVE  InfosInv'
<1>1. cur.pc = "tail" /\ cur' = IdleCur /\ UNCHANGED codec
      /\ loc' = IF cur.work = 0 THEN loc
                ELSE [loc EXCEPT ![cur.work] = IF Outdated THEN "notFound"
                                               ELSE IF cur.processed THEN "done" ELSE "pending"]
  BY DEF EndOfProcess, Return
<1>2. ~Outdated /\ Active
  BY <1>1 DEF OrderInv, CurInv, Active
<1>3. ~Waits' /\ cur'.pc = "idle"
  BY <1>1 DEF Waits, Active, IdleCur
<1>4. cur.work # 0 => cur.work \in Works /\ loc[cur.work] # "pending"
  BY <1>2, QueueTypes DEF OrderInv, CurInv
<1>5. \A v \in Works :
         loc'[v] = "pending" <=> loc[v] = "pending" \/ (v = cur.work /\ ~cur.processed)
  <2>1. \A v \in Works : v # 0
    BY QueueTypes
  <2> QED BY <1>1, <1>2, <1>4, <2>1, QueueTypes
<1>6. In("pending")' = In("pending") \cup (IF Waits THEN {cur.work} ELSE {})
  <2>1. \A v \in Works : v = cur.work => cur.work # 0
    BY QueueTypes
  <2> QED BY <1>2, <1>4, <1>5, <2>1 DEF In, Waits
<1> QED
  BY <1>1, <1>3, <1>6 DEF InfosInv

LEMMA NextInfos ==
    ASSUME TypeOK, UseInv, OrderInv, EosWithData, InfosHold, [Next]_vars
    PROVE  InfosHold'
<1> USE DEF queueVars, looper, clientVars
<1> SUFFICES ASSUME decoder' = "AAC", Undisturbed', ~mFlush'
             PROVE  InfosInv'
  BY DEF InfosHold
<1>1. /\ Undisturbed
      /\ ~stop /\ ~reset /\ ~StopMessage /\ ~ResetMessage /\ ~NoPool
      /\ \A frames \in FrameCounts, ok \in BOOLEAN : Process(frames, ok) => ok
  BY UndisturbedBefore
<1>2. decoder = "AAC"
  <2>1. Client \/ UNCHANGED vars => UNCHANGED decoder
    BY DEF Client, queue_nb, drain_nb, PostProcess, flush_sm, start, InitReturn, stop, reset,
       release, vars
  <2>2. Looper => UNCHANGED decoder
    BY DEF Looper, InitMessage, StartMessage, StopMessage, ResetMessage, ReleaseMessage,
       ProcessNothing, Pop, NoPool, Drain, Process, SendOutput, NoMoreOutput, FinishWithoutOutput,
       EndOfProcess
  <2> QED BY <2>1, <2>2 DEF Next
<1>3. ~mFlush => InfosInv
  BY <1>1, <1>2 DEF InfosHold
<1>4. ~codec.mSignalledError
  BY <1>1 DEF Undisturbed
<1>5. ASSUME NEW w \in Works, queue_nb(w) PROVE InfosInv'
  <2>1. loc[w] = "client" /\ loc' = [loc EXCEPT ![w] = "queue"]
        /\ codec' = codec /\ cur' = cur /\ mFlush' = mFlush
    BY <1>5 DEF queue_nb
  <2>2. \A v \in Works : loc'[v] = "pending" <=> loc[v] = "pending"
    BY <2>1, QueueTypes
  <2>3. In("pending")' = In("pending")
    BY <2>2 DEF In
  <2> QED BY <1>3, <2>1, <2>3, SameInfos
<1>6. ASSUME codec'.infos = codec.infos, cur' = cur, loc' = loc, mFlush' = mFlush
      PROVE  InfosInv'
  BY <1>3, <1>6, SameInfos DEF In
<1>7. ASSUME NEW mode \in DrainModes, drain_nb(mode) PROVE InfosInv'
  BY <1>6, <1>7 DEF drain_nb
<1>8. CASE PostProcess \/ start \/ InitReturn \/ release \/ StartMessage \/ ProcessNothing
  BY <1>6, <1>8 DEF PostProcess, start, InitReturn, release, StartMessage, ProcessNothing
<1>9. CASE flush_sm
  BY <1>9 DEF flush_sm
<1>10. CASE ReleaseMessage \/ \E ok \in BOOLEAN : InitMessage(ok)
  BY <1>2, <1>6, <1>10 DEF ReleaseMessage, Released, InitMessage, Initialized
<1>11. CASE Pop
  BY <1>2, <1>3, <1>11, PopInfos
<1>12. CASE Drain
  <2>1. /\ cur' = [cur EXCEPT !.pc = "ring"] /\ codec'.infos = codec.infos /\ UNCHANGED loc
        /\ cur.work = 0 /\ cur \in CurSet /\ mFlush' = mFlush
    BY <1>2, <1>12 DEF Drain, drainDecoder, TypeOK, CodecSet
  <2>2. ~Waits /\ ~Waits' /\ cur'.work = 0 /\ cur'.pc = "ring"
    BY <2>1 DEF Waits, CurSet
  <2>3. In("pending")' = In("pending")
    BY <2>1 DEF In
  <2> QED BY <1>3, <2>1, <2>2, <2>3 DEF InfosInv
<1>13. ASSUME NEW frames \in FrameCounts, NEW ok \in BOOLEAN, Process(frames, ok) PROVE InfosInv'
  <2>1. Process(frames, TRUE) /\ mFlush' = mFlush
    <3>1. ok = TRUE
      BY <1>1, <1>13
    <3> QED BY <1>13, <3>1 DEF Process
  <2> QED BY <1>2, <1>3, <1>4, <2>1, ProcessInfos
<1>14. CASE SendOutput
  BY <1>3, <1>14, SendInfos DEF SendOutput
<1>15. CASE NoMoreOutput
  <2>1. /\ cur' = [cur EXCEPT !.pc = IF cur.eos THEN "eos" ELSE "tail"] /\ codec' = codec
        /\ UNCHANGED loc /\ cur.pc = "ring" /\ cur \in CurSet /\ mFlush' = mFlush
    BY <1>15 DEF NoMoreOutput, TypeOK
  <2>2. /\ Waits' = Waits /\ cur'.work = cur.work /\ cur'.processed = cur.processed
        /\ cur'.eos = cur.eos /\ (cur'.pc = "tail" => ~cur.eos)
    BY <2>1 DEF Waits, Active, CurSet
  <2>3. In("pending")' = In("pending")
    BY <2>1 DEF In
  <2> QED BY <1>3, <2>1, <2>2, <2>3 DEF InfosInv
<1>16. CASE FinishWithoutOutput
  BY <1>3, <1>16, EosInfos DEF FinishWithoutOutput
<1>17. CASE EndOfProcess
  BY <1>3, <1>17, EndInfos DEF EndOfProcess
<1>18. CASE UNCHANGED vars
  BY <1>6, <1>18 DEF vars
<1> QED
  BY <1>1, <1>5, <1>7, <1>8, <1>9, <1>10, <1>11, <1>12, <1>13, <1>14, <1>15, <1>16, <1>17, <1>18
  DEF Next, Client, Looper

\* Only queue_nb() brings a work into the component.
LEMMA HeldBefore ==
    ASSUME TypeOK, OrderInv, [Next]_vars, NEW w \in Works, loc'[w] \in Held
    PROVE  loc[w] \in Held \cup {"client"}
<1> USE DEF queueVars, looper, clientVars
<1>0. loc \in [Works -> Loc]
  BY QueueTypes
<1>1. CASE loc' = loc
  BY <1>1
<1>2. ASSUME NEW v \in Works, queue_nb(v) PROVE loc[w] \in Held \cup {"client"}
  BY <1>0, <1>2 DEF queue_nb, Held
<1>3. CASE flush_sm \/ stop \/ reset
  BY <1>3 DEF flush_sm, stop, reset, ClearWorks, Moved, In, Held
<1>4. CASE Pop
  <2>1. PICK e \in Entry : e = Head(mQueue)
    BY <1>4, ShorterQueue, QueueTypes DEF Pop
  <2>2. loc' = IF e.work = 0 THEN loc ELSE [loc EXCEPT ![e.work] = "processing"]
    BY <1>4, <2>1 DEF Pop
  <2>3. e.work \in WorksOf(mQueue)
    BY <1>4, <2>1, ShorterQueue, QueueTypes DEF Pop
  <2>4. CASE w = e.work
    BY <2>3, <2>4 DEF OrderInv, QueueOrder, Held
  <2> QED BY <1>0, <2>2, <2>4
<1>5. CASE NoPool \/ EndOfProcess
  <2>1. Active /\ (loc'[w] = loc[w] \/ w = cur.work)
    BY <1>0, <1>5 DEF NoPool, EndOfProcess, Active
  <2>2. w = cur.work => loc[w] = "processing"
    BY <2>1 DEF OrderInv, CurInv
  <2> QED BY <2>1, <2>2 DEF Held
<1>6. CASE SendOutput \/ FinishWithoutOutput
  <2>1. loc' = loc \/ \E v : finish(v)
    BY <1>6 DEF SendOutput, FinishWithoutOutput
  <2>2. \A v : finish(v) => loc'[w] = loc[w] \/ loc'[w] = "done"
    BY <1>0 DEF finish
  <2> QED BY <2>1, <2>2 DEF Held
<1>7. ASSUME NEW mode \in DrainModes, drain_nb(mode) PROVE loc' = loc
  BY <1>7 DEF drain_nb
<1>8. PostProcess \/ start \/ InitReturn \/ release \/ UNCHANGED vars => loc' = loc
  BY DEF PostProcess, start, InitReturn, release, vars
<1>9. StartMessage \/ StopMessage \/ ResetMessage \/ ReleaseMessage \/ ProcessNothing \/ Drain
      \/ NoMoreOutput => loc' = loc
  BY DEF StartMessage, StopMessage, ResetMessage, ReleaseMessage, ProcessNothing, Drain, NoMoreOutput
<1>10. (\E ok \in BOOLEAN : InitMessage(ok)) => loc' = loc
  BY DEF InitMessage
<1>11. (\E frames \in FrameCounts, ok \in BOOLEAN : Process(frames, ok)) => loc' = loc
  BY DEF Process
<1> QED
  BY <1>1, <1>2, <1>3, <1>4, <1>5, <1>6, <1>7, <1>8, <1>9, <1>10, <1>11 DEF Next, Client, Looper

\* A work with EOS is reported at the end of its own processQueue().
LEMMA NewlyDone ==
    ASSUME TypeOK, OrderInv, [Next]_vars, NEW e \in EosWorks, loc'[e] = "done", loc[e] # "done"
    PROVE  EndOfProcess /\ cur.work = e /\ ~Outdated /\ cur.processed
<1> USE DEF queueVars, looper, clientVars
<1>0. loc \in [Works -> Loc] /\ e \in Works
  BY QueueTypes, AudioWorksAssumption
<1>1. ASSUME NEW v \in Works, queue_nb(v) PROVE FALSE
  BY <1>0, <1>1 DEF queue_nb
<1>2. CASE flush_sm \/ stop \/ reset
  BY <1>0, <1>2 DEF flush_sm, stop, reset, ClearWorks, Moved
<1>3. ~Pop /\ ~NoPool
  BY <1>0 DEF Pop, NoPool
<1>4. ~SendOutput /\ ~FinishWithoutOutput
  <2>1. SendOutput \/ FinishWithoutOutput => loc' = loc \/ \E v : finish(v)
    BY DEF SendOutput, FinishWithoutOutput
  <2>2. ASSUME NEW v, finish(v) PROVE loc'[e] = loc[e]
    BY <1>0, <2>2 DEF finish, OrderInv, PendingInv
  <2> QED BY <2>1, <2>2
<1>5. CASE EndOfProcess
  <2>1. loc' = IF cur.work = 0 THEN loc
               ELSE [loc EXCEPT ![cur.work] = IF Outdated THEN "notFound"
                                              ELSE IF cur.processed THEN "done" ELSE "pending"]
    BY <1>5 DEF EndOfProcess
  <2> QED BY <1>0, <1>5, <2>1
<1>6. ASSUME NEW mode \in DrainModes, drain_nb(mode) PROVE loc' = loc
  BY <1>6 DEF drain_nb
<1>7. PostProcess \/ start \/ InitReturn \/ release \/ UNCHANGED vars => loc' = loc
  BY DEF PostProcess, start, InitReturn, release, vars
<1>8. StartMessage \/ StopMessage \/ ResetMessage \/ ReleaseMessage \/ ProcessNothing \/ Drain
      \/ NoMoreOutput => loc' = loc
  BY DEF StartMessage, StopMessage, ResetMessage, ReleaseMessage, ProcessNothing, Drain, NoMoreOutput
<1>9. (\E ok \in BOOLEAN : InitMessage(ok)) => loc' = loc
  BY DEF InitMessage
<1>10. (\E frames \in FrameCounts, ok \in BOOLEAN : Process(frames, ok)) => loc' = loc
  BY DEF Process
<1> QED
  BY <1>1, <1>2, <1>3, <1>4, <1>5, <1>6, <1>7, <1>8, <1>9, <1>10 DEF Next, Client, Looper

LEMMA NextReported ==
    ASSUME TypeOK, UseInv, OrderInv, InfosHold, EosReportedLast, [Next]_vars
    PROVE  EosReportedLast'
<1> SUFFICES ASSUME Undisturbed', NEW e \in EosWorks, loc'[e] = "done", NEW w \in 1..e
             PROVE  loc'[w] \notin Held
  BY DEF EosReportedLast
<1>0. e \in Works /\ w \in Works /\ w \in Nat /\ (w = e \/ w < e)
  BY AudioWorksAssumption DEF Works
<1>1. Undisturbed
  BY UndisturbedBefore
<1>2. CASE loc[e] = "done"
  <2>1. loc[w] \notin Held
    BY <1>1, <1>2 DEF EosReportedLast
  <2>2. loc[w] # "client"
    BY <1>0, <1>2 DEF OrderInv, ClientLast
  <2> QED BY <1>0, <2>1, <2>2, HeldBefore
<1>3. CASE loc[e] # "done"
  <2>1. EndOfProcess /\ cur.work = e /\ ~Outdated /\ cur.processed
    BY <1>3, NewlyDone
  <2>2. Active /\ cur.pc = "tail" /\ cur.work # 0 /\ loc' = [loc EXCEPT ![e] = "done"]
    BY <1>0, <2>1, QueueTypes DEF EndOfProcess, Active
  <2>3. cur.eos /\ ~mFlush
    BY <2>1, <2>2 DEF OrderInv, CurInv
  <2>4. In("pending") = {}
    <3>1. CASE decoder = "AAC"
      <4>1. InfosInv /\ ~Waits
        BY <1>1, <2>1, <2>3, <3>1 DEF InfosHold, Waits
      <4>2. codec.infos = <<>>
        BY <2>2, <2>3, <4>1 DEF InfosInv
      <4> QED BY <4>1, <4>2, NoInfosLeft DEF InfosInv
    <3>2. CASE decoder # "AAC"
      BY <3>2 DEF OrderInv, PendingInv
    <3> QED BY <3>1, <3>2
  <2>5. CASE w = e
    BY <1>0, <2>2, <2>5, QueueTypes DEF Held
  <2>6. CASE w < e
    <3>1. loc'[w] = loc[w]
      BY <1>0, <2>2, <2>6, QueueTypes
    <3>2. loc[w] # "queue"
      BY <1>0, <2>1, <2>2, <2>6, QueueTypes DEF OrderInv, CurInv
    <3>3. loc[w] # "processing"
      BY <1>0, <2>1, <2>6, QueueTypes DEF OrderInv, CurInv
    <3>4. loc[w] # "pending"
      BY <1>0, <2>4 DEF In
    <3> QED BY <3>1, <3>2, <3>3, <3>4 DEF Held
  <2> QED BY <1>0, <2>5, <2>6
<1> QED
  BY <1>2, <1>3

LEMMA InitInfos ==
    ASSUME Init
    PROVE  InfosHold /\ EosReportedLast
<1>1. cur.pc = "idle" /\ \A w \in Works : loc[w] = "client"
  BY DEF Init, IdleCur
<1>2. decoder = "AAC" => codec.infos = <<>>
  BY DEF Init, Constructed, NewCodec
<1>3. InfosHold
  BY <1>1, <1>2, NoInfosLeft DEF InfosHold, InfosInv, In, Waits, Active
<1> QED
  BY <1>1, <1>3, AudioWorksAssumption DEF EosReportedLast

LEMMA OrderCorrect ==
    ASSUME EosWithData
    PROVE  Spec => [](TypeOK /\ UseInv /\ OrderInv /\ InfosHold /\ EosReportedLast)
<1> DEFINE Inv == TypeOK /\ UseInv /\ OrderInv /\ InfosHold /\ EosReportedLast
<1>1. Init => Inv
  BY InitType, InitUse, InitOrder, InitInfos
<1>2. Inv /\ [Next]_vars => Inv'
  BY NextType, NextUse, StutterUse, NextOrder, NextInfos, NextReported
<1> QED
  BY <1>1, <1>2, PTL DEF Spec

\* The works the AAC decoder still has output for are the ones the framework keeps as
\* pending, whenever the looper is between two messages, no flush is on its way and
\* nothing failed: no pending work is forgotten, and none is finished twice.
THEOREM InfosMatchCorrect ==
    ASSUME EosWithData
    PROVE  Spec => []InfosMatchPending
<1>1. TypeOK /\ InfosHold => InfosMatchPending
  <2> SUFFICES ASSUME TypeOK, InfosHold, decoder = "AAC", Undisturbed, ~mFlush, cur.pc = "idle"
               PROVE  WorksOf(codec.infos) = In("pending")
    BY DEF InfosMatchPending, WorksOf
  <2> QED BY DEF InfosHold, InfosInv, Waits, Active
<1> QED
  BY <1>1, OrderCorrect, PTL

\* The work with EOS is reported after every work queued before it has left the
\* component, for each of the decoders, whatever is flushed in between.
THEOREM EosReportedLastCorrect ==
    ASSUME EosWithData
    PROVE  Spec => []EosReportedLast
  BY OrderCorrect, PTL
=============================================================================
