---------------------- MODULE SoftVdecComponentProofs ---------------------
(***************************************************************************)
(* Proofs about SoftVdecComponent, for either decoder, any number of works *)
(* and any number of calls and failures.                                   *)
(*                                                                         *)
(* Types; that a picture is given to the work it was decoded from (by      *)
(* StrayInv: the list of the decoder and the frames in the library are the *)
(* same works, but for what strayed tells apart); and that the end of the  *)
(* stream is reported last (OrderInv for every session, ReportInv as long  *)
(* as nothing disturbs it).                                                *)
(***************************************************************************)
EXTENDS SoftVdecComponent, TLAPS

(* Types.                                                                    *)

Message == {"process", "init", "start", "stop", "reset", "release"}
Entry == {0} \cup Works

\* What is known of the places a work may be at.
LEMMA PlaceNames ==
    /\ Held \subseteq Loc /\ Returned \subseteq Loc
    /\ {"client", "queue", "processing", "pending", "done", "notFound", "flushed", "destroyed"}
          \subseteq Loc
  BY DEF Held, Returned, Loc

LEMMA MovedType ==
    ASSUME loc \in [Works -> Loc], NEW S, NEW place \in Loc
    PROVE  Moved(S, place) \in [Works -> Loc]
  BY DEF Moved

\* A message taken or posted leaves a list of messages, and a call that is counted its
\* count.
LEMMA TakeType ==
    ASSUME TypeOK, NEW m, Take(m)
    PROVE  msgs \in Seq(Message) /\ msgs # <<>> /\ msgs' = Tail(msgs) /\ msgs' \in Seq(Message)
           /\ cur.pc = "idle" /\ m = Head(msgs)
  BY DEF Take, TypeOK, Message

LEMMA PostType ==
    ASSUME TypeOK, NEW m \in Message, Post(m)
    PROVE  msgs' \in Seq(Message)
  BY DEF Post, TypeOK, Message

LEMMA CountedType ==
    ASSUME TypeOK, NEW c \in Call, Counted(c)
    PROVE  calls' \in [Call -> Nat] /\ seen' \subseteq Call
  BY DEF Counted, TypeOK

LEMMA ReturnType ==
    ASSUME TypeOK, Return
    PROVE  msgs' \in Seq(Message) /\ cur' = IdleCur /\ cur' \in CurSet /\ cur'.pc = "idle"
  BY DEF Return, IdleCur, CurSet, Message, TypeOK

\* No works are a list of works.
LEMMA NoWorks == <<>> \in Seq(Works) /\ Len(<<>>) = 0
  OBVIOUS

\* The initial states.
LEMMA InitType == Init => TypeOK
<1> SUFFICES ASSUME Init PROVE TypeOK
  OBVIOUS
<1>1. codec \in CodecSet /\ Len(codec.indexes) <= MaxPending
  BY NoWorks, DelayAssumption DEF Init, NewCodec, CodecSet
<1>2. cur \in CurSet /\ cur.pc = "idle"
  BY DEF Init, IdleCur, CurSet
<1>3. library \in [frames : Seq(Works), delay : Delays]
  BY NoWorks DEF Init
<1>4. loc \in [Works -> Loc] /\ picture \in [Works -> {0} \cup Works]
  BY PlaceNames DEF Init
<1>5. calls \in [Call -> Nat] /\ seen \subseteq Call
  BY CallsAssumption DEF Init
<1>6. msgs \in Seq(Message) /\ mQueue \in Seq(Entry)
  BY DEF Init
<1> QED
  BY <1>1, <1>2, <1>3, <1>4, <1>5, <1>6 DEF Message, Entry, Init, TypeOK

\* The client's calls keep the types.
LEMMA ClientTypes ==
    ASSUME TypeOK, Client
    PROVE  TypeOK'
<1> USE DEF queueVars, looper, decoderVars, counts
<1>0. loc \in [Works -> Loc] /\ mQueue \in Seq(Entry) /\ mGeneration \in Nat
  BY DEF TypeOK, Entry
<1>q. \A e \in Entry : Enqueue(e) => mQueue' \in Seq(Entry) /\ feeder' \in {"idle", "post"}
  BY <1>0 DEF Enqueue
<1>m. ASSUME NEW place \in Loc, NEW S, loc' = Moved(S, place) PROVE loc' \in [Works -> Loc]
  BY <1>0, <1>m, MovedType
<1>1. ASSUME NEW w \in Works, queue_nb(w) PROVE TypeOK'
  <2>1. loc' \in [Works -> Loc]
    BY <1>0, <1>1, PlaceNames DEF queue_nb
  <2>2. mQueue' \in Seq(Entry) /\ feeder' \in {"idle", "post"}
    BY <1>1, <1>q DEF queue_nb, Entry
  <2> QED BY <1>1, <2>1, <2>2 DEF queue_nb, TypeOK, Entry
<1>2. CASE drain_nb
  <2>1. calls' \in [Call -> Nat] /\ seen' \subseteq Call
    BY <1>2, CountedType DEF drain_nb, Call
  <2>2. mQueue' \in Seq(Entry) /\ feeder' \in {"idle", "post"}
    BY <1>2, <1>q DEF drain_nb, Entry
  <2> QED BY <1>2, <2>1, <2>2 DEF drain_nb, TypeOK, Entry
<1>3. CASE PostProcess
  <2>1. msgs' \in Seq(Message)
    BY <1>3, PostType DEF PostProcess, Message
  <2> QED BY <1>3, <2>1 DEF PostProcess, TypeOK, Message
<1>4. CASE flush_sm
  <2>1. calls' \in [Call -> Nat] /\ seen' \subseteq Call
    BY <1>4, CountedType DEF flush_sm, Call
  <2>2. loc' \in [Works -> Loc]
    BY <1>4, <1>m, PlaceNames DEF flush_sm
  <2>3. mQueue' \in Seq(Entry) /\ mGeneration' \in Nat
    BY <1>0, <1>4 DEF flush_sm
  <2> QED BY <1>4, <2>1, <2>2, <2>3 DEF flush_sm, TypeOK, Entry
<1>5. CASE FlushReturn
  BY <1>5 DEF FlushReturn, TypeOK
<1>6. CASE start
  <2>1. calls' \in [Call -> Nat] /\ seen' \subseteq Call
    BY <1>6, CountedType DEF start, Call
  <2>2. msgs' \in Seq(Message)
    BY <1>6, PostType DEF start, Message
  <2> QED BY <1>6, <2>1, <2>2 DEF start, TypeOK, Message
<1>7. CASE InitReturn
  BY <1>7 DEF InitReturn, TypeOK
<1>8. ASSUME NEW c \in {"stop", "reset"}, NEW s \in {"STOPPED", "UNINITIALIZED"}, Clear(c, c, s)
      PROVE TypeOK'
  <2>1. calls' \in [Call -> Nat] /\ seen' \subseteq Call
    BY <1>8, CountedType DEF Clear, Call
  <2>2. loc' \in [Works -> Loc]
    BY <1>8, <1>m, PlaceNames DEF Clear
  <2>3. msgs' \in Seq(Message)
    BY <1>8, PostType DEF Clear, Message
  <2>4. mQueue' \in Seq(Entry)
    BY <1>0, <1>8 DEF Clear
  <2> QED BY <1>8, <2>1, <2>2, <2>3, <2>4 DEF Clear, TypeOK, Entry, Message
<1>9. CASE release
  <2>1. msgs' \in Seq(Message)
    BY <1>9, PostType DEF release, Message
  <2> QED BY <1>9, <2>1 DEF release, TypeOK, Message
<1> QED
  BY <1>1, <1>2, <1>3, <1>4, <1>5, <1>6, <1>7, <1>8, <1>9 DEF Client, stop, reset

\* What a decoder is left as, by what the looper asks of it.
LEMMA FieldTypes ==
    ASSUME TypeOK
    PROVE  /\ [codec EXCEPT !.mSignalledError = FALSE] \in CodecSet
           /\ [codec EXCEPT !.mSignalledError = TRUE] \in CodecSet
           /\ [codec EXCEPT !.mSignalledOutputEos = TRUE] \in CodecSet
           /\ [library EXCEPT !.frames = <<>>] \in [frames : Seq(Works), delay : Delays]
  BY NoWorks DEF TypeOK, CodecSet

LEMMA ResetTypes ==
    ASSUME TypeOK, NEW c \in CodecSet, resetDecoder(c)
    PROVE  /\ codec' \in CodecSet /\ codec'.indexes = c.indexes
           /\ codec'.mFirstPictureReviced = c.mFirstPictureReviced
           /\ codec'.mPic = c.mPic /\ ~codec'.mSignalledError /\ ~codec'.mSignalledOutputEos
           /\ library' \in [frames : Seq(Works), delay : Delays]
           /\ library'.frames = <<>> /\ library'.delay = library.delay
  BY NoWorks DEF TypeOK, CodecSet, resetDecoder

LEMMA FlushTypes ==
    ASSUME TypeOK, onFlush_sm
    PROVE  /\ codec' \in CodecSet /\ codec'.indexes = <<>> /\ ~codec'.mFirstPictureReviced
           /\ codec'.mPic = codec.mPic /\ ~codec'.mSignalledError /\ ~codec'.mSignalledOutputEos
           /\ library' \in [frames : Seq(Works), delay : Delays]
           /\ library'.frames = <<>> /\ library'.delay = library.delay
           /\ Len(codec'.indexes) <= MaxPending
<1>1. [codec EXCEPT !.indexes = <<>>, !.mFirstPictureReviced = FALSE] \in CodecSet
  BY NoWorks DEF TypeOK, CodecSet
<1>2. Len(<<>>) <= MaxPending
  BY DelayAssumption
<1> QED
  BY <1>1, <1>2, ResetTypes DEF onFlush_sm, CodecSet, TypeOK

\* The messages other than kWhatProcess.
LEMMA MessageTypes ==
    ASSUME TypeOK, \/ \E ok \in BOOLEAN : InitMessage(ok)
                   \/ StartMessage \/ StopMessage \/ ResetMessage \/ ReleaseMessage
    PROVE  TypeOK'
<1> USE DEF queueVars, looper, decoderVars, counts, clientVars
<1>1. ASSUME NEW ok \in BOOLEAN, InitMessage(ok) PROVE TypeOK'
  <2>1. calls' \in [Call -> Nat] /\ seen' \subseteq Call
    BY <1>1, CountedType DEF InitMessage, Call, TypeOK
  <2>2. msgs' \in Seq(Message)
    BY <1>1, TakeType DEF InitMessage
  <2>3. codec' \in CodecSet /\ codec'.indexes = codec.indexes
    BY <1>1, FieldTypes DEF InitMessage, TypeOK, CodecSet
  <2> QED BY <1>1, <2>1, <2>2, <2>3 DEF InitMessage, TypeOK, Message
<1>2. CASE StartMessage
  <2>1. msgs' \in Seq(Message)
    BY <1>2, TakeType DEF StartMessage
  <2> QED BY <1>2, <2>1 DEF StartMessage, TypeOK, Message
<1>3. CASE StopMessage \/ ResetMessage
  <2>1. msgs' \in Seq(Message)
    BY <1>3, TakeType DEF StopMessage, ResetMessage
  <2>2. /\ codec' \in CodecSet /\ codec'.indexes = codec.indexes
        /\ library' \in [frames : Seq(Works), delay : Delays]
    BY <1>3, ResetTypes DEF StopMessage, ResetMessage, onStop, TypeOK
  <2>3. strayed' \in BOOLEAN
    BY <1>3 DEF StopMessage, ResetMessage, onStop, TypeOK
  <2> QED BY <1>3, <2>1, <2>2, <2>3 DEF StopMessage, ResetMessage, TypeOK, Message
<1>4. CASE ReleaseMessage
  <2>1. msgs' \in Seq(Message)
    BY <1>4, TakeType DEF ReleaseMessage
  <2>2. library' \in [frames : Seq(Works), delay : Delays]
    BY <1>4, FieldTypes DEF ReleaseMessage
  <2> QED BY <1>4, <2>1, <2>2 DEF ReleaseMessage, TypeOK, Message
<1> QED
  BY <1>1, <1>2, <1>3, <1>4

\* An entry that leaves the queue.
LEMMA PopTypes ==
    ASSUME TypeOK, Pop
    PROVE  TypeOK' /\ Head(mQueue) \in Entry /\ Tail(mQueue) \in Seq(Entry)
<1>1. mQueue \in Seq(Entry) /\ mQueue # <<>>
  BY DEF Pop, TypeOK, Entry
<1>2. Head(mQueue) \in Entry /\ Tail(mQueue) \in Seq(Entry)
  BY <1>1
<1>3. PICK e \in Entry : e = Head(mQueue)
  BY <1>2
<1>4. PICK q \in Seq(Entry) : q = Tail(mQueue)
  BY <1>2
<1>5. cur' = [IdleCur EXCEPT !.pc = "popped", !.work = e, !.generation = mGeneration,
                             !.hasQueuedWork = q # <<>>]
  BY <1>3, <1>4 DEF Pop
<1>6. cur' \in CurSet /\ cur'.pc = "popped"
  BY <1>5 DEF IdleCur, CurSet, TypeOK, Entry
<1>7. loc' \in [Works -> Loc]
  BY <1>3, PlaceNames DEF Pop, TypeOK
<1>8. /\ codec' \in CodecSet /\ Len(codec'.indexes) <= MaxPending
      /\ library' \in [frames : Seq(Works), delay : Delays]
  BY FlushTypes DEF Pop, TypeOK
<1>9. msgs' \in Seq(Message) /\ mQueue' \in Seq(Entry) /\ mFlush' = FALSE
  BY <1>2, TakeType DEF Pop
<1>10. /\ UNCHANGED <<mRunning, mGeneration, pool, picture, strayed, mState, feeder, ended, ctl,
                      calls, seen>>
  BY DEF Pop, clientVars, counts
<1> QED
  BY <1>2, <1>6, <1>7, <1>8, <1>9, <1>10 DEF TypeOK, Message, Entry

\* The works that wait for a picture, and what a round of the loop makes of the lists.
LEMMA WaitingType ==
    ASSUME TypeOK, cur.pc = "loop"
    PROVE  /\ Waiting \in Seq(Works) /\ Waiting # <<>>
           /\ Head(Waiting) \in Works /\ Tail(Waiting) \in Seq(Works)
           /\ Len(Tail(Waiting)) <= MaxPending
           /\ cur.work \in Works
<1>1. cur.work \in Works /\ codec.indexes \in Seq(Works) /\ Len(codec.indexes) <= MaxPending
      /\ MaxPending \in Nat /\ cur.flushPendingWork \in BOOLEAN
  BY DelayAssumption DEF TypeOK, CurSet, CodecSet
<1>2. CASE cur.flushPendingWork
  <2>1. codec.indexes # <<>>
    BY <1>2 DEF TypeOK
  <2>2. Len(Tail(codec.indexes)) <= MaxPending
    BY <1>1, <2>1
  <2> QED BY <1>1, <1>2, <2>1, <2>2 DEF Waiting
<1>3. CASE ~cur.flushPendingWork
  <2>1. Append(codec.indexes, cur.work) \in Seq(Works) /\ Append(codec.indexes, cur.work) # <<>>
    BY <1>1
  <2>2. Len(Tail(Append(codec.indexes, cur.work))) = Len(codec.indexes)
    BY <1>1, <2>1
  <2> QED BY <1>1, <1>3, <2>1, <2>2 DEF Waiting
<1> QED
  BY <1>1, <1>2, <1>3

LEMMA DecodedType ==
    ASSUME TypeOK, cur.pc = "loop", NEW corrupt \in BOOLEAN
    PROVE  Decoded(corrupt) \in Seq(Works)
  BY WaitingType DEF Decoded, TypeOK

LEMMA PictureTypes ==
    ASSUME TypeOK, cur.pc = "loop", NEW p \in Works, Picture(p)
    PROVE  /\ picture' \in [Works -> {0} \cup Works] /\ loc' \in [Works -> Loc]
           /\ codec' \in CodecSet /\ codec'.indexes = Tail(Waiting) /\ codec'.mPic = 0
           /\ codec'.mFirstPictureReviced /\ codec'.mSignalledError = codec.mSignalledError
           /\ codec'.mSignalledOutputEos = (Ends /\ ~GoesOn)
           /\ cur' \in CurSet /\ cur'.work = cur.work /\ cur'.pc \in {"loop", "tail"}
           /\ Len(codec'.indexes) <= MaxPending
           /\ cur'.pc = "loop" => cur' = cur /\ codec'.indexes # <<>>
<1>1. PICK t \in Works : t = Head(Waiting)
  BY WaitingType
<1>2. PICK s \in Seq(Works) : s = Tail(Waiting)
  BY WaitingType
<1>3. loc' \in [Works -> Loc] /\ picture' \in [Works -> {0} \cup Works]
  BY <1>1, PlaceNames DEF Picture, TypeOK
<1>4. PICK eos \in BOOLEAN : eos = (Ends /\ ~GoesOn)
  BY DEF Ends, GoesOn
<1>5. codec' = [codec EXCEPT !.mFirstPictureReviced = TRUE, !.mPic = 0, !.indexes = s,
                             !.mSignalledOutputEos = eos]
  BY <1>2, <1>4 DEF Picture
<1>6. /\ codec' \in CodecSet /\ codec'.indexes = s /\ codec'.mPic = 0
      /\ codec'.mFirstPictureReviced /\ codec'.mSignalledError = codec.mSignalledError
      /\ codec'.mSignalledOutputEos = eos
  BY <1>5 DEF TypeOK, CodecSet
<1>7. /\ cur' \in CurSet /\ cur'.work = cur.work /\ cur'.pc \in {"loop", "tail"}
      /\ cur'.pc = "loop" => cur' = cur /\ GoesOn
  <2>1. PICK r \in BOOLEAN : r = (Ends \/ Head(Waiting) = cur.work)
    BY DEF Ends
  <2>2. (cur' = cur /\ GoesOn) \/ cur' = [cur EXCEPT !.pc = "tail", !.processed = r]
    BY <2>1 DEF Picture, Processed
  <2> QED BY <2>2 DEF TypeOK, CurSet
<1> QED
  BY <1>2, <1>3, <1>4, <1>6, <1>7, WaitingType DEF GoesOn

LEMMA NoPictureTypes ==
    ASSUME TypeOK, cur.pc = "loop", NEW corrupt \in BOOLEAN, NoPicture(corrupt)
    PROVE  /\ codec' \in CodecSet /\ Len(codec'.indexes) <= MaxPending
           /\ cur' \in CurSet /\ cur'.work = cur.work /\ cur'.pc = "tail"
           /\ strayed' \in BOOLEAN
           /\ UNCHANGED <<loc, picture>>
<1>1. cur.work \in Works /\ codec.indexes \in Seq(Works) /\ Len(codec.indexes) <= MaxPending
      /\ MaxPending \in Nat
  BY DelayAssumption DEF TypeOK, CurSet, CodecSet
<1>2. [codec EXCEPT !.mSignalledOutputEos = TRUE] \in CodecSet
  BY FieldTypes
<1>3. [codec EXCEPT !.indexes = Append(@, cur.work)] \in CodecSet
  <2>0. Append(codec.indexes, cur.work) \in Seq(Works)
    BY <1>1
  <2>1. PICK s \in Seq(Works) : s = Append(codec.indexes, cur.work)
    BY <2>0
  <2>2. [codec EXCEPT !.indexes = s] \in CodecSet
    BY DEF TypeOK, CodecSet
  <2> QED BY <2>1, <2>2
<1>4. Room => Len(Append(codec.indexes, cur.work)) <= MaxPending
  BY <1>1 DEF Room
<1>5. codec' \in CodecSet /\ Len(codec'.indexes) <= MaxPending
  <2>1. CASE codec' = [codec EXCEPT !.mSignalledOutputEos = TRUE]
    BY <1>1, <1>2, <2>1 DEF TypeOK, CodecSet
  <2>2. CASE codec' = [codec EXCEPT !.indexes = Append(@, cur.work)] /\ Room
    BY <1>1, <1>3, <1>4, <2>2 DEF TypeOK, CodecSet
  <2>3. CASE codec' = codec
    BY <1>1, <2>3 DEF TypeOK
  <2> QED BY <2>1, <2>2, <2>3 DEF NoPicture
<1>6. cur' \in CurSet /\ cur'.work = cur.work /\ cur'.pc = "tail"
  <2>1. PICK p \in BOOLEAN : cur' = [cur EXCEPT !.pc = "tail", !.processed = p]
    BY DEF NoPicture, Processed
  <2> QED BY <2>1 DEF TypeOK, CurSet
<1>7. strayed' \in BOOLEAN /\ UNCHANGED <<loc, picture>>
  BY DEF NoPicture, TypeOK
<1> QED
  BY <1>5, <1>6, <1>7

\* A round of the loop: a picture left behind, the next picture, or none.
Left == codec.mPic # 0 /\ Picture(codec.mPic) /\ UNCHANGED library
NextPicture(frames) == Picture(Head(frames)) /\ library' = [library EXCEPT !.frames = Tail(frames)]
NoNext(frames, corrupt) == NoPicture(corrupt) /\ library' = [library EXCEPT !.frames = frames]

LEMMA RoundCases ==
    ASSUME TypeOK, NEW corrupt \in BOOLEAN, Decode(corrupt)
    PROVE  /\ cur.pc = "loop"
           /\ \/ Left
              \/ codec.mPic = 0 /\ ~corrupt /\ HasPicture(Decoded(corrupt)) /\ NextPicture(Decoded(corrupt))
              \/ codec.mPic = 0 /\ (corrupt \/ ~HasPicture(Decoded(corrupt)))
                 /\ NoNext(Decoded(corrupt), corrupt)
  BY DEF Decode, Left, NextPicture, NoNext

LEMMA PictureFrames ==
    ASSUME TypeOK, NEW frames \in Seq(Works), HasPicture(frames)
    PROVE  frames # <<>> /\ Head(frames) \in Works /\ Tail(frames) \in Seq(Works)
<1>1. library.delay \in Nat
  <2>1. library.delay \in Delays
    BY DEF TypeOK
  <2>2. \A d \in Delays : d \in Nat
    BY DelayAssumption
  <2> QED BY <2>1, <2>2
<1>2. frames # <<>>
  BY <1>1 DEF HasPicture
<1> QED
  BY <1>2

LEMMA DecodeTypes ==
    ASSUME TypeOK, NEW corrupt \in BOOLEAN, Decode(corrupt)
    PROVE  TypeOK'
<1> USE DEF counts
<1>1. calls' \in [Call -> Nat] /\ seen' \subseteq Call
  BY CountedType DEF Decode, Call, TypeOK
<1>2. PICK frames \in Seq(Works) : frames = Decoded(corrupt)
  BY DecodedType, RoundCases
<1>3. cur.pc = "loop"
  BY RoundCases
<1>4. UNCHANGED <<msgs, mQueue, mFlush, mGeneration, mRunning, pool, mState, feeder, ended, ctl>>
  BY DEF Decode
<1>5. ASSUME NEW p \in Works, Picture(p), library' \in [frames : Seq(Works), delay : Delays]
      PROVE  TypeOK'
  <2>1. cur'.work # 0 /\ strayed' = strayed
    BY <1>3, <1>5, PictureTypes, WaitingType DEF Picture, Works
  <2> QED BY <1>1, <1>3, <1>4, <1>5, <2>1, PictureTypes DEF TypeOK
<1>6. CASE Left
  <2>1. codec.mPic \in Works
    BY <1>6 DEF Left, TypeOK, CodecSet
  <2> QED BY <1>5, <1>6, <2>1 DEF Left, TypeOK
<1>7. CASE HasPicture(frames) /\ NextPicture(frames)
  <2>1. Head(frames) \in Works /\ Tail(frames) \in Seq(Works)
    BY <1>7, PictureFrames
  <2>2. [library EXCEPT !.frames = Tail(frames)] \in [frames : Seq(Works), delay : Delays]
    BY <2>1 DEF TypeOK
  <2> QED BY <1>5, <1>7, <2>1, <2>2 DEF NextPicture
<1>8. CASE NoNext(frames, corrupt)
  <2>1. library' \in [frames : Seq(Works), delay : Delays]
    BY <1>8 DEF NoNext, TypeOK
  <2>2. cur'.work # 0
    BY <1>3, <1>8, NoPictureTypes, WaitingType DEF NoNext, Works
  <2> QED BY <1>1, <1>3, <1>4, <1>8, <2>1, <2>2, NoPictureTypes DEF NoNext, TypeOK
<1> QED
  BY <1>2, <1>6, <1>7, <1>8, RoundCases

LEMMA ProcessTypes ==
    ASSUME TypeOK, NEW data \in BOOLEAN, Process(data)
    PROVE  TypeOK'
<1>1. UNCHANGED <<msgs, loc, mQueue, mFlush, mGeneration, mRunning, library, picture, strayed,
                  mState, feeder, ended, ctl, calls, seen>> /\ pool' = TRUE
  BY DEF Process, queueVars, clientVars, counts
<1>2. /\ cur' \in CurSet /\ (cur'.pc = "loop" => cur'.work # 0)
      /\ codec' \in CodecSet /\ codec'.indexes = codec.indexes
      /\ cur'.pc = "loop" /\ cur'.flushPendingWork => codec.indexes # <<>>
  <2>1. CASE codec' = codec /\ \E b \in BOOLEAN : cur' = [cur EXCEPT !.pc = "tail", !.processed = b]
    BY <2>1 DEF TypeOK, CurSet
  <2>2. CASE /\ codec' = codec
             /\ cur' = [cur EXCEPT !.pc = "loop", !.data = data,
                                   !.flushPendingWork = Ends /\ codec.indexes # <<>>]
    <3>1. PICK f \in BOOLEAN : f = (Ends /\ codec.indexes # <<>>)
      BY DEF Ends
    <3>2. cur' = [cur EXCEPT !.pc = "loop", !.data = data, !.flushPendingWork = f]
      BY <2>2, <3>1
    <3> QED BY <2>2, <3>1, <3>2 DEF TypeOK, CurSet, Process
  <2>3. CASE /\ codec' = [codec EXCEPT !.mSignalledOutputEos = TRUE]
             /\ cur' = [cur EXCEPT !.pc = "tail", !.processed = TRUE]
    BY <2>3, FieldTypes DEF TypeOK, CurSet, CodecSet
  <2> QED BY <2>1, <2>2, <2>3 DEF Process, Processed
<1> QED
  BY <1>1, <1>2 DEF TypeOK

\* The looper keeps the types.
LEMMA LooperTypes ==
    ASSUME TypeOK, Looper
    PROVE  TypeOK'
<1> USE DEF queueVars, looper, decoderVars, counts, clientVars
<1>1. CASE \/ \E ok \in BOOLEAN : InitMessage(ok)
           \/ StartMessage \/ StopMessage \/ ResetMessage \/ ReleaseMessage
  BY <1>1, MessageTypes
<1>2. CASE ProcessNothing
  <2>1. msgs' \in Seq(Message)
    BY <1>2, TakeType DEF ProcessNothing
  <2> QED BY <1>2, <2>1 DEF ProcessNothing, TypeOK, Message
<1>3. CASE Pop
  BY <1>3, PopTypes
<1>4. CASE NoPool
  <2>1. calls' \in [Call -> Nat] /\ seen' \subseteq Call
    BY <1>4, CountedType DEF NoPool, Call
  <2>2. loc' \in [Works -> Loc]
    BY <1>4, PlaceNames DEF NoPool, TypeOK
  <2>3. msgs' \in Seq(Message) /\ cur' \in CurSet /\ cur'.pc = "idle"
    BY <1>4, ReturnType DEF NoPool
  <2> QED BY <1>4, <2>1, <2>2, <2>3 DEF NoPool, TypeOK, Message
<1>5. CASE Drain
  <2>1. msgs' \in Seq(Message) /\ cur' \in CurSet /\ cur'.pc = "idle"
    BY <1>5, ReturnType DEF Drain
  <2> QED BY <1>5, <2>1 DEF Drain, TypeOK, Message
<1>6. ASSUME NEW data \in BOOLEAN, Process(data) PROVE TypeOK'
  BY <1>6, ProcessTypes
<1>7. CASE FetchError
  <2>1. calls' \in [Call -> Nat] /\ seen' \subseteq Call
    BY <1>7, CountedType DEF FetchError, Call
  <2>2. cur' \in CurSet /\ cur'.pc = "tail"
    BY <1>7 DEF FetchError, Processed, TypeOK, CurSet
  <2>3. /\ codec' \in CodecSet /\ codec'.indexes = codec.indexes /\ strayed' \in BOOLEAN
        /\ library' \in [frames : Seq(Works), delay : Delays]
    <3>1. CASE UNCHANGED <<library, strayed>> /\ codec' = [codec EXCEPT !.mSignalledError = TRUE]
      BY <3>1 DEF TypeOK, CodecSet
    <3>2. CASE /\ library.frames # <<>>
               /\ library' = [library EXCEPT !.frames = Tail(@)] /\ strayed' = TRUE
               /\ codec' = [codec EXCEPT !.mSignalledError = TRUE, !.mPic = Head(library.frames)]
      <4>1. Head(library.frames) \in Works /\ Tail(library.frames) \in Seq(Works)
        BY <3>2 DEF TypeOK
      <4> QED BY <3>2, <4>1 DEF TypeOK, CodecSet
    <3> QED BY <1>7, <3>1, <3>2 DEF FetchError
  <2> QED BY <1>7, <2>1, <2>2, <2>3 DEF FetchError, TypeOK
<1>8. CASE MapError
  <2>1. calls' \in [Call -> Nat] /\ seen' \subseteq Call
    BY <1>8, CountedType DEF MapError, Call
  <2>2. cur' \in CurSet /\ cur'.pc = "tail"
    BY <1>8 DEF MapError, Processed, TypeOK, CurSet
  <2> QED BY <1>8, <2>1, <2>2 DEF MapError, TypeOK
<1>9. ASSUME NEW corrupt \in BOOLEAN, Decode(corrupt) PROVE TypeOK'
  BY <1>9, DecodeTypes
<1>10. CASE EndOfProcess
  <2>1. msgs' \in Seq(Message) /\ cur' \in CurSet /\ cur'.pc = "idle"
    BY <1>10, ReturnType DEF EndOfProcess
  <2>2. loc' \in [Works -> Loc]
    BY <1>10, PlaceNames DEF EndOfProcess, TypeOK
  <2> QED BY <1>10, <2>1, <2>2 DEF EndOfProcess, TypeOK, Message
<1> QED
  BY <1>1, <1>2, <1>3, <1>4, <1>5, <1>6, <1>7, <1>8, <1>9, <1>10 DEF Looper

LEMMA StutterTypes == TypeOK /\ UNCHANGED vars => TypeOK'
  BY DEF TypeOK, vars, queueVars, looper, decoderVars, clientVars, counts

LEMMA NextType == TypeOK /\ [Next]_vars => TypeOK'
  BY ClientTypes, LooperTypes, StutterTypes DEF Next

\* Every variable keeps its type, the list of the decoder never outgrows
\* MAX_WORK_PENDING_COUNT, and the loop of C2SoftVdec::process() is only gone round while a
\* work waits in it.
THEOREM TypeCorrect == Spec => []TypeOK
<1>1. Init => TypeOK
  BY InitType
<1>2. TypeOK /\ [Next]_vars => TypeOK'
  BY NextType
<1> QED
  BY <1>1, <1>2, PTL DEF Spec

(* The three lists of works.  The list of the decoder and the frames in the  *)
(* library are the same works, unless strayed says otherwise, or the works   *)
(* of the session are over: then nothing more is decoded until a flush or a  *)
(* stop makes both lists empty.                                              *)

\* A message the client waits for is the last of its messages; only kWhatProcess
\* follows kWhatRelease, and the looper does not run after it.
Awaited == {"init", "stop", "reset", "release"}
Awaits(m) == IF m = "init" THEN "initializing" ELSE m
OnlyProcess(ms) == \A i \in 1..Len(ms) : ms[i] = "process"
Awaiting(ms, call) ==
    \A i \in 1..Len(ms) :
        ms[i] \in Awaited =>
            call = Awaits(ms[i]) /\ \A j \in 1..Len(ms) : j > i => ms[j] = "process"
CallInv == Awaiting(msgs, ctl) /\ (ctl = "released" => ~mRunning /\ OnlyProcess(msgs))

\* Nothing but drains will be taken out of the queue until it is flushed or stopped.
OnlyDrains(q) == \A i \in 1..Len(q) : q[i] = 0
Over == \/ mFlush \/ ctl = "released"
        \/ OnlyDrains(mQueue) /\ (ended \/ ctl \in {"stop", "reset"})

\* The end of the stream is the last work the client queued, before and after it has been
\* taken out of the queue.
QueueEnds ==
    \A i \in 1..Len(mQueue) :
        mQueue[i] \in EosWorks => ended /\ \A j \in 1..Len(mQueue) : j > i => mQueue[j] = 0
EndInv ==
    /\ QueueEnds
    /\ cur.pc # "idle" /\ Ends => Over
LoopInv ==
    cur.pc = "loop" => (cur.flushPendingWork => Ends) /\ (cur.flushPendingWork \/ cur.data)

\* The works of i are the first of f.
Leads(i, f) == \A n \in 1..Len(i) : n <= Len(f) /\ i[n] = f[n]

\* The lists are the same, and after the first picture the library is as late as it can be.
Level == /\ codec.indexes = library.frames
         /\ codec.mFirstPictureReviced => Len(library.frames) >= library.delay
ListsInv ==
    /\ codec.mPic = 0
    /\ cur.pc # "loop" => Over \/ Level
    /\ cur.pc = "popped" /\ cur.work # 0 => Level
    /\ cur.pc = "loop" => IF ~cur.flushPendingWork THEN Level
                          ELSE IF cur.data THEN Leads(codec.indexes, library.frames)
                          ELSE codec.indexes = library.frames
    /\ \A w \in Works : picture[w] \in {0, w}

StrayInv == CallInv /\ EndInv /\ LoopInv /\ (~strayed => ListsInv)

\* What a message taken, and a message posted, leave of those the client waits for.
LEMMA NothingAwaited ==
    ASSUME NEW ms, NEW c, Awaiting(ms, c), c \notin {"initializing", "stop", "reset", "release"}
    PROVE  \A i \in 1..Len(ms) : ms[i] \notin Awaited
  BY DEF Awaiting, Awaits, Awaited

LEMMA TakeCalls ==
    ASSUME TypeOK, CallInv, NEW m, Take(m)
    PROVE  /\ Awaiting(msgs', ctl)
           /\ m \in Awaited => ctl = Awaits(m) /\ OnlyProcess(msgs')
           /\ ctl = "released" => m = "process" /\ OnlyProcess(msgs')
<1>1. msgs \in Seq(Message) /\ msgs # <<>> /\ msgs' = Tail(msgs) /\ m = msgs[1]
  BY TakeType
<1>2. PICK n \in Nat : n = Len(msgs)
  BY <1>1
<1>3. /\ 1 \in 1..n /\ Len(msgs') = n - 1
      /\ \A i \in 1..Len(msgs') : i + 1 \in 1..n /\ msgs'[i] = msgs[i + 1]
  BY <1>1, <1>2
<1>4. Awaiting(msgs', ctl)
  <2> SUFFICES ASSUME NEW i \in 1..Len(msgs'), msgs'[i] \in Awaited
               PROVE  /\ ctl = Awaits(msgs'[i])
                      /\ \A j \in 1..Len(msgs') : j > i => msgs'[j] = "process"
    BY DEF Awaiting
  <2>1. i + 1 \in 1..n /\ msgs[i + 1] = msgs'[i]
    BY <1>3
  <2>2. ctl = Awaits(msgs[i + 1]) /\ \A j \in 1..n : j > i + 1 => msgs[j] = "process"
    BY <1>2, <2>1 DEF CallInv, Awaiting
  <2>3. ASSUME NEW j \in 1..Len(msgs'), j > i PROVE msgs'[j] = "process"
    BY <1>2, <1>3, <2>2, <2>3
  <2> QED BY <2>1, <2>2, <2>3
<1>5. ASSUME m \in Awaited PROVE ctl = Awaits(m) /\ OnlyProcess(msgs')
  <2>1. ctl = Awaits(msgs[1]) /\ \A j \in 1..n : j > 1 => msgs[j] = "process"
    BY <1>1, <1>2, <1>3, <1>5 DEF CallInv, Awaiting
  <2> QED BY <1>1, <1>2, <1>3, <2>1 DEF OnlyProcess
<1>6. ASSUME ctl = "released" PROVE m = "process" /\ OnlyProcess(msgs')
  BY <1>1, <1>2, <1>3, <1>6 DEF CallInv, OnlyProcess
<1> QED
  BY <1>4, <1>5, <1>6

LEMMA AppendMessage ==
    ASSUME TypeOK, NEW m \in Message, msgs' = Append(msgs, m)
    PROVE  /\ Len(msgs) \in Nat /\ Len(msgs') = Len(msgs) + 1 /\ msgs'[Len(msgs) + 1] = m
           /\ \A i \in 1..Len(msgs) : msgs'[i] = msgs[i]
<1>1. msgs \in Seq(Message)
  BY DEF TypeOK, Message
<1> QED BY <1>1

LEMMA PostProcessCalls ==
    ASSUME TypeOK, CallInv, msgs' = Append(msgs, "process"), UNCHANGED <<ctl, mRunning>>
    PROVE  CallInv'
<1>0. "process" \in Message
  BY DEF Message
<1>1. PICK n \in Nat : n = Len(msgs)
  BY <1>0, AppendMessage
<1>2. Len(msgs') = n + 1 /\ msgs'[n + 1] = "process" /\ \A i \in 1..n : msgs'[i] = msgs[i]
  BY <1>0, <1>1, AppendMessage
<1>3. \A i \in 1..n + 1 : i = n + 1 \/ i \in 1..n
  OBVIOUS
<1>4. Awaiting(msgs', ctl)
  <2> SUFFICES ASSUME NEW i \in 1..n + 1, msgs'[i] \in Awaited
               PROVE  ctl = Awaits(msgs'[i]) /\ \A j \in 1..n + 1 : j > i => msgs'[j] = "process"
    BY <1>2 DEF Awaiting
  <2>1. i \in 1..n
    BY <1>2, <1>3 DEF Awaited
  <2>2. ctl = Awaits(msgs[i]) /\ \A j \in 1..n : j > i => msgs[j] = "process"
    BY <1>1, <1>2, <2>1 DEF CallInv, Awaiting
  <2> QED BY <1>2, <1>3, <2>1, <2>2
<1>5. ctl = "released" => OnlyProcess(msgs')
  BY <1>1, <1>2, <1>3 DEF CallInv, OnlyProcess
<1> QED
  BY <1>4, <1>5 DEF CallInv

LEMMA PostCallCalls ==
    ASSUME TypeOK, CallInv, NEW m \in Message, Post(m), ctl = "idle",
           m \in Awaited => ctl' = Awaits(m), ctl' # "released"
    PROVE  CallInv'
<1>1. PICK n \in Nat : n = Len(msgs)
  BY AppendMessage DEF Post
<1>2. Len(msgs') = n + 1 /\ msgs'[n + 1] = m /\ \A i \in 1..n : msgs'[i] = msgs[i]
  BY <1>1, AppendMessage DEF Post
<1>3. \A i \in 1..n : msgs'[i] \notin Awaited
  BY <1>1, <1>2, NothingAwaited DEF CallInv
<1>4. \A i \in 1..n + 1 : i = n + 1 \/ i \in 1..n
  OBVIOUS
<1>5. Awaiting(msgs', ctl')
  BY <1>2, <1>3, <1>4 DEF Awaiting
<1> QED
  BY <1>5 DEF CallInv

LEMMA SameCalls ==
    ASSUME CallInv, UNCHANGED <<msgs, ctl, mRunning>>
    PROVE  CallInv'
  BY DEF CallInv

\* Calls that return.
LEMMA ReturnCalls ==
    ASSUME CallInv, UNCHANGED <<msgs, mRunning>>, ctl' = "idle",
           ctl \in {"idle", "flushing", "initialized", "initFailed"}
    PROVE  CallInv'
<1>1. \A i \in 1..Len(msgs) : msgs[i] \notin Awaited
  BY NothingAwaited DEF CallInv
<1> QED
  BY <1>1 DEF CallInv, Awaiting

LEMMA ClientCalls ==
    ASSUME TypeOK, CallInv, Client
    PROVE  CallInv'
<1> USE DEF queueVars, looper, decoderVars, counts
<1>1. ASSUME NEW w \in Works, queue_nb(w) PROVE CallInv'
  BY <1>1, SameCalls DEF queue_nb
<1>2. CASE drain_nb
  BY <1>2, SameCalls DEF drain_nb
<1>3. CASE PostProcess
  BY <1>3, PostProcessCalls DEF PostProcess, Post
<1>4. CASE flush_sm
  <2>1. \A i \in 1..Len(msgs) : msgs[i] \notin Awaited
    BY <1>4, NothingAwaited DEF CallInv, flush_sm, MayCall
  <2> QED BY <1>4, <2>1 DEF flush_sm, CallInv, Awaiting
<1>5. CASE FlushReturn
  BY <1>5, ReturnCalls DEF FlushReturn
<1>6. CASE start
  <2>1. CASE Post("init") /\ ctl' = "initializing"
    BY <1>6, <2>1, PostCallCalls DEF start, MayCall, Message, Awaits
  <2>2. CASE Post("start") /\ ctl' = ctl
    BY <1>6, <2>2, PostCallCalls DEF start, MayCall, Message, Awaited
  <2> QED BY <1>6, <2>1, <2>2 DEF start
<1>7. CASE InitReturn
  BY <1>7, ReturnCalls DEF InitReturn
<1>8. ASSUME NEW c \in {"stop", "reset"}, NEW s, Clear(c, c, s) PROVE CallInv'
  BY <1>8, PostCallCalls DEF Clear, MayCall, Message, Awaits
<1>9. CASE release
  BY <1>9, PostCallCalls DEF release, MayCall, Message, Awaits
<1> QED
  BY <1>1, <1>2, <1>3, <1>4, <1>5, <1>6, <1>7, <1>8, <1>9 DEF Client, stop, reset

LEMMA ProcessMessageCalls ==
    ASSUME TypeOK, CallInv, Take("process"), UNCHANGED <<ctl, mRunning>>
    PROVE  CallInv'
  BY TakeCalls DEF CallInv

LEMMA EndedCalls ==
    ASSUME TypeOK, CallInv, NEW m \in Awaited, Take(m), ctl' = "released" => ~mRunning'
    PROVE  CallInv'
<1>1. OnlyProcess(msgs')
  BY TakeCalls
<1> QED
  BY <1>1 DEF CallInv, Awaiting, OnlyProcess, Awaited

LEMMA LooperCalls ==
    ASSUME TypeOK, CallInv, Looper
    PROVE  CallInv'
<1> USE DEF queueVars, looper, decoderVars, counts, clientVars
<1>r. Return /\ UNCHANGED <<ctl, mRunning>> => CallInv'
  BY PostProcessCalls, SameCalls DEF Return
<1>1. ASSUME NEW ok \in BOOLEAN, InitMessage(ok) PROVE CallInv'
  BY <1>1, EndedCalls DEF InitMessage, Awaited
<1>2. CASE StartMessage
  <2>1. Awaiting(msgs', ctl) /\ ctl # "released"
    BY <1>2, TakeCalls DEF StartMessage
  <2> QED BY <1>2, <2>1 DEF StartMessage, CallInv
<1>3. CASE StopMessage
  BY <1>3, EndedCalls DEF StopMessage, Awaited
<1>4. CASE ResetMessage
  BY <1>4, EndedCalls DEF ResetMessage, Awaited
<1>5. CASE ReleaseMessage
  BY <1>5, EndedCalls DEF ReleaseMessage, Awaited
<1>6. CASE ProcessNothing
  BY <1>6, ProcessMessageCalls DEF ProcessNothing
<1>7. CASE Pop
  BY <1>7, ProcessMessageCalls DEF Pop
<1>8. CASE NoPool
  BY <1>8, <1>r DEF NoPool
<1>9. CASE Drain
  BY <1>9, <1>r DEF Drain
<1>10. ASSUME NEW data \in BOOLEAN, Process(data) PROVE CallInv'
  BY <1>10, SameCalls DEF Process
<1>11. CASE FetchError
  BY <1>11, SameCalls DEF FetchError
<1>12. CASE MapError
  BY <1>12, SameCalls DEF MapError
<1>13. ASSUME NEW corrupt \in BOOLEAN, Decode(corrupt) PROVE CallInv'
  BY <1>13, SameCalls DEF Decode
<1>14. CASE EndOfProcess
  BY <1>14, <1>r DEF EndOfProcess
<1> QED
  BY <1>1, <1>2, <1>3, <1>4, <1>5, <1>6, <1>7, <1>8, <1>9, <1>10, <1>11, <1>12, <1>13, <1>14
  DEF Looper

\* A longer queue.
LEMMA QueueGrows ==
    ASSUME TypeOK, NEW e \in Entry, mQueue' = Append(mQueue, e)
    PROVE  /\ Len(mQueue) \in Nat /\ Len(mQueue') = Len(mQueue) + 1
           /\ mQueue'[Len(mQueue) + 1] = e
           /\ \A i \in 1..Len(mQueue) : mQueue'[i] = mQueue[i]
           /\ \A i \in 1..Len(mQueue') : i \in 1..Len(mQueue) \/ i = Len(mQueue) + 1
<1>1. mQueue \in Seq(Entry)
  BY DEF TypeOK, Entry
<1> QED BY <1>1

LEMMA QueueShrinks ==
    ASSUME TypeOK, mQueue # <<>>, mQueue' = Tail(mQueue)
    PROVE  /\ Head(mQueue) = mQueue[1] /\ 1 \in 1..Len(mQueue)
           /\ Len(mQueue) \in Nat /\ Len(mQueue') = Len(mQueue) - 1
           /\ \A i \in 1..Len(mQueue') : i + 1 \in 1..Len(mQueue) /\ mQueue'[i] = mQueue[i + 1]
<1>1. mQueue \in Seq(Entry)
  BY DEF TypeOK, Entry
<1> QED BY <1>1

LEMMA EmptyQueue == OnlyDrains(<<>>) /\ Len(<<>>) = 0
  BY DEF OnlyDrains

\* Over is only ended by the looper, when it has seen the flush or the stop.
LEMMA ClientOver ==
    ASSUME TypeOK, Client
    PROVE  /\ Over => Over'
           /\ UNCHANGED looper
<1> USE DEF queueVars, looper, decoderVars, counts
<1>1. ASSUME NEW w \in Works, queue_nb(w) PROVE (Over => Over') /\ UNCHANGED looper
  BY <1>1 DEF queue_nb, Over, MayCall
<1>2. CASE drain_nb
  <2>1. mQueue' = Append(mQueue, 0) /\ 0 \in Entry
    BY <1>2 DEF drain_nb, Enqueue, Entry
  <2>2. OnlyDrains(mQueue) => OnlyDrains(mQueue')
    BY <2>1, QueueGrows DEF OnlyDrains
  <2> QED BY <1>2, <2>2 DEF drain_nb, Over
<1>3. CASE PostProcess
  BY <1>3 DEF PostProcess, Over
<1>4. CASE flush_sm
  BY <1>4 DEF flush_sm, Over
<1>5. CASE FlushReturn
  BY <1>5 DEF FlushReturn, Over
<1>6. CASE start
  BY <1>6 DEF start, Over, MayCall
<1>7. CASE InitReturn
  BY <1>7 DEF InitReturn, Over
<1>8. ASSUME NEW c \in {"stop", "reset"}, NEW s, Clear(c, c, s)
      PROVE  (Over => Over') /\ UNCHANGED looper
  BY <1>8, EmptyQueue DEF Clear, Over
<1>9. CASE release
  BY <1>9 DEF release, Over, MayCall
<1> QED
  BY <1>1, <1>2, <1>3, <1>4, <1>5, <1>6, <1>7, <1>8, <1>9 DEF Client, stop, reset

LEMMA ClientEnd ==
    ASSUME TypeOK, EndInv, Client
    PROVE  EndInv'
<1> USE DEF queueVars, looper, decoderVars, counts
<1>0. (cur.pc # "idle" /\ Ends => Over)'
  BY ClientOver DEF EndInv, Ends
<1>1. ASSUME NEW w \in Works, queue_nb(w) PROVE QueueEnds'
  <2>1. mQueue' = Append(mQueue, w) /\ w \in Entry /\ ~ended /\ ended' = (w \in EosWorks)
    BY <1>1 DEF queue_nb, Enqueue, Entry
  <2>2. \A i \in 1..Len(mQueue) : mQueue[i] \notin EosWorks
    BY <2>1 DEF EndInv, QueueEnds
  <2>3. PICK n \in Nat : n = Len(mQueue)
    BY <2>1, QueueGrows
  <2>4. Len(mQueue') = n + 1 /\ mQueue'[n + 1] = w /\ (\A i \in 1..n : mQueue'[i] = mQueue[i])
        /\ \A i \in 1..n + 1 : i \in 1..n \/ i = n + 1
    BY <2>1, <2>3, QueueGrows
  <2>5. ASSUME NEW i \in 1..n + 1, mQueue'[i] \in EosWorks
        PROVE  ended' /\ \A j \in 1..n + 1 : j > i => mQueue'[j] = 0
    <3>1. i = n + 1
      BY <2>2, <2>3, <2>4, <2>5
    <3>2. ended'
      BY <2>1, <2>4, <2>5, <3>1
    <3>3. ASSUME NEW j \in 1..n + 1, j > i PROVE FALSE
      BY <3>1, <3>3
    <3> QED BY <3>2, <3>3
  <2> QED BY <2>4, <2>5 DEF QueueEnds
<1>2. ASSUME drain_nb PROVE QueueEnds'
  <2>1. mQueue' = Append(mQueue, 0) /\ 0 \in Entry /\ ended' = ended
    BY <1>2 DEF drain_nb, Enqueue, Entry
  <2>2. 0 \notin EosWorks
    BY WorksAssumption DEF Works
  <2>3. PICK n \in Nat : n = Len(mQueue)
    BY <2>1, QueueGrows
  <2>4. Len(mQueue') = n + 1 /\ mQueue'[n + 1] = 0 /\ (\A i \in 1..n : mQueue'[i] = mQueue[i])
        /\ \A i \in 1..n + 1 : i \in 1..n \/ i = n + 1
    BY <2>1, <2>3, QueueGrows
  <2>5. ASSUME NEW i \in 1..n + 1, mQueue'[i] \in EosWorks
        PROVE  ended' /\ \A j \in 1..n + 1 : j > i => mQueue'[j] = 0
    <3>1. i \in 1..n /\ mQueue[i] \in EosWorks
      BY <2>2, <2>4, <2>5
    <3>2. ended /\ \A j \in 1..n : j > i => mQueue[j] = 0
      BY <2>3, <3>1 DEF EndInv, QueueEnds
    <3>3. ended'
      BY <2>1, <3>2
    <3>4. \A j \in 1..n + 1 : j > i => mQueue'[j] = 0
      BY <2>4, <3>1, <3>2
    <3> QED BY <3>3, <3>4
  <2> QED BY <2>4, <2>5 DEF QueueEnds
<1>3. ASSUME PostProcess \/ FlushReturn \/ start \/ InitReturn \/ release PROVE QueueEnds'
  <2>1. mQueue' = mQueue /\ ended' = ended
    BY <1>3 DEF PostProcess, FlushReturn, start, InitReturn, release
  <2> QED BY <2>1 DEF EndInv, QueueEnds
<1>4. ASSUME flush_sm \/ stop \/ reset PROVE QueueEnds'
  <2>1. mQueue' = <<>>
    BY <1>4 DEF flush_sm, stop, reset, Clear
  <2> QED BY <2>1, EmptyQueue DEF QueueEnds
<1>5. QueueEnds'
  BY <1>1, <1>2, <1>3, <1>4 DEF Client
<1> QED
  BY <1>0, <1>5 DEF EndInv

LEMMA ClientStray ==
    ASSUME TypeOK, StrayInv, Client
    PROVE  StrayInv'
<1>1. CallInv' /\ EndInv'
  BY ClientCalls, ClientEnd DEF StrayInv
<1>2. UNCHANGED looper /\ (Over => Over')
  BY ClientOver
<1>3. LoopInv'
  BY <1>2 DEF StrayInv, LoopInv, looper, Ends
<1>4. ~strayed' => ListsInv'
  <2> SUFFICES ASSUME ~strayed' PROVE ListsInv'
    OBVIOUS
  <2>1. ListsInv
    BY <1>2 DEF looper, decoderVars, StrayInv
  <2>2. UNCHANGED <<cur, codec, library, picture>>
    BY <1>2 DEF looper, decoderVars
  <2>3. Level => Level'
    BY <2>2 DEF Level
  <2> QED BY <1>2, <2>1, <2>2, <2>3 DEF ListsInv
<1> QED
  BY <1>1, <1>3, <1>4 DEF StrayInv

\* Lists of works: the first of a longer one, and what is left behind it.
LEMMA LeadsOn ==
    ASSUME NEW i \in Seq(Works), NEW f \in Seq(Works), NEW w \in Works,
           Leads(i, f), i # <<>>
    PROVE  /\ Append(f, w) \in Seq(Works) /\ Append(f, w) # <<>>
           /\ Head(Append(f, w)) = Head(i)
           /\ Leads(Tail(i), Tail(Append(f, w)))
<1>1. PICK n \in Nat : n = Len(i)
  OBVIOUS
<1>2. PICK m \in Nat : m = Len(f)
  OBVIOUS
<1>3. PICK g \in Seq(Works) : g = Append(f, w)
  <2>1. Append(f, w) \in Seq(Works)
    OBVIOUS
  <2> QED BY <2>1
<1>4. Len(g) = m + 1 /\ \A k \in 1..m : g[k] = f[k]
  BY <1>2, <1>3
<1>5. n >= 1 /\ \A k \in 1..n : k <= m /\ i[k] = f[k]
  BY <1>1, <1>2 DEF Leads
<1>6. g # <<>> /\ Head(g) = Head(i)
  BY <1>1, <1>4, <1>5
<1>7. /\ Len(Tail(i)) = n - 1 /\ \A k \in 1..n - 1 : Tail(i)[k] = i[k + 1]
  BY <1>1
<1>8. /\ Len(Tail(g)) = m /\ \A k \in 1..m : Tail(g)[k] = g[k + 1]
  BY <1>4, <1>6
<1>9. Leads(Tail(i), Tail(g))
  <2> SUFFICES ASSUME NEW k \in 1..n - 1
               PROVE  k <= m /\ Tail(i)[k] = Tail(g)[k]
    BY <1>7, <1>8 DEF Leads
  <2>1. k + 1 \in 1..n /\ k + 1 <= m /\ i[k + 1] = f[k + 1]
    BY <1>5
  <2> QED BY <1>4, <1>7, <1>8, <2>1
<1> QED
  BY <1>3, <1>6, <1>9

LEMMA AppendTail ==
    ASSUME NEW f \in Seq(Works), NEW w \in Works
    PROVE  /\ Append(f, w) \in Seq(Works) /\ Append(f, w) # <<>>
           /\ Len(Append(f, w)) = Len(f) + 1 /\ Len(Tail(Append(f, w))) = Len(f)
           /\ Len(f) \in Nat
  OBVIOUS

LEMMA SameLeads == \A f \in Seq(Works) : Leads(f, f)
  BY DEF Leads

\* A work whose end does not come, in the loop: the lists go on being the same.
LEMMA OrdinaryRound ==
    ASSUME TypeOK, StrayInv, NEW corrupt \in BOOLEAN, Decode(corrupt), ~strayed',
           ~cur.flushPendingWork, ListsInv
    PROVE  /\ codec'.mPic = 0 /\ cur'.pc = "tail"
           /\ Ends \/ Level'
           /\ \A w \in Works : picture'[w] \in {0, w}
<1> DEFINE w == cur.work
           f == library.frames
<1>0. cur.pc = "loop" /\ cur.data /\ codec.mPic = 0 /\ Level
      /\ codec.indexes = f /\ (codec.mFirstPictureReviced => Len(f) >= library.delay)
  BY RoundCases DEF StrayInv, LoopInv, ListsInv, Level
<1>1. w \in Works /\ f \in Seq(Works) /\ Waiting = Append(f, w)
      /\ library.delay \in Nat /\ library.delay <= MaxPending /\ MaxPending \in Nat
  <2>1. library.delay \in Delays
    BY DEF TypeOK
  <2>2. \A d \in Delays : d \in Nat /\ d <= MaxPending
    BY DelayAssumption
  <2> QED BY <1>0, <2>1, <2>2, WaitingType, DelayAssumption DEF TypeOK, Waiting
<1>2. PICK g \in Seq(Works) : g = Append(f, w) /\ g # <<>> /\ Len(g) = Len(f) + 1
                              /\ Len(Tail(g)) = Len(f) /\ Len(f) \in Nat
  BY <1>1, AppendTail
<1>3. Decoded(corrupt) = IF corrupt THEN f ELSE g
  BY <1>0, <1>2 DEF Decoded
<1>4. CASE ~corrupt /\ HasPicture(g) /\ NextPicture(g)
  <2>1. Picture(Head(g)) /\ library' = [library EXCEPT !.frames = Tail(g)]
    BY <1>4 DEF NextPicture
  <2>2. Head(g) \in Works /\ Head(Waiting) = Head(g) /\ Tail(Waiting) = Tail(g)
    BY <1>1, <1>2
  <2>3. /\ codec'.indexes = Tail(g) /\ codec'.mPic = 0
        /\ codec'.mFirstPictureReviced
    BY <1>0, <2>1, <2>2, PictureTypes
  <2>4. ~GoesOn
    BY DEF GoesOn
  <2>5. cur'.pc = "tail"
    BY <2>1, <2>4 DEF Picture, Processed, TypeOK, CurSet
  <2>6. library'.frames = Tail(g) /\ library'.delay = library.delay
    BY <2>1 DEF TypeOK
  <2>7. Len(g) > library.delay
    BY <1>0, <1>4 DEF HasPicture
  <2>8. Level'
    BY <1>1, <1>2, <2>3, <2>6, <2>7 DEF Level
  <2>9. \A v \in Works : picture'[v] \in {0, v}
    BY <2>1, <2>2 DEF Picture, ListsInv, TypeOK
  <2> QED BY <2>3, <2>5, <2>8, <2>9
<1>5. CASE /\ corrupt \/ ~HasPicture(g)
           /\ NoNext(IF corrupt THEN f ELSE g, corrupt)
  <2>1. /\ NoPicture(corrupt)
        /\ library' = [library EXCEPT !.frames = IF corrupt THEN f ELSE g]
    BY <1>5 DEF NoNext
  <2>2. cur'.pc = "tail" /\ UNCHANGED <<loc, picture>>
    BY <1>0, <2>1, NoPictureTypes
  <2>3. codec'.mPic = 0
    BY <1>0, <2>1 DEF NoPicture, TypeOK, CodecSet
  <2>4. library'.frames = (IF corrupt THEN f ELSE g) /\ library'.delay = library.delay
    BY <2>1 DEF TypeOK
  <2>5. ASSUME ~Ends PROVE Level'
    <3>1. CASE corrupt
      <4>1. codec.mFirstPictureReviced /\ UNCHANGED codec
        BY <2>1, <2>5, <3>1 DEF NoPicture
      <4> QED BY <1>0, <2>4, <3>1, <4>1 DEF Level
    <3>2. CASE ~corrupt
      <4>1. Len(g) <= library.delay
        BY <1>0, <1>1, <1>2, <1>5, <3>2 DEF HasPicture
      <4>2. ~codec.mFirstPictureReviced /\ Len(codec.indexes) < MaxPending
        BY <1>0, <1>1, <1>2, <4>1
      <4>3. codec' = [codec EXCEPT !.indexes = Append(@, cur.work)]
        BY <2>1, <2>5, <4>2 DEF NoPicture, Room
      <4>4. codec'.indexes = g /\ ~codec'.mFirstPictureReviced
        BY <1>0, <1>2, <4>2, <4>3 DEF TypeOK, CodecSet
      <4> QED BY <2>4, <3>2, <4>4 DEF Level
    <3> QED BY <3>1, <3>2
  <2>6. \A v \in Works : picture'[v] \in {0, v}
    BY <2>2 DEF ListsInv
  <2> QED BY <2>2, <2>3, <2>5, <2>6
<1> HIDE DEF w, f
<1> QED
  BY <1>0, <1>3, <1>4, <1>5, RoundCases DEF Left

\* The end of the stream: a picture for each work that waits, while the library leads them.
LEMMA LastRound ==
    ASSUME TypeOK, StrayInv, NEW corrupt \in BOOLEAN, Decode(corrupt),
           cur.flushPendingWork, ListsInv
    PROVE  /\ codec'.mPic = 0 /\ Ends
           /\ cur'.pc = "loop" =>
                  /\ cur' = cur
                  /\ IF cur.data THEN Leads(codec'.indexes, library'.frames)
                     ELSE codec'.indexes = library'.frames
           /\ \A w \in Works : picture'[w] \in {0, w}
<1>0. cur.pc = "loop" /\ codec.mPic = 0 /\ Ends
  BY RoundCases DEF StrayInv, LoopInv, ListsInv
<1>1. /\ cur.work \in Works /\ Waiting = codec.indexes
      /\ codec.indexes \in Seq(Works) /\ codec.indexes # <<>> /\ library.frames \in Seq(Works)
  BY <1>0, WaitingType DEF TypeOK, CodecSet, Waiting
<1>2. PICK g \in Seq(Works) : g = Decoded(corrupt)
  BY <1>0, DecodedType
<1>3. CASE ~corrupt /\ HasPicture(g) /\ NextPicture(g)
  <2>1. Picture(Head(g)) /\ library' = [library EXCEPT !.frames = Tail(g)]
    BY <1>3 DEF NextPicture
  <2>2. /\ Head(g) = Head(Waiting)
        /\ IF cur.data THEN Leads(Tail(Waiting), Tail(g)) ELSE Tail(Waiting) = Tail(g)
    <3>1. CASE cur.data
      <4>1. g = Append(library.frames, cur.work) /\ Leads(codec.indexes, library.frames)
        BY <1>0, <1>2, <1>3, <3>1 DEF Decoded, ListsInv
      <4> QED BY <1>1, <3>1, <4>1, LeadsOn
    <3>2. CASE ~cur.data
      BY <1>0, <1>1, <1>2, <1>3, <3>2 DEF Decoded, ListsInv
    <3> QED BY <3>1, <3>2
  <2>3. Head(g) \in Works
    BY <1>3, PictureFrames
  <2>4. codec'.indexes = Tail(Waiting) /\ codec'.mPic = 0 /\ (cur'.pc = "loop" => cur' = cur)
    BY <1>0, <2>1, <2>3, PictureTypes
  <2>5. library'.frames = Tail(g)
    BY <2>1 DEF TypeOK
  <2>6. \A v \in Works : picture'[v] \in {0, v}
    BY <2>1, <2>2, <2>3 DEF Picture, ListsInv, TypeOK
  <2> QED BY <1>0, <2>2, <2>4, <2>5, <2>6
<1>4. CASE NoNext(g, corrupt)
  <2>1. cur'.pc = "tail" /\ UNCHANGED picture
    BY <1>0, <1>4, NoPictureTypes DEF NoNext
  <2>2. codec'.mPic = 0
    BY <1>0, <1>4 DEF NoNext, NoPicture, TypeOK, CodecSet
  <2> QED BY <1>0, <2>1, <2>2 DEF ListsInv
<1> QED
  BY <1>0, <1>2, <1>3, <1>4, RoundCases DEF Left

\* An entry is taken out of the queue: with it go the works of a session that was flushed.
LEMMA PopStray ==
    ASSUME TypeOK, StrayInv, Pop
    PROVE  EndInv' /\ LoopInv' /\ (~strayed' => ListsInv')
<1>1. /\ mQueue # <<>> /\ mQueue' = Tail(mQueue) /\ mRunning /\ ctl # "released"
      /\ cur.pc = "idle" /\ mFlush' = FALSE
      /\ UNCHANGED <<ended, ctl, strayed, picture>>
  BY DEF Pop, Take, clientVars, StrayInv, CallInv
<1>2. PICK e \in Entry : e = Head(mQueue)
  BY PopTypes
<1>3. cur'.pc = "popped" /\ cur'.work = e
  BY <1>2 DEF Pop, IdleCur
<1>4. PICK n \in Nat : n = Len(mQueue)
  BY <1>1, QueueShrinks
<1>5. /\ e = mQueue[1] /\ 1 \in 1..n /\ Len(mQueue') = n - 1
      /\ \A i \in 1..n - 1 : i + 1 \in 1..n /\ mQueue'[i] = mQueue[i + 1]
  BY <1>1, <1>2, <1>4, QueueShrinks
<1>6. QueueEnds
  BY DEF StrayInv, EndInv
<1>7. QueueEnds'
  <2> SUFFICES ASSUME NEW i \in 1..n - 1, mQueue'[i] \in EosWorks
               PROVE  ended /\ \A j \in 1..n - 1 : j > i => mQueue'[j] = 0
    BY <1>1, <1>5 DEF QueueEnds
  <2>1. i + 1 \in 1..n /\ mQueue[i + 1] \in EosWorks
    BY <1>5
  <2>2. ended /\ \A j \in 1..n : j > i + 1 => mQueue[j] = 0
    BY <1>4, <1>6, <2>1 DEF QueueEnds
  <2>3. ASSUME NEW j \in 1..n - 1, j > i PROVE mQueue'[j] = 0
    BY <1>5, <2>2, <2>3
  <2> QED BY <2>2, <2>3
<1>8. e \in EosWorks => Over'
  <2> SUFFICES ASSUME e \in EosWorks PROVE Over'
    OBVIOUS
  <2>1. ended /\ \A j \in 1..n : j > 1 => mQueue[j] = 0
    BY <1>4, <1>5, <1>6 DEF QueueEnds
  <2>2. OnlyDrains(mQueue')
    BY <1>5, <2>1 DEF OnlyDrains
  <2> QED BY <1>1, <2>1, <2>2 DEF Over
<1>9. EndInv'
  BY <1>3, <1>7, <1>8 DEF EndInv, Ends
<1>10. LoopInv'
  BY <1>3 DEF LoopInv
<1>11. ASSUME ~strayed' PROVE ListsInv'
  <2>1. ListsInv
    BY <1>1, <1>11 DEF StrayInv
  <2>2. CASE mFlush
    <3>1. /\ codec'.indexes = <<>> /\ ~codec'.mFirstPictureReviced /\ codec'.mPic = codec.mPic
          /\ library'.frames = <<>>
      BY <2>2, FlushTypes DEF Pop
    <3>2. Level'
      BY <3>1 DEF Level
    <3> QED BY <1>1, <1>3, <2>1, <3>1, <3>2 DEF ListsInv
  <2>3. CASE ~mFlush
    <3>1. UNCHANGED <<codec, library>>
      BY <2>3 DEF Pop
    <3>2. Level => Level'
      BY <3>1 DEF Level
    <3>3. CASE Level
      BY <1>1, <1>3, <2>1, <3>1, <3>2, <3>3 DEF ListsInv
    <3>4. CASE Over
      <4>1. OnlyDrains(mQueue) /\ (ended \/ ctl \in {"stop", "reset"})
        BY <1>1, <2>3, <3>4 DEF Over
      <4>2. e = 0 /\ OnlyDrains(mQueue')
        BY <1>4, <1>5, <4>1 DEF OnlyDrains
      <4>3. Over'
        BY <1>1, <4>1, <4>2 DEF Over
      <4> QED BY <1>1, <1>3, <2>1, <3>1, <4>2, <4>3 DEF ListsInv
    <3> QED BY <1>1, <2>1, <3>3, <3>4 DEF ListsInv
  <2> QED BY <2>2, <2>3
<1> QED
  BY <1>9, <1>10, <1>11

\* A stop or a reset empties the library, and the list of the decoder was empty or the
\* lists part.
LEMMA StopStray ==
    ASSUME TypeOK, StrayInv, StopMessage \/ ResetMessage
    PROVE  EndInv' /\ LoopInv' /\ (~strayed' => ListsInv')
<1>1. /\ cur.pc = "idle" /\ UNCHANGED <<cur, mQueue, ended, picture>> /\ onStop
  BY DEF StopMessage, ResetMessage, Take, queueVars
<1>2. EndInv' /\ LoopInv'
  BY <1>1 DEF StrayInv, EndInv, QueueEnds, LoopInv
<1>3. ASSUME ~strayed' PROVE ListsInv'
  <2>1. ~strayed /\ codec.indexes = <<>> /\ (codec.mFirstPictureReviced => ~(library.delay > 0))
    BY <1>1, <1>3 DEF onStop
  <2>2. /\ codec'.indexes = codec.indexes /\ codec'.mPic = codec.mPic
        /\ codec'.mFirstPictureReviced = codec.mFirstPictureReviced
        /\ library'.frames = <<>> /\ library'.delay = library.delay
    BY <1>1, ResetTypes DEF onStop, TypeOK
  <2>3. library.delay \in Nat
    <3>1. library.delay \in Delays
      BY DEF TypeOK
    <3>2. \A d \in Delays : d \in Nat
      BY DelayAssumption
    <3> QED BY <3>1, <3>2
  <2>4. Level'
    BY <2>1, <2>2, <2>3 DEF Level
  <2> QED BY <1>1, <2>1, <2>2, <2>4 DEF StrayInv, ListsInv
<1> QED
  BY <1>2, <1>3

\* Messages that leave the lists as they are.
LEMMA MessageStray ==
    ASSUME TypeOK, StrayInv, \/ \E ok \in BOOLEAN : InitMessage(ok)
                             \/ StartMessage \/ ReleaseMessage \/ ProcessNothing
    PROVE  EndInv' /\ LoopInv' /\ (~strayed' => ListsInv')
<1> USE DEF queueVars, looper, decoderVars, counts, clientVars
<1>1. /\ cur.pc = "idle" /\ UNCHANGED <<cur, mQueue, ended, picture, strayed, mFlush>>
  BY DEF InitMessage, StartMessage, ReleaseMessage, ProcessNothing, Take
<1>2. EndInv' /\ LoopInv'
  BY <1>1 DEF StrayInv, EndInv, QueueEnds, LoopInv
<1>3. Over => Over'
  <2>1. ASSUME NEW ok \in BOOLEAN, InitMessage(ok) PROVE Over => Over'
    <3>1. ctl = "initializing"
      BY <2>1, TakeCalls DEF InitMessage, StrayInv, Awaited, Awaits
    <3> QED BY <1>1, <3>1 DEF Over
  <2>2. CASE StartMessage \/ ProcessNothing
    BY <1>1, <2>2 DEF StartMessage, ProcessNothing, Over
  <2>3. CASE ReleaseMessage
    BY <2>3 DEF ReleaseMessage, Over
  <2> QED BY <2>1, <2>2, <2>3
<1>4. ASSUME ~ReleaseMessage, ~strayed' PROVE ListsInv'
  <2>1. /\ codec'.mPic = codec.mPic /\ codec'.indexes = codec.indexes
        /\ codec'.mFirstPictureReviced = codec.mFirstPictureReviced
        /\ library' = library
    BY <1>4 DEF InitMessage, StartMessage, ProcessNothing, TypeOK, CodecSet
  <2>2. Level => Level'
    BY <2>1 DEF Level
  <2> QED BY <1>1, <1>3, <1>4, <2>1, <2>2 DEF StrayInv, ListsInv
<1>5. ASSUME ReleaseMessage, ~strayed' PROVE ListsInv'
  <2>1. codec' = codec /\ ctl' = "released"
    BY <1>5 DEF ReleaseMessage
  <2> QED BY <1>1, <1>5, <2>1 DEF StrayInv, ListsInv, Over
<1> QED
  BY <1>2, <1>4, <1>5

\* The end of the handler.
LEMMA ReturnStray ==
    ASSUME TypeOK, StrayInv, NoPool \/ Drain \/ EndOfProcess
    PROVE  EndInv' /\ LoopInv' /\ (~strayed' => ListsInv')
<1> USE DEF queueVars, decoderVars, counts, clientVars
<1>1. /\ cur.pc \in {"popped", "tail"} /\ cur'.pc = "idle"
      /\ UNCHANGED <<mQueue, ended, mFlush, ctl, codec, library, picture, strayed>>
  BY ReturnType DEF NoPool, Drain, EndOfProcess
<1>2. EndInv' /\ LoopInv'
  BY <1>1 DEF StrayInv, EndInv, QueueEnds, LoopInv
<1>3. ASSUME ~strayed' PROVE ListsInv'
  <2>1. (Over => Over') /\ (Level => Level')
    BY <1>1 DEF Over, Level
  <2> QED BY <1>1, <1>3, <2>1 DEF StrayInv, ListsInv
<1> QED
  BY <1>2, <1>3

\* The steps of process() before and instead of decoding.
LEMMA StepOver ==
    ASSUME TypeOK, cur.pc # "idle", UNCHANGED <<mQueue, ended, mFlush, ctl>>, cur'.work = cur.work,
           EndInv
    PROVE  EndInv' /\ (Over => Over') /\ (Ends => Over')
  BY DEF EndInv, QueueEnds, Over, Ends

LEMMA ProcessStray ==
    ASSUME TypeOK, StrayInv, NEW data \in BOOLEAN, Process(data)
    PROVE  EndInv' /\ LoopInv' /\ (~strayed' => ListsInv')
<1> USE DEF queueVars, counts, clientVars
<1>1. /\ cur.pc = "popped" /\ cur.work # 0 /\ (data \/ Ends)
      /\ UNCHANGED <<mQueue, ended, mFlush, ctl, library, picture, strayed>>
  BY DEF Process
<1>2. \/ cur'.pc = "tail"
      \/ /\ cur'.pc = "loop" /\ cur'.data = data
         /\ cur'.flushPendingWork = (Ends /\ codec.indexes # <<>>)
         /\ data \/ codec.indexes # <<>>
  BY DEF Process, Processed, TypeOK, CurSet
<1>3. cur'.work = cur.work /\ cur'.flushPendingWork \in BOOLEAN /\ cur'.data \in BOOLEAN
  <2>1. cur'.work = cur.work
    BY DEF Process, Processed, TypeOK, CurSet
  <2> QED BY <2>1, ProcessTypes DEF TypeOK, CurSet
<1>4. /\ codec'.mPic = codec.mPic /\ codec'.indexes = codec.indexes
      /\ codec'.mFirstPictureReviced = codec.mFirstPictureReviced
  BY DEF Process, TypeOK, CodecSet
<1>5. EndInv' /\ (Over => Over')
  BY <1>1, <1>3, StepOver DEF StrayInv
<1>6. LoopInv'
  BY <1>1, <1>2, <1>3 DEF LoopInv, Ends
<1>7. ASSUME ~strayed' PROVE ListsInv'
  <2>1. ListsInv
    BY <1>1, <1>7 DEF StrayInv
  <2>2. Level /\ Level'
    BY <1>1, <1>4, <2>1 DEF ListsInv, Level
  <2>3. Leads(codec'.indexes, library'.frames)
    BY <1>1, <1>4, <2>2, SameLeads DEF Level, TypeOK
  <2>4. codec'.mPic = 0 /\ \A w \in Works : picture'[w] \in {0, w}
    BY <1>1, <1>4, <2>1 DEF ListsInv
  <2>5. codec'.indexes = library'.frames
    BY <2>2 DEF Level
  <2>6. cur'.pc \in {"tail", "loop"}
    BY <1>2
  <2> HIDE DEF queueVars, counts, clientVars
  <2> QED BY <2>2, <2>3, <2>4, <2>5, <2>6 DEF ListsInv
<1> QED
  BY <1>5, <1>6, <1>7

LEMMA ErrorStray ==
    ASSUME TypeOK, StrayInv, FetchError \/ MapError
    PROVE  EndInv' /\ LoopInv' /\ (~strayed' => ListsInv')
<1> USE DEF decoderVars, queueVars
<1>1. /\ cur.pc = "loop" /\ cur'.pc = "tail" /\ cur'.work = cur.work
      /\ UNCHANGED <<mQueue, ended, mFlush, ctl, picture>>
  BY DEF FetchError, MapError, Processed, TypeOK, CurSet
<1>2. EndInv' /\ (Over => Over') /\ (Ends => Over')
  BY <1>1, StepOver DEF StrayInv
<1>3. LoopInv'
  BY <1>1 DEF LoopInv
<1>4. ASSUME ~strayed' PROVE ListsInv'
  <2>1. UNCHANGED <<library, strayed>> /\ codec'.mPic = codec.mPic
        /\ codec'.indexes = codec.indexes
        /\ codec'.mFirstPictureReviced = codec.mFirstPictureReviced
    BY <1>4 DEF FetchError, MapError, TypeOK, CodecSet
  <2>2. ListsInv
    BY <1>4, <2>1 DEF StrayInv
  <2>3. Over' \/ Level'
    <3>1. Level => Level'
      BY <2>1 DEF Level
    <3>2. cur.flushPendingWork => Over'
      BY <1>1, <1>2 DEF StrayInv, LoopInv
    <3> QED BY <1>1, <2>2, <3>1, <3>2 DEF ListsInv
  <2> QED BY <1>1, <2>1, <2>2, <2>3 DEF ListsInv
<1> QED
  BY <1>2, <1>3, <1>4

LEMMA DecodeStray ==
    ASSUME TypeOK, StrayInv, NEW corrupt \in BOOLEAN, Decode(corrupt)
    PROVE  EndInv' /\ LoopInv' /\ (~strayed' => ListsInv')
<1>1. /\ cur.pc = "loop" /\ UNCHANGED <<mQueue, ended, mFlush, ctl>>
      /\ strayed => strayed'
  BY RoundCases DEF Decode, Left, NextPicture, NoNext, Picture, NoPicture
<1>2. /\ cur'.work = cur.work /\ cur'.pc \in {"loop", "tail"}
      /\ cur'.pc = "loop" => cur' = cur
  <2>1. PICK frames \in Seq(Works) : frames = Decoded(corrupt)
    BY <1>1, DecodedType
  <2>2. CASE Left
    <3>1. codec.mPic \in Works
      BY <2>2 DEF Left, TypeOK, CodecSet
    <3> QED BY <1>1, <2>2, <3>1, PictureTypes DEF Left
  <2>3. CASE HasPicture(frames) /\ NextPicture(frames)
    <3>1. Head(frames) \in Works
      BY <2>3, PictureFrames
    <3> QED BY <1>1, <2>3, <3>1, PictureTypes DEF NextPicture
  <2>4. CASE NoNext(frames, corrupt)
    BY <1>1, <2>4, NoPictureTypes DEF NoNext
  <2> QED BY <2>1, <2>2, <2>3, <2>4, RoundCases
<1>3. EndInv' /\ (Over => Over') /\ (Ends => Over')
  BY <1>1, <1>2, StepOver DEF StrayInv
<1>4. LoopInv'
  BY <1>1, <1>2 DEF StrayInv, LoopInv, Ends
<1>5. ASSUME ~strayed' PROVE ListsInv'
  <2>1. ListsInv
    BY <1>1, <1>5 DEF StrayInv
  <2>2. CASE cur.flushPendingWork
    BY <1>2, <1>3, <2>1, <2>2, LastRound DEF ListsInv
  <2>3. CASE ~cur.flushPendingWork
    BY <1>2, <1>3, <1>5, <2>1, <2>3, OrdinaryRound DEF ListsInv
  <2> QED BY <2>2, <2>3
<1> QED
  BY <1>3, <1>4, <1>5

LEMMA LooperStray ==
    ASSUME TypeOK, StrayInv, Looper
    PROVE  StrayInv'
<1>1. CallInv'
  BY LooperCalls DEF StrayInv
<1>2. EndInv' /\ LoopInv' /\ (~strayed' => ListsInv')
  BY PopStray, StopStray, MessageStray, ReturnStray, ProcessStray, ErrorStray, DecodeStray DEF Looper
<1> QED
  BY <1>1, <1>2 DEF StrayInv

LEMMA StutterStray ==
    ASSUME StrayInv, UNCHANGED vars
    PROVE  StrayInv'
<1>0. UNCHANGED <<msgs, ctl, mRunning, mQueue, ended, mFlush, cur, codec, library, picture, strayed>>
  BY DEF vars, queueVars, looper, decoderVars, clientVars
<1>1. CallInv' /\ EndInv' /\ LoopInv'
  BY <1>0 DEF StrayInv, CallInv, EndInv, QueueEnds, LoopInv, Over, Ends
<1>2. ~strayed' => ListsInv'
  BY <1>0 DEF StrayInv, ListsInv, Level, Over
<1> QED
  BY <1>1, <1>2 DEF StrayInv

LEMMA InitStray ==
    ASSUME Init
    PROVE  StrayInv
<1>1. CallInv /\ EndInv /\ LoopInv
  BY DEF Init, CallInv, Awaiting, EndInv, QueueEnds, LoopInv, IdleCur
<1>2. Level
  BY DEF Init, Level, NewCodec
<1>3. ListsInv
  BY <1>2 DEF Init, ListsInv, IdleCur, NewCodec
<1> QED
  BY <1>1, <1>3 DEF StrayInv

\* A work comes back with the picture of its own input, however late the library is, for
\* any number of works, flushes, stops and failures, unless strayed says why not.
THEOREM PictureCorrect == Spec => []PictureOfItsWork
<1>1. Init => TypeOK /\ StrayInv
  BY InitType, InitStray
<1>2. TypeOK /\ StrayInv /\ [Next]_vars => (TypeOK /\ StrayInv)'
  BY NextType, ClientStray, LooperStray, StutterStray DEF Next
<1>3. StrayInv => PictureOfItsWork
  BY DEF StrayInv, ListsInv, PictureOfItsWork
<1> QED
  BY <1>1, <1>2, <1>3, PTL DEF Spec

(* The order in which works come back: they are taken out of the queue in    *)
(* the order they were queued, and what is pending waits in the list of the  *)
(* decoder, which the end of the stream empties.                             *)

\* Works are queued in their order, and mQueue has those that wait in it.
ClientLast == \A v, w \in Works : v < w /\ loc[v] = "client" => loc[w] = "client"
WorksOf(q) == {q[i] : i \in 1..Len(q)}
Rising(q) == \A i, j \in 1..Len(q) : i < j /\ q[i] # 0 /\ q[j] # 0 => q[i] < q[j]
QueueOrder ==
    /\ \A w \in Works : loc[w] = "queue" <=> w \in WorksOf(mQueue)
    /\ Rising(mQueue)

\* The work the looper has came before those in the queue, and is of an old generation if
\* there was a flush since; then nothing is pending.
Active == cur.pc # "idle"
HandInv ==
    /\ \A w \in Works : loc[w] = "processing" <=> Active /\ w = cur.work
    /\ Active => cur.generation <= mGeneration /\ (mFlush => cur.generation < mGeneration)
    /\ Active /\ cur.work # 0 => \A v \in WorksOf(mQueue) : v # 0 => cur.work < v
    /\ mFlush => In("pending") = {}
    /\ cur.pc \in {"loop", "tail"} => cur.work # 0

OrderInv == ClientLast /\ QueueOrder /\ HandInv

LEMMA OrderTypes ==
    ASSUME TypeOK
    PROVE  /\ mQueue \in Seq(Entry) /\ Works \subseteq Nat /\ 0 \notin Works
           /\ WorksOf(mQueue) \subseteq Entry
           /\ cur.work \in Entry /\ cur.generation \in Nat /\ mGeneration \in Nat
<1>1. mQueue \in Seq(Entry)
  BY DEF TypeOK, Entry
<1>2. WorksOf(mQueue) \subseteq Entry
  BY <1>1 DEF WorksOf
<1>3. Works \subseteq Nat /\ 0 \notin Works
  BY WorksAssumption DEF Works
<1> QED
  BY <1>1, <1>2, <1>3 DEF TypeOK, CurSet, Entry

LEMMA LongerQueue ==
    ASSUME TypeOK, NEW e \in Entry, mQueue' = Append(mQueue, e), Rising(mQueue),
           e # 0 => \A v \in WorksOf(mQueue) : v # 0 => v < e
    PROVE  WorksOf(mQueue') = WorksOf(mQueue) \cup {e} /\ Rising(mQueue')
<1>1. PICK n \in Nat : n = Len(mQueue)
  BY QueueGrows
<1>2. /\ Len(mQueue') = n + 1 /\ mQueue'[n + 1] = e /\ \A i \in 1..n : mQueue'[i] = mQueue[i]
      /\ \A i \in 1..n + 1 : i \in 1..n \/ i = n + 1
  BY <1>1, QueueGrows
<1>3. WorksOf(mQueue') = WorksOf(mQueue) \cup {e}
  BY <1>1, <1>2 DEF WorksOf
<1>4. Rising(mQueue')
  <2> SUFFICES ASSUME NEW i \in 1..n + 1, NEW j \in 1..n + 1, i < j, mQueue'[i] # 0, mQueue'[j] # 0
               PROVE  mQueue'[i] < mQueue'[j]
    BY <1>2 DEF Rising
  <2>1. i \in 1..n
    BY <1>2
  <2>2. CASE j \in 1..n
    BY <1>1, <1>2, <2>1, <2>2 DEF Rising
  <2>3. CASE j = n + 1
    <3>1. mQueue[i] \in WorksOf(mQueue)
      BY <1>1, <2>1 DEF WorksOf
    <3> QED BY <1>2, <2>1, <2>3, <3>1
  <2> QED BY <1>2, <2>2, <2>3
<1> QED
  BY <1>3, <1>4

LEMMA ShorterQueue ==
    ASSUME TypeOK, mQueue # <<>>, mQueue' = Tail(mQueue), Rising(mQueue)
    PROVE  /\ WorksOf(mQueue) = WorksOf(mQueue') \cup {Head(mQueue)} /\ Rising(mQueue')
           /\ Head(mQueue) # 0 => \A v \in WorksOf(mQueue') : v # 0 => Head(mQueue) < v
<1>1. PICK n \in Nat : n = Len(mQueue)
  BY QueueShrinks
<1>2. /\ Head(mQueue) = mQueue[1] /\ 1 \in 1..n /\ Len(mQueue') = n - 1
      /\ \A i \in 1..n - 1 : i + 1 \in 1..n /\ mQueue'[i] = mQueue[i + 1]
  BY <1>1, QueueShrinks
<1>3. \A i \in 1..n : i = 1 \/ (i - 1 \in 1..n - 1 /\ mQueue[i] = mQueue'[i - 1])
  BY <1>2
<1>4. WorksOf(mQueue) = WorksOf(mQueue') \cup {Head(mQueue)}
  <2>1. ASSUME NEW v \in WorksOf(mQueue) PROVE v \in WorksOf(mQueue') \cup {Head(mQueue)}
    <3>1. PICK i \in 1..n : v = mQueue[i]
      BY <1>1, <2>1 DEF WorksOf
    <3> QED BY <1>2, <1>3, <3>1 DEF WorksOf
  <2>2. ASSUME NEW v \in WorksOf(mQueue') PROVE v \in WorksOf(mQueue)
    <3>1. PICK i \in 1..n - 1 : v = mQueue'[i]
      BY <1>2, <2>2 DEF WorksOf
    <3> QED BY <1>1, <1>2, <3>1 DEF WorksOf
  <2>3. Head(mQueue) \in WorksOf(mQueue)
    BY <1>1, <1>2 DEF WorksOf
  <2> QED BY <2>1, <2>2, <2>3
<1>5. Rising(mQueue')
  <2> SUFFICES ASSUME NEW i \in 1..n - 1, NEW j \in 1..n - 1, i < j, mQueue'[i] # 0, mQueue'[j] # 0
               PROVE  mQueue'[i] < mQueue'[j]
    BY <1>2 DEF Rising
  <2>1. i + 1 \in 1..n /\ j + 1 \in 1..n /\ i + 1 < j + 1
    BY <1>2
  <2> QED BY <1>1, <1>2, <2>1 DEF Rising
<1>6. ASSUME Head(mQueue) # 0, NEW v \in WorksOf(mQueue'), v # 0 PROVE Head(mQueue) < v
  <2>1. PICK i \in 1..n - 1 : v = mQueue'[i]
    BY <1>2, <1>6 DEF WorksOf
  <2>2. i + 1 \in 1..n /\ v = mQueue[i + 1] /\ 1 < i + 1
    BY <1>2, <2>1
  <2> QED BY <1>1, <1>2, <1>6, <2>2 DEF Rising
<1> QED
  BY <1>4, <1>5, <1>6

LEMMA NoQueue == WorksOf(<<>>) = {} /\ Rising(<<>>)
  BY DEF WorksOf, Rising

\* Steps that move no work but out of the looper's hands and of mPendingWork.
LEMMA LeaveOrder ==
    ASSUME OrderInv, UNCHANGED mQueue,
           \A w \in Works : loc'[w] = loc[w]
                            \/ /\ loc[w] \in {"processing", "pending"}
                               /\ loc'[w] \notin {"client", "queue", "processing"}
    PROVE  ClientLast' /\ QueueOrder'
<1>1. \A w \in Works : loc'[w] = "client" <=> loc[w] = "client"
  OBVIOUS
<1>2. \A w \in Works : loc'[w] = "queue" <=> loc[w] = "queue"
  OBVIOUS
<1>3. ClientLast'
  BY <1>1 DEF OrderInv, ClientLast
<1>4. QueueOrder'
  BY <1>2 DEF OrderInv, QueueOrder
<1> QED
  BY <1>3, <1>4

LEMMA SameOrder ==
    ASSUME OrderInv, UNCHANGED <<loc, mQueue, mFlush, mGeneration, cur>>
    PROVE  OrderInv'
<1>1. ClientLast' /\ QueueOrder'
  BY LeaveOrder
<1>2. HandInv'
  BY DEF OrderInv, HandInv, Active, In
<1> QED
  BY <1>1, <1>2 DEF OrderInv

LEMMA QueueOrderKept ==
    ASSUME TypeOK, OrderInv, NEW w \in Works, queue_nb(w)
    PROVE  OrderInv'
<1>1. /\ mQueue' = Append(mQueue, w) /\ loc' = [loc EXCEPT ![w] = "queue"] /\ loc[w] = "client"
      /\ w \in Entry /\ w # 0 /\ UNCHANGED <<mFlush, mGeneration, cur>>
      /\ \A v \in In("client") : w <= v
  BY OrderTypes DEF queue_nb, Enqueue, Entry, looper
<1>2. \A v \in Works : loc'[v] = IF v = w THEN "queue" ELSE loc[v]
  BY <1>1 DEF TypeOK
<1>3. \A v \in Works : loc[v] # "client" => v < w
  <2> TAKE v \in Works
  <2>1. v \in Int /\ w \in Int
    BY OrderTypes
  <2>2. w < v => loc[v] = "client"
    BY <1>1 DEF OrderInv, ClientLast
  <2> QED BY <1>1, <2>1, <2>2
<1>4. \A v \in WorksOf(mQueue) : v # 0 => v \in Works /\ loc[v] = "queue"
  BY OrderTypes DEF OrderInv, QueueOrder, Entry
<1>5. WorksOf(mQueue') = WorksOf(mQueue) \cup {w} /\ Rising(mQueue')
  BY <1>1, <1>3, <1>4, LongerQueue DEF OrderInv, QueueOrder
<1>6. ClientLast'
  <2> SUFFICES ASSUME NEW v \in Works, NEW u \in Works, v < u, loc'[v] = "client"
               PROVE  loc'[u] = "client"
    BY DEF ClientLast
  <2>1. v # w /\ loc[v] = "client" /\ w <= v
    BY <1>1, <1>2 DEF In
  <2>2. u # w
    BY <2>1, OrderTypes
  <2> QED BY <1>2, <2>1, <2>2 DEF OrderInv, ClientLast
<1>7. QueueOrder'
  BY <1>2, <1>5 DEF OrderInv, QueueOrder
<1>8. HandInv'
  <2>1. \A v \in Works : loc'[v] = "processing" <=> loc[v] = "processing"
    BY <1>1, <1>2
  <2>2. In("pending")' = In("pending")
    BY <1>1, <1>2 DEF In
  <2>3. Active /\ cur.work # 0 => cur.work < w
    <3> SUFFICES ASSUME Active, cur.work # 0 PROVE cur.work < w
      OBVIOUS
    <3>1. cur.work \in Works
      BY OrderTypes DEF Entry
    <3>2. loc[cur.work] = "processing"
      BY <3>1 DEF OrderInv, HandInv
    <3> QED BY <1>3, <3>1, <3>2
  <2> QED BY <1>1, <1>5, <2>1, <2>2, <2>3 DEF OrderInv, HandInv, Active
<1> QED
  BY <1>6, <1>7, <1>8 DEF OrderInv

LEMMA DrainOrderKept ==
    ASSUME TypeOK, OrderInv, drain_nb
    PROVE  OrderInv'
<1>1. mQueue' = Append(mQueue, 0) /\ 0 \in Entry /\ UNCHANGED <<loc, mFlush, mGeneration, cur>>
  BY DEF drain_nb, Enqueue, Entry, looper
<1>2. WorksOf(mQueue') = WorksOf(mQueue) \cup {0} /\ Rising(mQueue')
  BY <1>1, LongerQueue DEF OrderInv, QueueOrder
<1>3. ClientLast'
  BY <1>1 DEF OrderInv, ClientLast
<1>4. QueueOrder'
  BY <1>1, <1>2, OrderTypes DEF OrderInv, QueueOrder
<1>5. HandInv'
  BY <1>1, <1>2 DEF OrderInv, HandInv, Active, In
<1> QED
  BY <1>3, <1>4, <1>5 DEF OrderInv

\* A flush, stop or reset takes back what waits.
LEMMA ClearOrderKept ==
    ASSUME TypeOK, OrderInv, NEW place \in {"flushed", "destroyed"},
           mQueue' = <<>>, loc' = Moved(In("queue") \cup In("pending"), place), UNCHANGED cur,
           \/ UNCHANGED <<mFlush, mGeneration>>
           \/ mFlush' = TRUE /\ mGeneration' = mGeneration + 1
    PROVE  OrderInv'
<1>1. \A w \in Works :
          loc'[w] = IF loc[w] \in {"queue", "pending"} THEN place ELSE loc[w]
  BY DEF Moved, In
<1>2. \A w \in Works : /\ loc'[w] = "client" <=> loc[w] = "client"
                       /\ loc'[w] = "processing" <=> loc[w] = "processing"
                       /\ loc'[w] \notin {"queue", "pending"}
  BY <1>1
<1>3. ClientLast'
  BY <1>2 DEF OrderInv, ClientLast
<1>4. QueueOrder'
  BY <1>2, NoQueue DEF QueueOrder
<1>5. HandInv'
  <2>1. In("pending")' = {}
    BY <1>2 DEF In
  <2>2. Active => cur.generation <= mGeneration' /\ (mFlush' => cur.generation < mGeneration')
    BY OrderTypes DEF OrderInv, HandInv
  <2>3. WorksOf(mQueue') = {}
    BY NoQueue
  <2>4. \A w \in Works : loc'[w] = "processing" <=> Active /\ w = cur.work
    BY <1>2 DEF OrderInv, HandInv
  <2>5. cur.pc \in {"loop", "tail"} => cur.work # 0
    BY DEF OrderInv, HandInv
  <2> QED BY <2>1, <2>2, <2>3, <2>4, <2>5 DEF HandInv, Active
<1> QED
  BY <1>3, <1>4, <1>5 DEF OrderInv

LEMMA PopOrderKept ==
    ASSUME TypeOK, OrderInv, Pop
    PROVE  OrderInv'
<1>1. /\ mQueue # <<>> /\ mQueue' = Tail(mQueue) /\ cur.pc = "idle" /\ mFlush' = FALSE
      /\ mGeneration' = mGeneration
  BY DEF Pop, Take
<1>2. PICK e \in Entry : e = Head(mQueue)
  BY PopTypes
<1>3. /\ cur'.pc = "popped" /\ cur'.work = e /\ cur'.generation = mGeneration
      /\ loc' = IF e = 0 THEN loc ELSE [loc EXCEPT ![e] = "processing"]
  BY <1>2 DEF Pop, IdleCur
<1>4. /\ WorksOf(mQueue) = WorksOf(mQueue') \cup {e} /\ Rising(mQueue')
      /\ e # 0 => \A v \in WorksOf(mQueue') : v # 0 => e < v
  BY <1>1, <1>2, ShorterQueue DEF OrderInv, QueueOrder
<1>5. e # 0 => e \in Works /\ loc[e] = "queue"
  BY <1>4 DEF OrderInv, QueueOrder, Entry
<1>6. \A w \in Works : loc'[w] = IF w = e THEN "processing" ELSE loc[w]
  BY <1>3, OrderTypes DEF TypeOK
<1>7. e # 0 => e \notin WorksOf(mQueue')
  BY <1>4, <1>5, OrderTypes
<1>8. ClientLast'
  BY <1>5, <1>6, OrderTypes DEF OrderInv, ClientLast
<1>9. QueueOrder'
  <2> SUFFICES ASSUME NEW w \in Works PROVE loc'[w] = "queue" <=> w \in WorksOf(mQueue')
    BY <1>4 DEF QueueOrder
  <2>1. w # 0 /\ (loc[w] = "queue" <=> w \in WorksOf(mQueue))
    BY OrderTypes DEF OrderInv, QueueOrder
  <2>2. CASE w = e
    BY <1>6, <1>7, <2>1, <2>2
  <2>3. CASE w # e
    BY <1>4, <1>6, <2>1, <2>3
  <2> QED BY <2>2, <2>3
<1>10. HandInv'
  <2>1. \A w \in Works : loc[w] # "processing"
    BY <1>1 DEF OrderInv, HandInv, Active
  <2>2. \A w \in Works : loc'[w] = "processing" <=> w = e
    BY <1>6, <2>1
  <2> QED BY <1>1, <1>3, <1>4, <2>2, OrderTypes DEF HandInv, Active
<1> QED
  BY <1>8, <1>9, <1>10 DEF OrderInv

\* The looper goes on with its work.
LEMMA StepOrderKept ==
    ASSUME TypeOK, OrderInv, UNCHANGED <<mQueue, mFlush, mGeneration>>, Active,
           cur'.pc \in {"loop", "tail"}, cur'.work = cur.work, cur.work # 0,
           cur'.generation = cur.generation,
           \A w \in Works : loc'[w] = loc[w] \/ (loc[w] = "pending" /\ loc'[w] = "done")
    PROVE  OrderInv'
<1>1. ClientLast' /\ QueueOrder'
  BY LeaveOrder
<1>2. HandInv'
  <2>1. \A w \in Works : loc'[w] = "processing" <=> loc[w] = "processing"
    OBVIOUS
  <2>2. In("pending")' \subseteq In("pending")
    BY DEF In
  <2>3. cur'.pc # "idle"
    OBVIOUS
  <2> QED BY <2>1, <2>2, <2>3 DEF OrderInv, HandInv, Active
<1> QED
  BY <1>1, <1>2 DEF OrderInv

\* The work leaves its hands.
LEMMA LeaveOrderKept ==
    ASSUME TypeOK, OrderInv, UNCHANGED <<mQueue, mFlush, mGeneration>>, Active,
           cur'.pc = "idle",
           \A w \in Works : w # cur.work => loc'[w] = loc[w],
           cur.work # 0 => loc'[cur.work] \notin {"client", "queue", "processing"},
           cur.work # 0 /\ mFlush => loc'[cur.work] # "pending"
    PROVE  OrderInv'
<1>1. \A w \in Works : w # 0
  BY OrderTypes
<1>2. \A w \in Works : loc[w] = "processing" <=> w = cur.work
  BY DEF OrderInv, HandInv
<1>3. ClientLast' /\ QueueOrder'
  BY <1>1, <1>2, LeaveOrder
<1>4. HandInv'
  <2>1. \A w \in Works : loc'[w] # "processing"
    BY <1>1, <1>2
  <2>2. mFlush => In("pending")' = {}
    BY <1>1, <1>2 DEF OrderInv, HandInv, In
  <2> QED BY <2>1, <2>2 DEF HandInv, Active
<1> QED
  BY <1>3, <1>4 DEF OrderInv

\* What a round of the loop does to the places of works, whatever it finds.
LEMMA RoundPlaces ==
    ASSUME TypeOK, NEW corrupt \in BOOLEAN, Decode(corrupt)
    PROVE  /\ cur.pc = "loop" /\ cur'.pc \in {"loop", "tail"} /\ cur'.work = cur.work
           /\ cur'.generation = cur.generation
           /\ \A w \in Works : loc'[w] = loc[w] \/ (loc[w] = "pending" /\ loc'[w] = "done")
<1>0. cur.pc = "loop"
  BY RoundCases
<1>1. PICK frames \in Seq(Works) : frames = Decoded(corrupt)
  BY <1>0, DecodedType
<1>2. ASSUME NEW p, Picture(p)
      PROVE  /\ cur'.pc \in {"loop", "tail"} /\ cur'.work = cur.work
             /\ cur'.generation = cur.generation
             /\ \A w \in Works : loc'[w] = loc[w] \/ (loc[w] = "pending" /\ loc'[w] = "done")
  <2>1. PICK t \in Works : t = Head(Waiting)
    BY <1>0, WaitingType
  <2>2. loc' = loc \/ (loc' = [loc EXCEPT ![t] = "done"] /\ loc[t] = "pending")
    BY <1>2, <2>1 DEF Picture
  <2>3. cur' = cur \/ \E r \in BOOLEAN : cur' = [cur EXCEPT !.pc = "tail", !.processed = r]
    BY <1>2 DEF Picture, Processed, Ends
  <2>4. \A w \in Works : loc'[w] = loc[w] \/ (loc[w] = "pending" /\ loc'[w] = "done")
    BY <2>2 DEF TypeOK
  <2> QED BY <1>0, <2>3, <2>4 DEF TypeOK, CurSet
<1>3. ASSUME NoPicture(corrupt)
      PROVE  /\ cur'.pc \in {"loop", "tail"} /\ cur'.work = cur.work
             /\ cur'.generation = cur.generation /\ loc' = loc
  BY <1>3 DEF NoPicture, Processed, TypeOK, CurSet
<1> QED
  BY <1>0, <1>1, <1>2, <1>3, RoundCases DEF Left, NextPicture, NoNext

LEMMA ClientOrder ==
    ASSUME TypeOK, OrderInv, Client
    PROVE  OrderInv'
<1> USE DEF queueVars, looper
<1>1. CASE PostProcess \/ FlushReturn \/ start \/ InitReturn \/ release
  BY <1>1, SameOrder DEF PostProcess, FlushReturn, start, InitReturn, release
<1>2. CASE flush_sm
  BY <1>2, ClearOrderKept DEF flush_sm
<1>3. ASSUME NEW c, NEW s, Clear(c, c, s) PROVE OrderInv'
  BY <1>3, ClearOrderKept DEF Clear
<1> QED
  BY <1>1, <1>2, <1>3, QueueOrderKept, DrainOrderKept DEF Client, stop, reset

LEMMA LooperOrder ==
    ASSUME TypeOK, OrderInv, Looper
    PROVE  OrderInv'
<1> USE DEF queueVars, decoderVars, counts, clientVars
<1>1. CASE \/ \E ok \in BOOLEAN : InitMessage(ok)
           \/ StartMessage \/ StopMessage \/ ResetMessage \/ ReleaseMessage \/ ProcessNothing
  BY <1>1, SameOrder
  DEF InitMessage, StartMessage, StopMessage, ResetMessage, ReleaseMessage, ProcessNothing, looper
<1>2. CASE NoPool
  <2>1. \A w \in Works : w # cur.work => loc'[w] = loc[w]
    BY <1>2, OrderTypes DEF NoPool, TypeOK
  <2>2. cur.work # 0 => loc'[cur.work] = "destroyed"
    BY <1>2, OrderTypes DEF NoPool, TypeOK, Entry
  <2> QED BY <1>2, <2>1, <2>2, LeaveOrderKept, ReturnType DEF NoPool, Active
<1>3. CASE Drain
  <2>1. cur.work = 0 /\ loc' = loc
    BY <1>3 DEF Drain
  <2> QED BY <1>3, <2>1, LeaveOrderKept, ReturnType DEF Drain, Active
<1>4. ASSUME NEW data \in BOOLEAN, Process(data) PROVE OrderInv'
  <2>1. cur'.pc \in {"loop", "tail"} /\ cur'.work = cur.work /\ cur'.generation = cur.generation
    BY <1>4 DEF Process, Processed, TypeOK, CurSet
  <2> QED BY <1>4, <2>1, StepOrderKept DEF Process, Active
<1>5. CASE FetchError \/ MapError
  <2>1. /\ cur'.pc = "tail" /\ cur'.work = cur.work /\ cur'.generation = cur.generation
        /\ cur.pc = "loop"
    BY <1>5 DEF FetchError, MapError, Processed, TypeOK, CurSet
  <2>2. cur.work # 0
    BY <2>1 DEF TypeOK
  <2> QED BY <1>5, <2>1, <2>2, StepOrderKept DEF FetchError, MapError, Active
<1>6. ASSUME NEW corrupt \in BOOLEAN, Decode(corrupt) PROVE OrderInv'
  <2>1. cur.work # 0 /\ Active
    BY <1>6, RoundPlaces DEF TypeOK, Active
  <2> QED BY <1>6, <2>1, RoundPlaces, StepOrderKept DEF Decode
<1>7. CASE EndOfProcess
  <2>1. cur.pc = "tail" /\ cur.work # 0 /\ cur.work \in Works
    BY <1>7, OrderTypes DEF EndOfProcess, OrderInv, HandInv, Entry
  <2>2. /\ \A w \in Works : w # cur.work => loc'[w] = loc[w]
        /\ loc'[cur.work] = IF Outdated THEN "notFound" ELSE IF cur.processed THEN "done" ELSE "pending"
    BY <1>7, <2>1 DEF EndOfProcess, TypeOK
  <2>3. mFlush => Outdated
    BY <2>1, OrderTypes DEF OrderInv, HandInv, Active, Outdated
  <2> QED BY <1>7, <2>1, <2>2, <2>3, LeaveOrderKept, ReturnType DEF EndOfProcess, Active
<1> QED
  BY <1>1, <1>2, <1>3, <1>4, <1>5, <1>6, <1>7, PopOrderKept DEF Looper

LEMMA NextOrder ==
    ASSUME TypeOK, OrderInv, [Next]_vars
    PROVE  OrderInv'
<1>1. CASE UNCHANGED vars
  BY <1>1, SameOrder DEF vars, queueVars, looper
<1> QED
  BY <1>1, ClientOrder, LooperOrder DEF Next

LEMMA InitOrder == Init => OrderInv
<1> SUFFICES ASSUME Init PROVE OrderInv
  OBVIOUS
<1>1. \A w \in Works : loc[w] = "client"
  BY DEF Init
<1>2. cur.pc = "idle" /\ mQueue = <<>> /\ mFlush = FALSE
  BY DEF Init, IdleCur
<1> QED
  BY <1>1, <1>2, NoQueue DEF OrderInv, ClientLast, QueueOrder, HandInv, Active

\* The end of the stream does not come as codec config.
EosNotCsd == EosWorks \cap CsdWorks = {}

\* A stop that waits has been counted.
SeenInv == (ctl = "stop" => "stop" \in seen) /\ (ctl = "reset" => "reset" \in seen)

\* While nothing disturbs them: a work that is pending waits in the list of the decoder,
\* which the end of the stream leaves empty.
PendingInv ==
    /\ codec.mSignalledOutputEos => Over
    /\ cur.pc = "popped" /\ cur.work # 0 => ~codec.mSignalledOutputEos
    /\ ~codec.mSignalledError
    /\ WorksOf(codec.indexes) \cap EosWorks = {}
    /\ In("pending") \subseteq WorksOf(codec.indexes)
    /\ cur.pc = "loop" /\ Ends /\ ~cur.flushPendingWork => codec.indexes = <<>>
    /\ cur.pc = "tail" /\ ~cur.processed => cur.work \in WorksOf(codec.indexes)
    /\ cur.pc = "tail" /\ Ends => cur.processed /\ codec.indexes = <<>>
ReportInv == SeenInv /\ (Undisturbed => PendingInv)

\* History only grows, and says what a call has done.
LEMMA HistoryGrows ==
    ASSUME [Next]_vars
    PROVE  (strayed => strayed') /\ seen \subseteq seen'
<1> USE DEF queueVars, looper, decoderVars, counts, clientVars
<1>1. ASSUME Client PROVE (strayed => strayed') /\ seen \subseteq seen'
  BY <1>1 DEF Client, queue_nb, drain_nb, PostProcess, flush_sm, FlushReturn, start, InitReturn,
              stop, reset, release, Clear, Counted
<1>2. ASSUME Looper PROVE (strayed => strayed') /\ seen \subseteq seen'
  <2>1. ASSUME NEW ok \in BOOLEAN, InitMessage(ok) PROVE (strayed => strayed') /\ seen \subseteq seen'
    BY <2>1 DEF InitMessage, Counted
  <2>2. CASE StartMessage \/ ReleaseMessage \/ ProcessNothing \/ Pop
    BY <2>2 DEF StartMessage, ReleaseMessage, ProcessNothing, Pop
  <2>7. CASE NoPool
    BY <2>7 DEF NoPool, Counted
  <2>8. CASE MapError
    BY <2>8 DEF MapError, Counted
  <2>9. CASE Drain
    BY <2>9 DEF Drain
  <2>10. CASE EndOfProcess
    BY <2>10 DEF EndOfProcess
  <2>3. CASE StopMessage \/ ResetMessage
    BY <2>3 DEF StopMessage, ResetMessage, onStop
  <2>4. CASE FetchError
    BY <2>4 DEF FetchError, Counted
  <2>5. ASSUME NEW data \in BOOLEAN, Process(data) PROVE (strayed => strayed') /\ seen \subseteq seen'
    BY <2>5 DEF Process
  <2>6. ASSUME NEW corrupt \in BOOLEAN, Decode(corrupt)
        PROVE  (strayed => strayed') /\ seen \subseteq seen'
    BY <2>6 DEF Decode, Picture, NoPicture, Counted
  <2> QED BY <1>2, <2>1, <2>2, <2>3, <2>4, <2>5, <2>6, <2>7, <2>8, <2>9, <2>10 DEF Looper
<1>3. ASSUME UNCHANGED vars PROVE (strayed => strayed') /\ seen \subseteq seen'
  BY <1>3 DEF vars
<1> QED
  BY <1>1, <1>2, <1>3 DEF Next

LEMMA UndisturbedBefore ==
    ASSUME [Next]_vars, Undisturbed'
    PROVE  Undisturbed
  BY HistoryGrows DEF Undisturbed

LEMMA NextSeen ==
    ASSUME SeenInv, [Next]_vars
    PROVE  SeenInv'
<1> USE DEF queueVars, looper, decoderVars, counts, clientVars
<1>1. seen \subseteq seen'
  BY HistoryGrows
<1>2. ctl' = ctl \/ ctl' \notin {"stop", "reset"} \/ stop \/ reset
  <2>1. ASSUME Client PROVE ctl' = ctl \/ ctl' \notin {"stop", "reset"} \/ stop \/ reset
    BY <2>1 DEF Client, queue_nb, drain_nb, PostProcess, flush_sm, FlushReturn, start, InitReturn,
                release
  <2>2. ASSUME Looper PROVE ctl' = ctl \/ ctl' \notin {"stop", "reset"}
    BY <2>2 DEF Looper, InitMessage, StartMessage, StopMessage, ResetMessage, ReleaseMessage,
                ProcessNothing, Pop, NoPool, Drain, Process, FetchError, MapError, Decode,
                EndOfProcess
  <2>3. ASSUME UNCHANGED vars PROVE ctl' = ctl
    BY <2>3 DEF vars
  <2> QED BY <2>1, <2>2, <2>3 DEF Next
<1>3. (stop => ctl' = "stop" /\ "stop" \in seen') /\ (reset => ctl' = "reset" /\ "reset" \in seen')
  BY DEF stop, reset, Clear, Counted
<1> QED
  BY <1>1, <1>2, <1>3 DEF SeenInv

\* Calls and failures after which nothing is promised.
LEMMA Calm ==
    ASSUME TypeOK, StrayInv, SeenInv, Next, Undisturbed'
    PROVE  ~(stop \/ reset \/ StopMessage \/ ResetMessage \/ NoPool \/ FetchError \/ MapError)
<1>1. seen \subseteq seen'
  BY HistoryGrows
<1>2. ~stop /\ ~reset /\ ~NoPool /\ ~FetchError /\ ~MapError
  BY DEF stop, reset, Clear, NoPool, FetchError, MapError, Counted, Undisturbed
<1>3. StopMessage => ctl = "stop"
  BY TakeCalls DEF StopMessage, StrayInv, Awaited, Awaits
<1>4. ResetMessage => ctl = "reset"
  BY TakeCalls DEF ResetMessage, StrayInv, Awaited, Awaits
<1> QED
  BY <1>1, <1>2, <1>3, <1>4 DEF SeenInv, Undisturbed

LEMMA ClientPending ==
    ASSUME TypeOK, PendingInv, Client, ~stop, ~reset
    PROVE  PendingInv'
<1>1. UNCHANGED <<cur, codec>> /\ (Over => Over')
  BY ClientOver DEF looper, decoderVars
<1>2. In("pending")' \subseteq In("pending")
  <2> USE DEF queueVars, looper
  <2>1. CASE PostProcess \/ FlushReturn \/ start \/ InitReturn \/ release \/ drain_nb
    BY <2>1 DEF PostProcess, FlushReturn, start, InitReturn, release, drain_nb, In
  <2>2. CASE flush_sm
    BY <2>2 DEF flush_sm, In, Moved
  <2>3. ASSUME NEW w \in Works, queue_nb(w) PROVE In("pending")' \subseteq In("pending")
    BY <2>3 DEF queue_nb, In, TypeOK
  <2> QED BY <2>1, <2>2, <2>3 DEF Client
<1> QED
  BY <1>1, <1>2 DEF PendingInv, Ends

\* Over is only ended by an entry that is taken out of the queue.
LEMMA LooperOver ==
    ASSUME TypeOK, StrayInv, Looper, ~StopMessage, ~ResetMessage, ~Pop
    PROVE  Over => Over'
<1> USE DEF queueVars, looper, decoderVars, counts, clientVars
<1>1. ASSUME NEW ok \in BOOLEAN, InitMessage(ok) PROVE Over => Over'
  <2>1. ctl = "initializing"
    BY <1>1, TakeCalls DEF InitMessage, StrayInv, Awaited, Awaits
  <2> QED BY <1>1, <2>1 DEF InitMessage, Over
<1>2. CASE ReleaseMessage
  BY <1>2 DEF ReleaseMessage, Over
<1>3. ASSUME UNCHANGED <<mFlush, ctl, mQueue, ended>> PROVE Over => Over'
  BY <1>3 DEF Over
<1>4. CASE StartMessage \/ ProcessNothing \/ NoPool \/ Drain \/ FetchError \/ MapError \/ EndOfProcess
  BY <1>3, <1>4 DEF StartMessage, ProcessNothing, NoPool, Drain, FetchError, MapError, EndOfProcess
<1>5. ASSUME NEW data \in BOOLEAN, Process(data) PROVE Over => Over'
  BY <1>3, <1>5 DEF Process
<1>6. ASSUME NEW corrupt \in BOOLEAN, Decode(corrupt) PROVE Over => Over'
  BY <1>3, <1>6 DEF Decode
<1> QED
  BY <1>1, <1>2, <1>4, <1>5, <1>6 DEF Looper

LEMMA MessagePending ==
    ASSUME TypeOK, StrayInv, PendingInv, Looper,
           \/ \E ok \in BOOLEAN : InitMessage(ok)
           \/ StartMessage \/ ReleaseMessage \/ ProcessNothing
    PROVE  PendingInv'
<1> USE DEF queueVars, looper, decoderVars, counts, clientVars
<1>1. /\ cur.pc = "idle" /\ UNCHANGED <<cur, loc>>
  BY DEF InitMessage, StartMessage, ReleaseMessage, ProcessNothing, Take
<1>2. /\ codec'.indexes = codec.indexes
      /\ codec'.mSignalledOutputEos = codec.mSignalledOutputEos
      /\ codec'.mSignalledError => codec.mSignalledError
  BY DEF InitMessage, StartMessage, ReleaseMessage, ProcessNothing, TypeOK, CodecSet
<1>3. Over => Over'
  BY <1>1, LooperOver DEF StopMessage, ResetMessage, Pop, Take, InitMessage, StartMessage,
                          ReleaseMessage, ProcessNothing
<1> QED
  BY <1>1, <1>2, <1>3 DEF PendingInv, In

LEMMA PopPending ==
    ASSUME TypeOK, StrayInv, OrderInv, PendingInv, Pop
    PROVE  PendingInv'
<1>1. /\ mQueue # <<>> /\ mQueue' = Tail(mQueue) /\ ctl # "released"
      /\ cur.pc = "idle" /\ UNCHANGED <<ended, ctl>>
  BY DEF Pop, Take, clientVars, StrayInv, CallInv
<1>2. PICK e \in Entry : e = Head(mQueue)
  BY PopTypes
<1>3. cur'.pc = "popped" /\ cur'.work = e
  BY <1>2 DEF Pop, IdleCur
<1>4. In("pending")' \subseteq In("pending")
  BY <1>2 DEF Pop, In, TypeOK
<1>5. CASE mFlush
  <2>1. codec'.indexes = <<>> /\ ~codec'.mSignalledError /\ ~codec'.mSignalledOutputEos
    BY <1>5, FlushTypes DEF Pop
  <2>2. In("pending")' = {}
    BY <1>4, <1>5 DEF OrderInv, HandInv
  <2> QED BY <1>3, <2>1, <2>2, NoQueue DEF PendingInv
<1>6. CASE ~mFlush
  <2>1. codec' = codec
    BY <1>6 DEF Pop
  <2>2. Over => Over' /\ e = 0
    <3> SUFFICES ASSUME Over PROVE Over' /\ e = 0
      OBVIOUS
    <3>1. OnlyDrains(mQueue) /\ (ended \/ ctl \in {"stop", "reset"})
      BY <1>1, <1>6 DEF Over
    <3>2. e = mQueue[1] /\ 1 \in 1..Len(mQueue)
          /\ \A i \in 1..Len(mQueue') : i + 1 \in 1..Len(mQueue) /\ mQueue'[i] = mQueue[i + 1]
      BY <1>1, <1>2, QueueShrinks
    <3>3. e = 0 /\ OnlyDrains(mQueue')
      BY <3>1, <3>2 DEF OnlyDrains
    <3> QED BY <1>1, <3>1, <3>3 DEF Over
  <2> QED BY <1>3, <1>4, <2>1, <2>2 DEF PendingInv
<1> QED
  BY <1>5, <1>6

LEMMA ProcessPending ==
    ASSUME EosNotCsd, TypeOK, StrayInv, PendingInv, NEW data \in BOOLEAN, Process(data)
    PROVE  PendingInv'
<1> USE DEF queueVars, counts, clientVars
<1>1. /\ cur.pc = "popped" /\ cur.work # 0 /\ (data \/ Ends)
      /\ UNCHANGED <<mQueue, ended, mFlush, ctl, loc>>
  BY DEF Process
<1>2. ~codec.mSignalledOutputEos /\ ~codec.mSignalledError
  BY <1>1 DEF PendingInv
<1>3. cur'.work = cur.work
  BY DEF Process, Processed, TypeOK, CurSet
<1>4. (Over => Over') /\ (Ends => Over')
  BY <1>1, <1>3, StepOver DEF StrayInv
<1>5. CASE cur.work \in CsdWorks
  <2>1. cur'.pc = "tail" /\ cur'.processed /\ codec' = codec
    BY <1>2, <1>5 DEF Process, Processed, TypeOK, CurSet
  <2>2. ~Ends /\ ~Ends'
    BY <1>3, <1>5 DEF EosNotCsd, Ends
  <2> QED BY <1>1, <1>2, <2>1, <2>2 DEF PendingInv, In
<1>6. CASE cur.work \notin CsdWorks /\ (data \/ codec.indexes # <<>>)
  <2>1. /\ codec' = codec /\ cur'.pc = "loop"
        /\ cur'.flushPendingWork = (Ends /\ codec.indexes # <<>>)
    BY <1>2, <1>6 DEF Process, TypeOK, CurSet
  <2>2. cur'.pc = "loop" /\ Ends' /\ ~cur'.flushPendingWork => codec'.indexes = <<>>
    BY <1>3, <2>1 DEF Ends
  <2> QED BY <1>1, <1>2, <2>1, <2>2 DEF PendingInv, In
<1>7. CASE cur.work \notin CsdWorks /\ ~data /\ codec.indexes = <<>>
  <2>1. /\ cur'.pc = "tail" /\ cur'.processed
        /\ codec' = [codec EXCEPT !.mSignalledOutputEos = TRUE]
    BY <1>2, <1>7 DEF Process, Processed, TypeOK, CurSet
  <2>2. /\ codec'.indexes = <<>> /\ ~codec'.mSignalledError
    BY <1>2, <1>7, <2>1 DEF TypeOK, CodecSet
  <2>3. Over'
    BY <1>1, <1>4, <1>7
  <2>4. In("pending")' \subseteq {}
    BY <1>1, <1>7, NoQueue DEF PendingInv, In
  <2> QED BY <2>1, <2>2, <2>3, <2>4, NoQueue DEF PendingInv
<1> QED
  BY <1>5, <1>6, <1>7

\* Lists of works, as sets.
LEMMA TailWorks ==
    ASSUME NEW s \in Seq(Works), s # <<>>
    PROVE  /\ WorksOf(s) = WorksOf(Tail(s)) \cup {Head(s)}
           /\ Tail(s) = <<>> => WorksOf(s) = {Head(s)}
<1>1. PICK n \in Nat : n = Len(s)
  OBVIOUS
<1>2. PICK t \in Seq(Works) : t = Tail(s) /\ Len(t) = n - 1 /\ \A i \in 1..n - 1 : t[i] = s[i + 1]
  <2>1. Tail(s) \in Seq(Works) /\ Len(Tail(s)) = n - 1 /\ \A i \in 1..n - 1 : Tail(s)[i] = s[i + 1]
    BY <1>1
  <2> QED BY <2>1
<1>3. n >= 1 /\ Head(s) = s[1] /\ 1 \in 1..n
  BY <1>1
<1>4. ASSUME NEW v \in WorksOf(s) PROVE v \in WorksOf(t) \cup {Head(s)}
  <2>1. PICK i \in 1..n : v = s[i]
    BY <1>1, <1>4 DEF WorksOf
  <2>2. CASE i = 1
    BY <1>3, <2>1, <2>2
  <2>3. CASE i # 1
    <3>1. i - 1 \in 1..n - 1 /\ t[i - 1] = s[i]
      BY <1>2, <2>3
    <3> QED BY <1>2, <2>1, <3>1 DEF WorksOf
  <2> QED BY <2>2, <2>3
<1>5. ASSUME NEW v \in WorksOf(t) PROVE v \in WorksOf(s)
  <2>1. PICK i \in 1..n - 1 : v = t[i]
    BY <1>2, <1>5 DEF WorksOf
  <2>2. i + 1 \in 1..n /\ v = s[i + 1]
    BY <1>2, <2>1
  <2> QED BY <1>1, <2>2 DEF WorksOf
<1>6. Head(s) \in WorksOf(s)
  BY <1>1, <1>3 DEF WorksOf
<1>7. WorksOf(s) = WorksOf(t) \cup {Head(s)}
  BY <1>4, <1>5, <1>6
<1> QED
  BY <1>2, <1>7, NoQueue

LEMMA AppendWorks ==
    ASSUME NEW s \in Seq(Works), NEW w \in Works
    PROVE  /\ WorksOf(Append(s, w)) = WorksOf(s) \cup {w}
           /\ s = <<>> => Tail(Append(s, w)) = <<>>
<1>1. PICK n \in Nat : n = Len(s)
  OBVIOUS
<1>2. PICK t \in Seq(Works) : t = Append(s, w) /\ Len(t) = n + 1 /\ t[n + 1] = w
                              /\ \A i \in 1..n : t[i] = s[i]
  <2>1. Append(s, w) \in Seq(Works) /\ Len(Append(s, w)) = n + 1 /\ Append(s, w)[n + 1] = w
        /\ \A i \in 1..n : Append(s, w)[i] = s[i]
    BY <1>1
  <2> QED BY <2>1
<1>3. \A i \in 1..n + 1 : i \in 1..n \/ i = n + 1
  OBVIOUS
<1>4. WorksOf(t) = WorksOf(s) \cup {w}
  BY <1>1, <1>2, <1>3 DEF WorksOf
<1> QED
  BY <1>2, <1>4

\* A round with a picture.
LEMMA PicturePending ==
    ASSUME TypeOK, StrayInv, OrderInv, PendingInv, cur.pc = "loop", NEW p \in Works, Picture(p),
           UNCHANGED <<mQueue, mFlush, ended, ctl>>
    PROVE  PendingInv'
<1>1. /\ Waiting \in Seq(Works) /\ Waiting # <<>> /\ cur.work \in Works
      /\ codec.indexes \in Seq(Works)
  BY WaitingType DEF TypeOK, CodecSet
<1>2. PICK t \in Works : t = Head(Waiting)
  BY WaitingType
<1>3. PICK s \in Seq(Works) : s = Tail(Waiting)
  BY WaitingType
<1>4. WorksOf(Waiting) = WorksOf(s) \cup {t}
  BY <1>1, <1>2, <1>3, TailWorks
<1>5. WorksOf(Waiting) = IF cur.flushPendingWork THEN WorksOf(codec.indexes)
                         ELSE WorksOf(codec.indexes) \cup {cur.work}
  BY <1>1, AppendWorks DEF Waiting
<1>6. /\ codec'.indexes = s /\ codec'.mSignalledError = codec.mSignalledError
      /\ codec'.mSignalledOutputEos = (Ends /\ ~GoesOn)
      /\ cur'.work = cur.work /\ cur'.pc \in {"loop", "tail"}
  BY <1>3, PictureTypes
<1>7. (Over => Over') /\ (Ends => Over')
  BY <1>6, StepOver DEF StrayInv
<1>9. GoesOn => cur' = cur
  BY DEF Picture
<1>10. ~GoesOn => cur' = [cur EXCEPT !.pc = "tail", !.processed = Ends \/ t = cur.work]
  BY <1>2 DEF Picture, Processed
<1>11. In("pending")' \subseteq In("pending") \ {t}
  <2>1. \A w \in Works : loc'[w] = loc[w] \/ loc'[w] = "done"
    BY <1>2 DEF Picture, TypeOK
  <2>2. loc'[t] # "pending"
    <3>1. CASE t = cur.work
      <4>1. loc[t] = "processing"
        BY <3>1 DEF OrderInv, HandInv, Active
      <4> QED BY <2>1, <4>1
    <3>2. CASE t # cur.work
      BY <1>2, <3>2 DEF Picture, TypeOK
    <3> QED BY <3>1, <3>2
  <2> QED BY <2>1, <2>2 DEF In
<1>12. In("pending")' \subseteq WorksOf(s)
  BY <1>4, <1>5, <1>11 DEF PendingInv
<1>13. Ends /\ ~cur.flushPendingWork => s = <<>>
  <2> SUFFICES ASSUME Ends, ~cur.flushPendingWork PROVE s = <<>>
    OBVIOUS
  <2>1. codec.indexes = <<>>
    BY DEF PendingInv
  <2>2. Tail(Append(codec.indexes, cur.work)) = <<>>
    BY <1>1, <2>1, AppendWorks
  <2> QED BY <1>3, <2>2 DEF Waiting
<1>14. WorksOf(s) \cap EosWorks = {}
  <2>1. CASE Ends /\ ~cur.flushPendingWork
    BY <1>13, <2>1, NoQueue
  <2>2. CASE cur.flushPendingWork
    BY <1>4, <1>5, <2>2 DEF PendingInv
  <2>3. CASE ~Ends /\ ~cur.flushPendingWork
    BY <1>4, <1>5, <2>3 DEF PendingInv, Ends
  <2> QED BY <2>1, <2>2, <2>3
<1>15. cur'.pc = "tail" => Ends' = Ends /\ ~GoesOn /\ (cur'.processed <=> Ends \/ t = cur.work)
  <2>1. Ends' = Ends
    BY <1>6 DEF Ends
  <2>2. cur'.pc = "tail" => ~GoesOn
    BY <1>9
  <2>3. PICK r \in BOOLEAN : r = (Ends \/ t = cur.work)
    BY DEF Ends
  <2>4. ~GoesOn => cur'.processed = r
    BY <1>10, <2>3 DEF TypeOK, CurSet
  <2> QED BY <2>1, <2>2, <2>3, <2>4
<1>16. cur'.pc = "tail" /\ ~cur'.processed => cur'.work \in WorksOf(codec'.indexes)
  <2> SUFFICES ASSUME cur'.pc = "tail", ~cur'.processed PROVE cur.work \in WorksOf(s)
    BY <1>6
  <2>1. ~Ends /\ t # cur.work
    BY <1>15
  <2>2. ~cur.flushPendingWork
    BY <2>1 DEF StrayInv, LoopInv
  <2> QED BY <1>4, <1>5, <2>1, <2>2
<1>17. cur'.pc = "tail" /\ Ends' => cur'.processed /\ codec'.indexes = <<>>
  <2> SUFFICES ASSUME cur'.pc = "tail", Ends' PROVE cur'.processed /\ s = <<>>
    BY <1>6
  <2>1. Ends /\ ~GoesOn /\ cur'.processed
    BY <1>15
  <2>2. cur.flushPendingWork => s = <<>>
    BY <1>3, <2>1 DEF GoesOn
  <2> QED BY <1>13, <2>1, <2>2
<1>18. ~(cur'.pc = "loop" /\ Ends' /\ ~cur'.flushPendingWork)
  <2>1. cur'.pc = "loop" => GoesOn
    BY <1>10 DEF TypeOK, CurSet
  <2> QED BY <1>9, <2>1 DEF GoesOn
<1>19. codec'.mSignalledOutputEos => Over'
  BY <1>6, <1>7
<1>20. ~codec'.mSignalledError
  BY <1>6 DEF PendingInv
<1> QED
  BY <1>6, <1>12, <1>14, <1>16, <1>17, <1>18, <1>19, <1>20 DEF PendingInv

\* A round without one.
LEMMA NoPicturePending ==
    ASSUME TypeOK, StrayInv, OrderInv, PendingInv, NEW corrupt \in BOOLEAN, Decode(corrupt),
           ~strayed', ListsInv, NoPicture(corrupt),
           corrupt \/ ~HasPicture(Decoded(corrupt))
    PROVE  PendingInv'
<1>1. /\ cur.pc = "loop" /\ UNCHANGED <<mQueue, ended, mFlush, ctl, loc>>
  BY RoundCases DEF Decode, NoPicture
<1>2. cur.work \in Works /\ codec.indexes \in Seq(Works)
  BY <1>1, WaitingType DEF TypeOK, CodecSet
<1>3. cur'.pc = "tail" /\ cur'.work = cur.work
  BY <1>1, NoPictureTypes
<1>4. (Over => Over') /\ (Ends => Over')
  BY <1>1, <1>3, StepOver DEF StrayInv
<1>5. Ends' = Ends
  BY <1>3 DEF Ends
<1>6. CASE Ends
  <2>1. /\ codec' = [codec EXCEPT !.mSignalledOutputEos = TRUE]
        /\ cur' = [cur EXCEPT !.pc = "tail", !.processed = TRUE]
    BY <1>6 DEF NoPicture, Processed
  <2>2. cur'.processed /\ codec'.indexes = codec.indexes /\ ~codec'.mSignalledError
    BY <2>1 DEF TypeOK, CurSet, CodecSet, PendingInv
  <2>3. ~cur.flushPendingWork
    <3> SUFFICES ASSUME cur.flushPendingWork PROVE FALSE
      OBVIOUS
    <3>1. ~cur.data
      BY DEF NoPicture
    <3>2. codec.indexes # <<>> /\ codec.indexes = library.frames
      BY <1>1, <3>1 DEF TypeOK, ListsInv
    <3>3. ~corrupt
      BY <3>1 DEF Decode
    <3>4. HasPicture(Decoded(corrupt))
      BY <3>1, <3>2 DEF HasPicture, Decoded
    <3> QED BY <3>3, <3>4
  <2>4. codec.indexes = <<>>
    BY <1>1, <1>6, <2>3 DEF PendingInv
  <2> QED BY <1>1, <1>3, <1>4, <1>6, <2>2, <2>4 DEF PendingInv, In
<1>7. ASSUME ~Ends, codec' = [codec EXCEPT !.indexes = Append(@, cur.work)] PROVE PendingInv'
  <2>1. PICK s \in Seq(Works) : s = Append(codec.indexes, cur.work)
    <3>1. Append(codec.indexes, cur.work) \in Seq(Works)
      BY <1>2
    <3> QED BY <3>1
  <2>2. WorksOf(s) = WorksOf(codec.indexes) \cup {cur.work}
    BY <1>2, <2>1, AppendWorks
  <2>3. /\ codec'.indexes = s /\ codec'.mSignalledError = codec.mSignalledError
        /\ codec'.mSignalledOutputEos = codec.mSignalledOutputEos
    BY <1>7, <2>1 DEF TypeOK, CodecSet
  <2>4. WorksOf(s) \cap EosWorks = {}
    BY <1>7, <2>2 DEF PendingInv, Ends
  <2>5. In("pending")' \subseteq WorksOf(s)
    BY <1>1, <2>2 DEF PendingInv, In
  <2> QED BY <1>3, <1>4, <1>5, <1>7, <2>2, <2>3, <2>4, <2>5 DEF PendingInv
<1>8. ASSUME ~Ends, codec' = codec, cur' = [cur EXCEPT !.pc = "tail", !.processed = TRUE]
      PROVE  PendingInv'
  <2>1. cur'.processed
    BY <1>8 DEF TypeOK, CurSet
  <2> QED BY <1>1, <1>3, <1>4, <1>5, <1>8, <2>1 DEF PendingInv, In
<1> QED
  BY <1>6, <1>7, <1>8 DEF NoPicture, Processed

LEMMA EndPending ==
    ASSUME TypeOK, PendingInv, Drain \/ EndOfProcess, Over => Over'
    PROVE  PendingInv'
<1> USE DEF queueVars, decoderVars
<1>1. cur'.pc = "idle" /\ codec' = codec
  BY ReturnType DEF Drain, EndOfProcess
<1>2. In("pending")' \subseteq WorksOf(codec.indexes)
  <2>1. CASE Drain
    BY <2>1 DEF Drain, PendingInv, In
  <2>2. CASE EndOfProcess
    <3>1. \A w \in Works : w # cur.work => loc'[w] = loc[w]
      BY <2>2 DEF EndOfProcess, TypeOK
    <3>2. cur.work \in Works /\ loc'[cur.work] = "pending" => cur.work \in WorksOf(codec.indexes)
      BY <2>2 DEF EndOfProcess, TypeOK, PendingInv
    <3> QED BY <3>1, <3>2 DEF PendingInv, In
  <2> QED BY <2>1, <2>2
<1> QED
  BY <1>1, <1>2 DEF PendingInv

LEMMA NextPending ==
    ASSUME EosNotCsd, TypeOK, StrayInv, OrderInv, ReportInv, [Next]_vars
    PROVE  ReportInv'
<1>1. SeenInv'
  BY NextSeen DEF ReportInv
<1>2. ASSUME Undisturbed' PROVE PendingInv'
  <2>1. PendingInv /\ Undisturbed /\ ~strayed' /\ ~strayed
    BY <1>2, UndisturbedBefore DEF ReportInv, Undisturbed
  <2>2. CASE UNCHANGED vars
    <3>1. UNCHANGED <<cur, codec, mFlush, ctl, mQueue, ended, loc>>
      BY <2>2 DEF vars, queueVars, looper, decoderVars, clientVars
    <3> QED BY <2>1, <3>1 DEF PendingInv, Over, Ends, In
  <2>3. CASE Next
    <3>1. ~(stop \/ reset \/ StopMessage \/ ResetMessage \/ NoPool \/ FetchError \/ MapError)
      BY <1>2, <2>3, Calm DEF ReportInv
    <3>2. CASE Client
      BY <2>1, <3>1, <3>2, ClientPending
    <3>3. CASE Looper
      <4>1. CASE Pop
        BY <2>1, <4>1, PopPending
      <4>2. CASE \/ \E ok \in BOOLEAN : InitMessage(ok)
                 \/ StartMessage \/ ReleaseMessage \/ ProcessNothing
        BY <2>1, <3>3, <4>2, MessagePending
      <4>3. ASSUME NEW data \in BOOLEAN, Process(data) PROVE PendingInv'
        BY <2>1, <4>3, ProcessPending
      <4>4. ASSUME NEW corrupt \in BOOLEAN, Decode(corrupt) PROVE PendingInv'
        <5>1. /\ cur.pc = "loop" /\ ListsInv /\ UNCHANGED <<mQueue, mFlush, ended, ctl>>
          BY <2>1, <4>4 DEF StrayInv, Decode
        <5>2. PICK frames \in Seq(Works) : frames = Decoded(corrupt)
          BY <5>1, DecodedType
        <5>3. ASSUME HasPicture(frames), NextPicture(frames) PROVE PendingInv'
          <6>1. Head(frames) \in Works
            BY <5>3, PictureFrames
          <6> QED BY <2>1, <5>1, <5>3, <6>1, PicturePending DEF NextPicture
        <5>4. ~Left
          BY <5>1 DEF Left, ListsInv
        <5>5. ASSUME NoNext(frames, corrupt), corrupt \/ ~HasPicture(frames) PROVE PendingInv'
          BY <2>1, <4>4, <5>1, <5>2, <5>5, NoPicturePending DEF NoNext
        <5> QED BY <4>4, <5>2, <5>3, <5>4, <5>5, RoundCases
      <4>5. CASE Drain \/ EndOfProcess
        <5>1. Over => Over'
          BY <4>5 DEF Drain, EndOfProcess, queueVars, clientVars, Over
        <5> QED BY <2>1, <4>5, <5>1, EndPending
      <4> QED BY <3>1, <3>3, <4>1, <4>2, <4>3, <4>4, <4>5 DEF Looper
    <3> QED BY <2>3, <3>2, <3>3 DEF Next
  <2> QED BY <2>2, <2>3
<1> QED
  BY <1>1, <1>2 DEF ReportInv

\* A work is given to the component only by queue_nb().
LEMMA HeldBefore ==
    ASSUME TypeOK, OrderInv, [Next]_vars, NEW w \in Works, loc'[w] \in Held
    PROVE  loc[w] \in Held \/ queue_nb(w)
<1> USE DEF queueVars, looper, decoderVars, counts, clientVars
<1>1. CASE loc' = loc
  BY <1>1
<1>2. ASSUME NEW v \in Works, queue_nb(v) PROVE loc[w] \in Held \/ queue_nb(w)
  BY <1>2 DEF queue_nb, TypeOK
<1>3. ASSUME NEW S, NEW place, place \notin Held, loc' = Moved(S, place) PROVE loc[w] \in Held
  BY <1>3 DEF Moved
<1>4. CASE flush_sm \/ stop \/ reset
  BY <1>3, <1>4 DEF flush_sm, stop, reset, Clear, Held
<1>5. CASE Pop
  <2>1. PICK e \in Entry : e = Head(mQueue)
    BY <1>5, PopTypes
  <2>2. CASE w = e
    <3>1. mQueue # <<>> /\ mQueue' = Tail(mQueue)
      BY <1>5 DEF Pop
    <3>2. e \in WorksOf(mQueue)
      BY <2>1, <3>1, ShorterQueue DEF OrderInv, QueueOrder
    <3> QED BY <2>2, <3>2 DEF OrderInv, QueueOrder, Held
  <2>3. CASE w # e
    BY <1>5, <2>1, <2>3 DEF Pop, TypeOK
  <2> QED BY <2>2, <2>3
<1>6. CASE NoPool
  BY <1>6 DEF NoPool, TypeOK, Held
<1>7. ASSUME NEW corrupt \in BOOLEAN, Decode(corrupt) PROVE loc[w] \in Held
  BY <1>7, RoundPlaces DEF Held
<1>8. CASE EndOfProcess
  <2>1. cur.work = w => loc[w] = "processing"
    BY <1>8 DEF EndOfProcess, OrderInv, HandInv, Active
  <2> QED BY <1>8, <2>1 DEF EndOfProcess, TypeOK, Held
<1>9. CASE Client
  <2>1. CASE drain_nb \/ PostProcess \/ FlushReturn \/ start \/ InitReturn \/ release
    BY <1>1, <2>1 DEF drain_nb, PostProcess, FlushReturn, start, InitReturn, release
  <2> QED BY <1>2, <1>4, <1>9, <2>1 DEF Client
<1>10. CASE Looper
  <2>1. CASE \/ \E ok \in BOOLEAN : InitMessage(ok)
             \/ StartMessage \/ StopMessage \/ ResetMessage \/ ReleaseMessage \/ ProcessNothing
             \/ Drain \/ FetchError \/ MapError
             \/ \E data \in BOOLEAN : Process(data)
    BY <1>1, <2>1 DEF InitMessage, StartMessage, StopMessage, ResetMessage, ReleaseMessage,
                      ProcessNothing, Drain, FetchError, MapError, Process
  <2> QED BY <1>5, <1>6, <1>7, <1>8, <1>10, <2>1 DEF Looper
<1>11. CASE UNCHANGED vars
  BY <1>1, <1>11 DEF vars
<1> QED
  BY <1>9, <1>10, <1>11 DEF Next

\* A work is done in the looper's hands, or when its picture comes.
LEMMA NewlyDone ==
    ASSUME TypeOK, [Next]_vars, NEW e \in Works, loc'[e] = "done"
    PROVE  \/ loc[e] = "done"
           \/ loc[e] = "pending"
           \/ EndOfProcess /\ e = cur.work
<1> USE DEF queueVars, looper, decoderVars, counts, clientVars
<1>1. CASE loc' = loc
  BY <1>1
<1>2. CASE Client
  <2>1. CASE drain_nb \/ PostProcess \/ FlushReturn \/ start \/ InitReturn \/ release
    BY <1>1, <2>1 DEF drain_nb, PostProcess, FlushReturn, start, InitReturn, release
  <2>2. ASSUME NEW v \in Works, queue_nb(v) PROVE loc[e] = "done"
    BY <2>2 DEF queue_nb, TypeOK
  <2>3. CASE flush_sm \/ stop \/ reset
    BY <2>3 DEF flush_sm, stop, reset, Clear, Moved
  <2> QED BY <1>2, <2>1, <2>2, <2>3 DEF Client
<1>3. CASE Looper
  <2>1. CASE \/ \E ok \in BOOLEAN : InitMessage(ok)
             \/ StartMessage \/ StopMessage \/ ResetMessage \/ ReleaseMessage \/ ProcessNothing
             \/ Drain \/ FetchError \/ MapError
             \/ \E data \in BOOLEAN : Process(data)
    BY <1>1, <2>1 DEF InitMessage, StartMessage, StopMessage, ResetMessage, ReleaseMessage,
                      ProcessNothing, Drain, FetchError, MapError, Process
  <2>2. CASE Pop
    BY <2>2 DEF Pop, TypeOK
  <2>3. CASE NoPool
    BY <2>3 DEF NoPool, TypeOK
  <2>4. ASSUME NEW corrupt \in BOOLEAN, Decode(corrupt) PROVE loc[e] \in {"done", "pending"}
    BY <2>4, RoundPlaces
  <2>5. CASE EndOfProcess
    BY <2>5 DEF EndOfProcess, TypeOK
  <2> QED BY <1>3, <2>1, <2>2, <2>3, <2>4, <2>5 DEF Looper
<1>4. CASE UNCHANGED vars
  BY <1>1, <1>4 DEF vars
<1> QED
  BY <1>2, <1>3, <1>4 DEF Next

LEMMA NextReported ==
    ASSUME TypeOK, OrderInv, ReportInv, EosReportedLast, [Next]_vars
    PROVE  EosReportedLast'
<1> SUFFICES ASSUME Undisturbed', NEW e \in EosWorks, loc'[e] = "done", NEW w \in 1..e
             PROVE  loc'[w] \notin Held
  BY DEF EosReportedLast
<1>0. e \in Works /\ w \in Works /\ Undisturbed /\ PendingInv /\ w <= e
  BY UndisturbedBefore, WorksAssumption DEF Works, ReportInv
<1>1. SUFFICES ASSUME loc'[w] \in Held PROVE FALSE
  OBVIOUS
<1>2. CASE loc[e] = "done"
  <2>1. loc[w] \notin Held
    BY <1>0, <1>2 DEF EosReportedLast
  <2>2. queue_nb(w)
    BY <1>0, <1>1, <2>1, HeldBefore
  <2>3. loc[w] = "client"
    BY <2>2 DEF queue_nb
  <2>4. w < e
    BY <1>0, <1>2, <2>3, OrderTypes
  <2> QED BY <1>0, <1>2, <2>3, <2>4 DEF OrderInv, ClientLast
<1>3. CASE loc[e] = "pending"
  BY <1>0, <1>3 DEF PendingInv, In
<1>4. CASE EndOfProcess /\ e = cur.work
  <2>1. cur.pc = "tail" /\ Ends /\ codec.indexes = <<>>
    BY <1>0, <1>4 DEF EndOfProcess, Ends, PendingInv
  <2>2. w # e
    BY <1>1 DEF Held
  <2>3. loc'[w] = loc[w] /\ loc[w] \in Held
    BY <1>0, <1>1, <1>4, <2>2 DEF EndOfProcess, TypeOK
  <2>4. loc[w] # "pending"
    BY <1>0, <2>1, NoQueue DEF PendingInv, In
  <2>5. loc[w] # "processing"
    BY <1>0, <1>4, <2>2 DEF OrderInv, HandInv
  <2>6. loc[w] # "queue"
    <3> SUFFICES ASSUME loc[w] = "queue" PROVE FALSE
      OBVIOUS
    <3>1. w \in WorksOf(mQueue) /\ w # 0 /\ cur.work # 0
      BY <1>0, <1>4, OrderTypes DEF OrderInv, QueueOrder
    <3>2. e < w
      BY <1>4, <2>1, <3>1 DEF OrderInv, HandInv, Active
    <3> QED BY <1>0, <3>2, OrderTypes
  <2> QED BY <2>3, <2>4, <2>5, <2>6 DEF Held
<1> QED
  BY <1>0, <1>2, <1>3, <1>4, NewlyDone

LEMMA InitReport ==
    ASSUME Init
    PROVE  ReportInv /\ EosReportedLast
<1>1. \A w \in Works : loc[w] = "client"
  BY DEF Init
<1>2. /\ cur.pc = "idle" /\ codec.indexes = <<>> /\ codec.mSignalledOutputEos = FALSE
      /\ codec.mSignalledError = FALSE /\ ctl = "idle"
  BY DEF Init, IdleCur, NewCodec
<1>3. PendingInv
  BY <1>1, <1>2, NoQueue DEF PendingInv, In
<1>4. EosReportedLast
  BY <1>1, WorksAssumption DEF EosReportedLast, Works
<1> QED
  BY <1>2, <1>3, <1>4 DEF ReportInv, SeenInv

\* If the end of the stream does not come as codec config, no earlier work is left in the
\* component when it is reported, for any number of works and flushes.
THEOREM EosReportedLastCorrect ==
    ASSUME EosNotCsd
    PROVE  Spec => []EosReportedLast
<1> DEFINE Inv == TypeOK /\ StrayInv /\ OrderInv /\ ReportInv /\ EosReportedLast
<1>1. Init => Inv
  BY InitType, InitStray, InitOrder, InitReport
<1>2. Inv /\ [Next]_vars => Inv'
  BY NextType, ClientStray, LooperStray, StutterStray, NextOrder, NextPending, NextReported DEF Next
<1>3. Inv => EosReportedLast
  OBVIOUS
<1> QED
  BY <1>1, <1>2, <1>3, PTL DEF Spec
=============================================================================
