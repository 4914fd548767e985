------------------------- MODULE VdecBlocksProofs -------------------------
(***************************************************************************)
(* Proofs about VdecBlocks, for any sizes, numbers of buffers and budgets. *)
(*                                                                         *)
(* TypeInv types the variables; it holds together with OrderInv, which     *)
(* task may be behind which in mTaskQueue, in which states and with which  *)
(* flags, and KnownInv, that each id that is named somewhere is that of a  *)
(* block with an info.  SurfaceInv holds of a surface's buffer queue: the  *)
(* pool's ids are one to one, and each block has one owner.                *)
(* DrainInv says what the end of the stream leaves, and SupplyInv that no  *)
(* block and no task that stands for one gets lost.                        *)
(***************************************************************************)
EXTENDS VdecBlocks, TLAPS, FiniteSetTheorems, WellFoundedInduction

-----------------------------------------------------------------------------
(* The tasks of a queue. *)

Fetched == {"returned", "fetched"}
Picture == [id : Nat, fate : Fate, inputDone : BOOLEAN]

\* No task of s is of the type.
Lacks(s, type) == \A i \in 1..Len(s) : s[i].type # type

\* In s, no task of the type after comes behind one of the type before.
Apart(s, before, after) ==
    \A i, j \in 1..Len(s) : i < j /\ s[i].type = before => s[j].type # after

LEMMA TailElements ==
    ASSUME NEW S, NEW s \in Seq(S), s # <<>>
    PROVE  /\ Tail(s) \in Seq(S) /\ Len(s) \in Nat /\ Len(s) > 0
           /\ Len(Tail(s)) = Len(s) - 1
           /\ Head(s) = s[1] /\ s[1] \in S
           /\ \A i \in 1..Len(Tail(s)) : i + 1 \in 1..Len(s) /\ Tail(s)[i] = s[i + 1]
           /\ \A i \in 1..Len(s) : i # 1 => i - 1 \in 1..Len(Tail(s)) /\ Tail(s)[i - 1] = s[i]
  OBVIOUS

LEMMA AppendElements ==
    ASSUME NEW S, NEW s \in Seq(S), NEW t \in S
    PROVE  /\ Append(s, t) \in Seq(S) /\ Len(s) \in Nat
           /\ Len(Append(s, t)) = Len(s) + 1
           /\ \A i \in 1..Len(s) : i \in 1..Len(Append(s, t)) /\ Append(s, t)[i] = s[i]
           /\ \A i \in 1..Len(Append(s, t)) : i # Len(s) + 1 => i \in 1..Len(s)
           /\ Len(s) + 1 \in 1..Len(Append(s, t)) /\ Append(s, t)[Len(s) + 1] = t
  OBVIOUS

\* What the queue keeps when its head is taken; behind the head nothing comes that
\* comes apart from it.
LEMMA TakeKeeps ==
    ASSUME NEW s \in Seq(Task), s # <<>>
    PROVE  /\ Tail(s) \in Seq(Task)
           /\ \A type : Lacks(s, type) <=> Lacks(Tail(s), type) /\ Head(s).type # type
           /\ \A before, after : Apart(s, before, after) =>
                  /\ Apart(Tail(s), before, after)
                  /\ Head(s).type = before => Lacks(Tail(s), after)
<1>1. ASSUME NEW type, Lacks(s, type) PROVE Lacks(Tail(s), type) /\ Head(s).type # type
  <2>1. Len(s) > 0 /\ Len(s) \in Nat /\ Head(s) = s[1] /\ 1 \in 1..Len(s)
    BY TailElements
  <2>2. \A i \in 1..Len(Tail(s)) : i + 1 \in 1..Len(s) /\ Tail(s)[i] = s[i + 1]
    BY TailElements
  <2> QED BY <1>1, <2>1, <2>2 DEF Lacks
<1>2. ASSUME NEW type, Lacks(Tail(s), type), Head(s).type # type PROVE Lacks(s, type)
  <2>1. \A i \in 1..Len(s) : i # 1 => i - 1 \in 1..Len(Tail(s)) /\ Tail(s)[i - 1] = s[i]
    BY TailElements
  <2>2. Head(s) = s[1]
    BY TailElements
  <2> QED BY <1>2, <2>1, <2>2 DEF Lacks
<1>3. ASSUME NEW before, NEW after, Apart(s, before, after)
      PROVE  /\ Apart(Tail(s), before, after)
             /\ Head(s).type = before => Lacks(Tail(s), after)
  <2>1. ASSUME NEW i \in 1..Len(Tail(s)), NEW j \in 1..Len(Tail(s)), i < j, Tail(s)[i].type = before
        PROVE  Tail(s)[j].type # after
    <3>1. /\ i + 1 \in 1..Len(s) /\ Tail(s)[i] = s[i + 1]
          /\ j + 1 \in 1..Len(s) /\ Tail(s)[j] = s[j + 1]
          /\ i + 1 < j + 1
      BY <2>1, TailElements
    <3> QED BY <3>1, <1>3, <2>1 DEF Apart
  <2>2. ASSUME Head(s).type = before, NEW i \in 1..Len(Tail(s)) PROVE Tail(s)[i].type # after
    <3>1. i + 1 \in 1..Len(s) /\ Tail(s)[i] = s[i + 1] /\ 1 \in 1..Len(s) /\ 1 < i + 1 /\ Head(s) = s[1]
      BY TailElements
    <3> QED BY <3>1, <1>3, <2>2 DEF Apart
  <2> QED BY <2>1, <2>2 DEF Apart, Lacks
<1> QED BY <1>1, <1>2, <1>3, TailElements

\* What the queue keeps when the task t is posted.
LEMMA PostKeeps ==
    ASSUME NEW s \in Seq(Task), NEW t \in Task
    PROVE  /\ Append(s, t) \in Seq(Task)
           /\ \A type : Lacks(s, type) /\ t.type # type => Lacks(Append(s, t), type)
           /\ \A before, after : Apart(s, before, after) /\ (t.type = after => Lacks(s, before)) =>
                  Apart(Append(s, t), before, after)
<1> DEFINE r == Append(s, t)
<1>1. ASSUME NEW type, Lacks(s, type), t.type # type PROVE Lacks(r, type)
  BY <1>1, AppendElements DEF Lacks
<1>2. ASSUME NEW before, NEW after, Apart(s, before, after), t.type = after => Lacks(s, before)
      PROVE  Apart(r, before, after)
  <2> SUFFICES ASSUME NEW i \in 1..Len(r), NEW j \in 1..Len(r), i < j, r[i].type = before
               PROVE  r[j].type # after
    BY DEF Apart
  <2>1. i \in 1..Len(s) /\ r[i] = s[i]
    BY AppendElements
  <2>2. CASE j = Len(s) + 1
    BY <1>2, <2>1, <2>2, AppendElements DEF Lacks
  <2>3. CASE j # Len(s) + 1
    BY <1>2, <2>1, <2>3, AppendElements DEF Apart
  <2> QED BY <2>2, <2>3
<1> QED BY <1>1, <1>2, AppendElements

LEMMA LacksApart ==
    ASSUME NEW s, NEW before, NEW after, Lacks(s, before) \/ Lacks(s, after)
    PROVE  Apart(s, before, after)
  BY DEF Lacks, Apart

\* What a task carries.
LEMMA TaskKinds ==
    ASSUME NEW t \in Task
    PROVE  /\ t.type = "format" => t.fmt \in Format
           /\ t.type \in Fetched => t.buf \in Buffer /\ t.id \in Nat
           /\ t.type = "done" => t.id \in Nat /\ t.fate \in Fate /\ t.inputDone \in BOOLEAN
  BY DEF Task, Fetched

LEMMA KindsOfTask ==
    /\ \A type \in {"start", "queue", "flush", "stop", "resetDone", "send", "drainDone", "tryChange"} :
           [type |-> type] \in Task
    /\ \A fmt \in Format : [type |-> "format", fmt |-> fmt] \in Task
    /\ \A type \in Fetched, b \in Buffer, id \in Nat : [type |-> type, buf |-> b, id |-> id] \in Task
    /\ \A id \in Nat, fate \in Fate, inputDone \in BOOLEAN :
           [type |-> "done", id |-> id, fate |-> fate, inputDone |-> inputDone] \in Task
  BY DEF Task, Fetched

LEMMA Least ==
    ASSUME NEW T, T \subseteq Nat, T # {}
    PROVE  \E x \in T : \A y \in T : x <= y
<1> DEFINE R == {ss \in Nat \X Nat : ss[1] < ss[2]}
<1>1. IsWellFoundedOn(R, Nat)
  BY NatLessThanWellFounded DEF OpToRel
<1>2. \E x \in T : \A y \in T : ~(<<y, x>> \in R)
  <2> HIDE DEF R
  <2> QED BY <1>1, WFMin
<1>3. PICK x \in T : \A y \in T : ~(<<y, x>> \in R)
  BY <1>2
<1>4. ASSUME NEW y \in T PROVE x <= y
  <2>1. <<y, x>> \in Nat \X Nat  BY <1>3
  <2>2. ~(y < x)  BY <1>3, <2>1
  <2> QED BY <2>2, <1>3
<1> QED BY <1>3, <1>4

-----------------------------------------------------------------------------
(* Blocks, and how they are counted. *)

Block == [buf : Buffer \cup {NoBuffer}, fd : Buffer, state : State, fdSet : BOOLEAN]

\* bs maps ids to blocks.
Blocks(bs) == IsFiniteSet(DOMAIN bs) /\ \A id \in DOMAIN bs : id \in Nat /\ bs[id] \in Block

LEMMA BlockFields ==
    ASSUME NEW b \in Block
    PROVE  /\ b.buf \in Buffer \cup {NoBuffer} /\ b.fd \in Buffer /\ b.state \in State /\ b.fdSet \in BOOLEAN
           /\ \A s \in State : [b EXCEPT !.state = s] \in Block
           /\ \A s \in State, v \in BOOLEAN : [b EXCEPT !.state = s, !.fdSet = v] \in Block
           /\ \A s \in State, c \in Buffer \cup {NoBuffer} : [b EXCEPT !.state = s, !.buf = c] \in Block
           /\ \A v \in BOOLEAN : [b EXCEPT !.fdSet = v] \in Block
  BY DEF Block

LEMMA NoBufferOutside == NoBuffer \notin Buffer
  BY SizesAssumption DEF NoBuffer, Buffer

LEMMA NoFormatOutside == NoFormat \notin Format
  BY SizesAssumption DEF NoFormat, Format

LEMMA NoBlocksHere == Blocks(NoBlocks) /\ DOMAIN NoBlocks = {} /\ \A s : With(NoBlocks, s) = {}
<1>1. DOMAIN NoBlocks = {}
  BY DEF NoBlocks
<1>2. IsFiniteSet({})
  BY FS_EmptySet
<1> QED BY <1>1, <1>2 DEF Blocks, With

LEMMA MovedBlocks ==
    ASSUME NEW bs, Blocks(bs), NEW ids, NEW s \in State
    PROVE  /\ Blocks(Moved(bs, ids, s)) /\ DOMAIN Moved(bs, ids, s) = DOMAIN bs
           /\ \A id \in DOMAIN bs :
                  /\ Moved(bs, ids, s)[id].buf = bs[id].buf /\ Moved(bs, ids, s)[id].fd = bs[id].fd
                  /\ Moved(bs, ids, s)[id].fdSet = bs[id].fdSet
                  /\ Moved(bs, ids, s)[id].state = IF id \in ids THEN s ELSE bs[id].state
<1>1. DOMAIN Moved(bs, ids, s) = DOMAIN bs
  BY DEF Moved
<1>2. ASSUME NEW id \in DOMAIN bs
      PROVE  /\ id \in Nat /\ Moved(bs, ids, s)[id] \in Block
             /\ Moved(bs, ids, s)[id].buf = bs[id].buf /\ Moved(bs, ids, s)[id].fd = bs[id].fd
             /\ Moved(bs, ids, s)[id].fdSet = bs[id].fdSet
             /\ Moved(bs, ids, s)[id].state = IF id \in ids THEN s ELSE bs[id].state
  <2>1. id \in Nat /\ bs[id] \in Block
    BY DEF Blocks
  <2>2. CASE id \in ids
    <3>1. Moved(bs, ids, s)[id] = [bs[id] EXCEPT !.state = s]
      BY <2>2 DEF Moved
    <3> QED BY <3>1, <2>1, <2>2 DEF Block
  <2>3. CASE id \notin ids
    BY <2>1, <2>3 DEF Moved
  <2> QED BY <2>2, <2>3
<1> QED BY <1>1, <1>2 DEF Blocks

LEMMA SentBlocks ==
    ASSUME NEW bs, Blocks(bs), NEW ids
    PROVE  /\ Blocks(Sent(bs, ids)) /\ DOMAIN Sent(bs, ids) = DOMAIN bs
           /\ \A id \in DOMAIN bs :
                  /\ Sent(bs, ids)[id].buf = bs[id].buf /\ Sent(bs, ids)[id].fd = bs[id].fd
                  /\ Sent(bs, ids)[id].state = IF id \in ids THEN "ACCELERATOR" ELSE bs[id].state
                  /\ id \notin ids => Sent(bs, ids)[id] = bs[id]
<1>1. DOMAIN Sent(bs, ids) = DOMAIN bs
  BY DEF Sent
<1>2. ASSUME NEW id \in DOMAIN bs
      PROVE  /\ id \in Nat /\ Sent(bs, ids)[id] \in Block
             /\ Sent(bs, ids)[id].buf = bs[id].buf /\ Sent(bs, ids)[id].fd = bs[id].fd
             /\ Sent(bs, ids)[id].state = IF id \in ids THEN "ACCELERATOR" ELSE bs[id].state
             /\ id \notin ids => Sent(bs, ids)[id] = bs[id]
  <2>1. id \in Nat /\ bs[id] \in Block
    BY DEF Blocks
  <2>2. CASE id \in ids
    <3>1. PICK v \in BOOLEAN : Sent(bs, ids)[id] = [bs[id] EXCEPT !.state = "ACCELERATOR", !.fdSet = v]
      <4>1. bs[id].fdSet \in BOOLEAN
        BY <2>1 DEF Block
      <4>2. (bs[id].fdSet \/ bs[id].buf # NoBuffer) \in BOOLEAN
        OBVIOUS
      <4> QED BY <2>2, <4>2 DEF Sent
    <3>2. "ACCELERATOR" \in State
      BY DEF State
    <3> QED BY <3>1, <3>2, <2>1, <2>2 DEF Block
  <2>3. CASE id \notin ids
    BY <2>1, <2>3 DEF Sent
  <2> QED BY <2>2, <2>3
<1> QED BY <1>1, <1>2 DEF Blocks

LEMMA WithFinite ==
    ASSUME NEW bs, Blocks(bs), NEW s
    PROVE  With(bs, s) \subseteq DOMAIN bs /\ IsFiniteSet(With(bs, s)) /\ Cardinality(With(bs, s)) \in Nat
<1>1. With(bs, s) \subseteq DOMAIN bs
  BY DEF With
<1>2. IsFiniteSet(With(bs, s))
  BY <1>1, FS_Subset DEF Blocks
<1> QED BY <1>1, <1>2, FS_CardinalityType

LEMMA Counting ==
    ASSUME NEW before, NEW after, Blocks(before), Blocks(after),
           mGraphicBlockStateCount \in [State -> Int], Counted(before, after)
    PROVE  /\ mGraphicBlockStateCount' \in [State -> Int]
           /\ \A s \in State : mGraphicBlockStateCount'[s] =
                  mGraphicBlockStateCount[s] + Cardinality(With(after, s)) - Cardinality(With(before, s))
<1>1. \A s \in State : mGraphicBlockStateCount[s] \in Int /\ Cardinality(With(after, s)) \in Nat
                       /\ Cardinality(With(before, s)) \in Nat
  BY WithFinite
<1> QED BY <1>1 DEF Counted
-----------------------------------------------------------------------------
(* The delivery of pictures. *)

\* The pictures before the first one whose work waits for its input.
Ready(pictures) ==
    CHOOSE k \in 0..Len(pictures) :
        /\ \A i \in 1..k : pictures[i].inputDone
        /\ k < Len(pictures) => ~pictures[k + 1].inputDone

LEMMA ReadyExists ==
    ASSUME NEW pictures \in Seq(Picture)
    PROVE  Ready(pictures) \in 0..Len(pictures)
<1> DEFINE T == {i \in 1..Len(pictures) : ~pictures[i].inputDone}
<1>1. Len(pictures) \in Nat
  OBVIOUS
<1>2. CASE T = {}
  <2>1. /\ Len(pictures) \in 0..Len(pictures)
        /\ \A i \in 1..Len(pictures) : pictures[i].inputDone
        /\ ~(Len(pictures) < Len(pictures))
    BY <1>1, <1>2
  <2> QED BY <2>1 DEF Ready
<1>3. CASE T # {}
  <2>1. T \subseteq Nat
    BY <1>1
  <2>2. PICK x \in T : \A y \in T : x <= y
    <3> HIDE DEF T
    <3> QED BY <2>1, <1>3, Least
  <2>3. /\ x - 1 \in 0..Len(pictures) /\ x \in 1..Len(pictures)
        /\ ~pictures[(x - 1) + 1].inputDone
    BY <2>2, <1>1
  <2>4. ASSUME NEW i \in 1..(x - 1) PROVE pictures[i].inputDone
    BY <2>2, <2>4, <1>1
  <2> QED BY <2>3, <2>4 DEF Ready
<1> QED BY <1>2, <1>3

\* d is what Deliver(bs, held, pictures) leaves when the first n pictures go out, those
\* of the blocks shown to the client, those of the blocks back to the decoder.
Delivers(d, bs, held, pictures, n, shown, back) ==
    /\ shown \cup back = {pictures[i].id : i \in 1..n} /\ shown \cap back = {}
    /\ Blocks(d.blocks) /\ DOMAIN d.blocks = DOMAIN bs
    /\ \A id \in DOMAIN bs :
           /\ d.blocks[id].fd = bs[id].fd
           /\ id \in shown => d.blocks[id].state = "CLIENT"
           /\ id \in back => d.blocks[id].state = "ACCELERATOR"
           /\ id \notin shown \cup back => d.blocks[id] = bs[id]
           /\ mUseBufferQueue \/ id \notin shown => d.blocks[id].buf = bs[id].buf
    /\ d.decoder = held \cup WithBuffer(bs, back)
    /\ d.client = client \cup {bs[id].buf : id \in shown}
    /\ d.pictures \in Seq(Picture)
    /\ Len(d.pictures) = Len(pictures) - n
    /\ \A i \in 1..Len(d.pictures) : n + i \in 1..Len(pictures) /\ d.pictures[i] = pictures[n + i]
    /\ d.mistaken = (pictures # <<>> /\ bs[pictures[1].id].state = "ACCELERATOR")

LEMMA Delivery ==
    ASSUME NEW bs, Blocks(bs), NEW held, NEW pictures \in Seq(Picture),
           mUseBufferQueue \in BOOLEAN
    PROVE  \E n, shown, back : n \in 0..Len(pictures) /\
               Delivers(Deliver(bs, held, pictures), bs, held, pictures, n, shown, back)
<1> DEFINE d == Deliver(bs, held, pictures)
           n == Ready(pictures)
           out == SubSeq(pictures, 1, n)
           shown == {id \in Ids(out) : \E i \in 1..n : out[i] = [id |-> id, fate |-> "frame", inputDone |-> TRUE]}
           back == Ids(out) \ shown
           rest == SubSeq(pictures, n + 1, Len(pictures))
<1>1. n \in 0..Len(pictures) /\ Len(pictures) \in Nat
  BY ReadyExists
<1>2. Len(out) = n /\ \A i \in 1..n : out[i] = pictures[i]
  <2> HIDE DEF n
  <2> QED BY <1>1
<1>3. rest \in Seq(Picture) /\ Len(rest) = Len(pictures) - n
      /\ \A i \in 1..Len(rest) : n + i \in 1..Len(pictures) /\ rest[i] = pictures[n + i]
  <2> HIDE DEF n
  <2> QED BY <1>1
<1>4. shown \cup back = {pictures[i].id : i \in 1..n} /\ shown \cap back = {}
  <2>1. Ids(out) = {pictures[i].id : i \in 1..n}
    <3> HIDE DEF n, out
    <3> QED BY <1>2 DEF Ids
  <2> HIDE DEF n, out
  <2> QED BY <2>1
<1>5. /\ d.blocks = [id \in DOMAIN bs |->
             IF id \in shown
             THEN [bs[id] EXCEPT !.state = "CLIENT", !.buf = IF mUseBufferQueue THEN @ ELSE NoBuffer]
             ELSE Sent(bs, back)[id]]
      /\ d.decoder = held \cup WithBuffer(bs, back)
      /\ d.client = client \cup {bs[id].buf : id \in shown}
      /\ d.pictures = rest
      /\ d.mistaken = (pictures # <<>> /\ bs[pictures[1].id].state = "ACCELERATOR")
  BY DEF Deliver, Ready
<1> HIDE DEF d, n, out, shown, back, rest
<1>6. DOMAIN d.blocks = DOMAIN bs
  BY <1>5
<1>7. ASSUME NEW id \in DOMAIN bs
      PROVE  /\ id \in Nat /\ d.blocks[id] \in Block
             /\ d.blocks[id].fd = bs[id].fd
             /\ id \in shown => d.blocks[id].state = "CLIENT"
             /\ id \in back => d.blocks[id].state = "ACCELERATOR"
             /\ id \notin shown \cup back => d.blocks[id] = bs[id]
             /\ mUseBufferQueue \/ id \notin shown => d.blocks[id].buf = bs[id].buf
  <2>1. id \in Nat /\ bs[id] \in Block
    BY DEF Blocks
  <2>2. CASE id \in shown
    <3>1. d.blocks[id] = [bs[id] EXCEPT !.state = "CLIENT",
                             !.buf = IF mUseBufferQueue THEN bs[id].buf ELSE NoBuffer]
      BY <1>5, <2>2
    <3>2. "CLIENT" \in State
      BY DEF State
    <3> QED BY <3>1, <3>2, <2>1, <2>2, <1>4 DEF Block
  <2>3. CASE id \notin shown
    <3>1. d.blocks[id] = Sent(bs, back)[id]
      BY <1>5, <2>3
    <3>2. Sent(bs, back)[id] \in Block
      BY SentBlocks DEF Blocks
    <3> QED BY <3>1, <3>2, <2>1, <2>3, SentBlocks
  <2> QED BY <2>2, <2>3
<1>8. Blocks(d.blocks)
  BY <1>6, <1>7 DEF Blocks
<1> QED
  <2>1. /\ \A id \in DOMAIN bs :
               /\ d.blocks[id].fd = bs[id].fd
               /\ id \in shown => d.blocks[id].state = "CLIENT"
               /\ id \in back => d.blocks[id].state = "ACCELERATOR"
               /\ id \notin shown \cup back => d.blocks[id] = bs[id]
               /\ mUseBufferQueue \/ id \notin shown => d.blocks[id].buf = bs[id].buf
        /\ d.pictures \in Seq(Picture)
        /\ Len(d.pictures) = Len(pictures) - n
        /\ \A i \in 1..Len(d.pictures) : n + i \in 1..Len(pictures) /\ d.pictures[i] = pictures[n + i]
    BY <1>7, <1>5, <1>3
  <2>2. Delivers(d, bs, held, pictures, n, shown, back)
    BY <2>1, <1>1, <1>4, <1>5, <1>6, <1>8 DEF Delivers
  <2> QED BY <2>2, <1>1 DEF d

-----------------------------------------------------------------------------
(* The invariants. *)

CountInv == mGraphicBlockStateCount["CLIENT"] >= Cardinality(With(mGraphicBlocks, "CLIENT"))

TypeInv ==
    /\ TypeOK
    /\ Blocks(mGraphicBlocks)
    /\ \A b \in DOMAIN mRawGraphicBlockInfo : mRawGraphicBlockInfo[b] \in Nat
    /\ decoder \in [blocks : SUBSET Nat, asked : BOOLEAN, fed : BOOLEAN, resetting : BOOLEAN]
    /\ CountInv

Pending == mPendingOutputFormat # NoFormat

\* The calls of the client: one flush or one stop at a time, and no work before it
\* returns.
CallsInv ==
    /\ mComponentState # "STARTED" =>
           \A type \in {"flush", "stop", "queue"} : Lacks(mTaskQueue, type)
    /\ \A before \in {"flush", "stop"}, after \in {"flush", "stop", "queue"} :
           Apart(mTaskQueue, before, after)
    /\ ~flushing => Lacks(mTaskQueue, "flush")
    /\ flushing => Lacks(mTaskQueue, "stop") /\ mComponentState # "STOPPING"
    /\ mComponentState # "UNINITIALIZED" => Lacks(mTaskQueue, "start")
    /\ Apart(mTaskQueue, "start", "start")

\* A reset: what comes behind its end was not there before.
ResetInv ==
    /\ mComponentState \in {"UNINITIALIZED", "STARTED"} =>
           ~decoder.resetting /\ Lacks(mTaskQueue, "resetDone")
    /\ decoder.resetting => Lacks(mTaskQueue, "resetDone")
    /\ mComponentState # "STARTED" => ~decoder.fed
    /\ mComponentState = "STOPPING" => ~fetching
    /\ \A after \in {"done", "format", "queue", "flush", "stop", "resetDone"} :
           Apart(mTaskQueue, "resetDone", after)
    /\ mComponentState # "FLUSHING" =>
           \A after \in Fetched : Apart(mTaskQueue, "resetDone", after)
    /\ mComponentState = "UNINITIALIZED" =>
           ~Pending /\ ~mBufferFirstAllocated /\ Lacks(mTaskQueue, "format")

\* A change of the format: one at a time, and no picture until it is done.
FormatInv ==
    /\ ~decoder.asked => ~Pending /\ Lacks(mTaskQueue, "format")
    /\ \A after \in {"format", "done"} : Apart(mTaskQueue, "format", after)
    /\ Pending => Lacks(mTaskQueue, "format") /\ Lacks(mTaskQueue, "done")

Quiet == ~decoder.fed /\ mPendingBuffersToWork = <<>> /\ Lacks(mTaskQueue, "done")

\* After a flush there is no picture until a work is queued.
FlushInv ==
    /\ mHaveFlushDone => Quiet
    /\ Alive /\ flushing /\ mComponentState = "STARTED" /\ Lacks(mTaskQueue, "flush") =>
           Quiet /\ Lacks(mTaskQueue, "queue")

\* Before the first allocation there is no block anywhere.
EmptyInv ==
    ~mBufferFirstAllocated =>
        /\ DOMAIN mGraphicBlocks = {} /\ DOMAIN mRawGraphicBlockInfo = {}
        /\ mPendingBuffersToWork = <<>> /\ decoder.blocks = {}
        /\ \A type \in {"returned", "fetched", "done"} : Lacks(mTaskQueue, type)
        /\ ~fetching /\ allocTasks = 0 /\ waitTasks = 0

OrderInv == CallsInv /\ ResetInv /\ FormatInv /\ FlushInv /\ EmptyInv

LEMMA Types ==
    ASSUME TypeInv
    PROVE  /\ mComponentState \in {"UNINITIALIZED", "STARTED", "FLUSHING", "STOPPING"}
           /\ mTaskQueue \in Seq(Task)
           /\ mUseBufferQueue \in BOOLEAN /\ mBufferFirstAllocated \in BOOLEAN
           /\ mResolutionChanging \in BOOLEAN /\ mHaveFlushDone \in BOOLEAN
           /\ mRunTaskLoop \in BOOLEAN /\ mAllocBufferLoop \in BOOLEAN
           /\ fetching \in BOOLEAN /\ flushing \in BOOLEAN
           /\ mHaveDrainDone \in BOOLEAN /\ mReportEosWork \in BOOLEAN
           /\ mOutputFormat \in Format \cup {NoFormat}
           /\ mPendingOutputFormat \in Format \cup {NoFormat}
           /\ Blocks(mGraphicBlocks)
           /\ mGraphicBlockStateCount \in [State -> Int]
           /\ mPendingBuffersToWork \in Seq(Picture)
           /\ DOMAIN mRawGraphicBlockInfo \subseteq Buffer
           /\ mGraphicBufferId \in Nat /\ mOutputWorkCount \in Nat
           /\ allocTasks \in Nat /\ waitTasks \in Nat
           /\ client \subseteq Buffer \cup {NoBuffer}
           /\ left \in [Call -> Nat]
           /\ decoder.blocks \subseteq Nat /\ decoder.asked \in BOOLEAN
           /\ decoder.fed \in BOOLEAN /\ decoder.resetting \in BOOLEAN
           /\ decoder \in [blocks : SUBSET Nat, asked : BOOLEAN, fed : BOOLEAN, resetting : BOOLEAN]
<1>1. TypeOK /\ Blocks(mGraphicBlocks)
      /\ decoder \in [blocks : SUBSET Nat, asked : BOOLEAN, fed : BOOLEAN, resetting : BOOLEAN]
  BY DEF TypeInv
<1>2. /\ mPendingBuffersToWork \in Seq(Picture)
      /\ mTaskQueue \in Seq(Task)
      /\ mGraphicBlockStateCount \in [State -> Int]
      /\ mComponentState \in {"UNINITIALIZED", "STARTED", "FLUSHING", "STOPPING"}
      /\ DOMAIN mRawGraphicBlockInfo \subseteq Buffer
      /\ client \subseteq Buffer \cup {NoBuffer}
      /\ left \in [Call -> Nat]
  BY <1>1 DEF TypeOK, Picture
<1>3. /\ mUseBufferQueue \in BOOLEAN /\ mBufferFirstAllocated \in BOOLEAN
      /\ mResolutionChanging \in BOOLEAN /\ mHaveFlushDone \in BOOLEAN
      /\ mRunTaskLoop \in BOOLEAN /\ mAllocBufferLoop \in BOOLEAN
      /\ fetching \in BOOLEAN /\ flushing \in BOOLEAN
      /\ mHaveDrainDone \in BOOLEAN /\ mReportEosWork \in BOOLEAN
  BY <1>1 DEF TypeOK
<1>4. /\ mOutputFormat \in Format \cup {NoFormat}
      /\ mPendingOutputFormat \in Format \cup {NoFormat}
      /\ mGraphicBufferId \in Nat /\ mOutputWorkCount \in Nat
      /\ allocTasks \in Nat /\ waitTasks \in Nat
  BY <1>1 DEF TypeOK
<1>5. decoder.blocks \subseteq Nat /\ decoder.asked \in BOOLEAN /\ decoder.fed \in BOOLEAN /\ decoder.resetting \in BOOLEAN
  BY <1>1
<1> QED BY <1>1, <1>2, <1>3, <1>4, <1>5

-----------------------------------------------------------------------------
(* The order of the tasks. *)

orderVars == <<mComponentState, mPendingOutputFormat, mBufferFirstAllocated, mHaveFlushDone,
               mPendingBuffersToWork, fetching, allocTasks, waitTasks, decoder, flushing,
               mGraphicBlocks, mRawGraphicBlockInfo>>

LEMMA OrderTaken ==
    ASSUME TypeInv, OrderInv, mTaskQueue # <<>>, mTaskQueue' = Tail(mTaskQueue),
           Head(mTaskQueue).type \notin {"flush", "start"}, UNCHANGED orderVars,
           Alive' => Alive
    PROVE  OrderInv'
<1>1. /\ \A type : Lacks(mTaskQueue, type) <=> Lacks(mTaskQueue', type) /\ Head(mTaskQueue).type # type
      /\ \A before, after : Apart(mTaskQueue, before, after) => Apart(mTaskQueue', before, after)
  BY Types, TakeKeeps
<1>2. CallsInv'
  BY <1>1 DEF OrderInv, CallsInv, orderVars
<1>3. ResetInv'
  BY <1>1 DEF OrderInv, ResetInv, orderVars, Pending
<1>4. FormatInv'
  BY <1>1 DEF OrderInv, FormatInv, orderVars, Pending
<1>5. FlushInv'
  BY <1>1 DEF OrderInv, FlushInv, Quiet, orderVars
<1>6. EmptyInv'
  BY <1>1 DEF OrderInv, EmptyInv, orderVars
<1> QED BY <1>2, <1>3, <1>4, <1>5, <1>6 DEF OrderInv

LEMMA OrderSame ==
    ASSUME OrderInv, UNCHANGED <<mTaskQueue, mComponentState, mPendingOutputFormat,
               mBufferFirstAllocated, mHaveFlushDone, mPendingBuffersToWork, decoder, flushing,
               mGraphicBlocks, mRawGraphicBlockInfo>>,
           Alive' => Alive,
           ~mBufferFirstAllocated => ~fetching' /\ allocTasks' = 0 /\ waitTasks' = 0,
           mComponentState = "STOPPING" => ~fetching'
    PROVE  OrderInv'
<1>1. CallsInv'
  BY DEF OrderInv, CallsInv
<1>2. ResetInv'
  BY DEF OrderInv, ResetInv, Pending
<1>3. FormatInv'
  BY DEF OrderInv, FormatInv, Pending
<1>4. FlushInv'
  BY DEF OrderInv, FlushInv, Quiet
<1>5. EmptyInv'
  BY DEF OrderInv, EmptyInv
<1> QED BY <1>1, <1>2, <1>3, <1>4, <1>5 DEF OrderInv

LEMMA OrderDequeue ==
    ASSUME TypeInv, OrderInv,
           UNCHANGED vars \/ WaitOver \/ CancelAllocTask \/ onAllocBufferTask \/ FetchRetry \/ ReturnBuffer
    PROVE  OrderInv'
<1>1. UNCHANGED <<mTaskQueue, mComponentState, mCompHasError, mPendingOutputFormat,
               mBufferFirstAllocated, mHaveFlushDone, mPendingBuffersToWork, decoder, flushing,
               mGraphicBlocks, mRawGraphicBlockInfo>>
  BY DEF vars, component, format, flags, blocks, pool, dequeue, outside,
         WaitOver, CancelAllocTask, onAllocBufferTask, FetchRetry, ReturnBuffer
<1>2. ~mBufferFirstAllocated => ~fetching' /\ allocTasks' = 0 /\ waitTasks' = 0
  BY Types DEF OrderInv, EmptyInv, vars, component, format, flags, blocks, pool, dequeue, outside,
         WaitOver, CancelAllocTask, onAllocBufferTask, FetchRetry, ReturnBuffer
<1>3. mComponentState = "STOPPING" => ~fetching'
  BY DEF OrderInv, ResetInv, vars, component, format, flags, blocks, pool, dequeue, outside,
         WaitOver, CancelAllocTask, onAllocBufferTask, FetchRetry, ReturnBuffer
<1>4. Alive' => Alive
  BY <1>1 DEF Alive
<1> QED BY <1>1, <1>2, <1>3, <1>4, OrderSame

LEMMA OrderDropped ==
    ASSUME TypeInv, OrderInv,
           Skip \/ DropReturned \/ ReturnedUnknown \/ ReturnedNotOwned \/ DropFetched \/ DropPicture
    PROVE  OrderInv'
<1>1. mTaskQueue # <<>> /\ mTaskQueue' = Tail(mTaskQueue) /\ UNCHANGED orderVars
  BY DEF Skip, DropReturned, ReturnedUnknown, ReturnedNotOwned, DropFetched, DropPicture, Take,
         orderVars, component, format, flags, blocks, pool, dequeue, outside
<1>2. CASE Skip
  <2>1. ~Alive /\ Head(mTaskQueue).type # "start" /\ UNCHANGED mCompHasError
    BY <1>2 DEF Skip, component
  <2>2. ~Alive'
    BY <2>1, <1>1 DEF Alive, orderVars
  <2>3. /\ \A type : Lacks(mTaskQueue, type) => Lacks(mTaskQueue', type)
        /\ \A before, after : Apart(mTaskQueue, before, after) => Apart(mTaskQueue', before, after)
    BY <1>1, Types, TakeKeeps
  <2>4. CallsInv'
    BY <2>3, <1>1 DEF OrderInv, CallsInv, orderVars
  <2>5. ResetInv'
    BY <2>3, <1>1 DEF OrderInv, ResetInv, orderVars, Pending
  <2>6. FormatInv'
    BY <2>3, <1>1 DEF OrderInv, FormatInv, orderVars, Pending
  <2>7. FlushInv'
    BY <2>3, <2>2, <1>1 DEF OrderInv, FlushInv, Quiet, orderVars
  <2>8. EmptyInv'
    BY <2>3, <1>1 DEF OrderInv, EmptyInv, orderVars
  <2> QED BY <2>4, <2>5, <2>6, <2>7, <2>8 DEF OrderInv
<1>3. CASE ~Skip
  <2>1. Alive /\ Head(mTaskQueue).type \in {"returned", "fetched", "done"}
    BY <1>3 DEF DropReturned, ReturnedUnknown, ReturnedNotOwned, DropFetched, DropPicture, Take
  <2> QED BY <1>1, <2>1, OrderTaken
<1> QED BY <1>2, <1>3

LEMMA DeliverNone ==
    ASSUME NEW bs, Blocks(bs), NEW held, NEW pictures, pictures = <<>>, mUseBufferQueue \in BOOLEAN
    PROVE  LET d == Deliver(bs, held, pictures)
           IN  /\ d.pictures = <<>> /\ d.decoder = held /\ d.client = client /\ ~d.mistaken
               /\ DOMAIN d.blocks = DOMAIN bs
<1>1. pictures \in Seq(Picture) /\ Len(pictures) = 0
  OBVIOUS
<1> DEFINE d == Deliver(bs, held, pictures)
<1>2. PICK n, shown, back : n \in 0..Len(pictures) /\ Delivers(d, bs, held, pictures, n, shown, back)
  BY <1>1, Delivery
<1>3. n = 0 /\ shown = {} /\ back = {}
  BY <1>1, <1>2 DEF Delivers
<1>4. d.pictures = <<>>
  <2> HIDE DEF d
  <2> QED BY <1>1, <1>2, <1>3 DEF Delivers
<1>5. WithBuffer(bs, {}) = {} /\ {bs[id].buf : id \in {}} = {}
  BY DEF WithBuffer
<1> QED
  <2> HIDE DEF d
  <2>1. d.decoder = held /\ d.client = client /\ ~d.mistaken /\ DOMAIN d.blocks = DOMAIN bs
    BY <1>1, <1>2, <1>3, <1>5 DEF Delivers
  <2> QED BY <2>1, <1>4 DEF d

LEMMA OrderPosted ==
    ASSUME TypeInv, OrderInv, FetchDone
    PROVE  OrderInv'
<1>1. PICK b \in Fetchable :
          mTaskQueue' = Append(mTaskQueue,
              [type |-> IF IdOf(b) \in DOMAIN mGraphicBlocks THEN "returned" ELSE "fetched",
               buf |-> b, id |-> IdOf(b)])
  BY DEF FetchDone, Post
<1>2. b \in Buffer /\ IdOf(b) \in Nat
  BY Types DEF Fetchable, Free, IdOf, TypeInv
<1>3. PICK t \in Task : mTaskQueue' = Append(mTaskQueue, t) /\ t.type \in Fetched
  BY <1>1, <1>2, KindsOfTask DEF Fetched
<1>4. /\ \A type : Lacks(mTaskQueue, type) /\ t.type # type => Lacks(mTaskQueue', type)
      /\ \A before, after : Apart(mTaskQueue, before, after) /\ (t.type = after => Lacks(mTaskQueue, before)) =>
             Apart(mTaskQueue', before, after)
  BY <1>3, Types, PostKeeps
<1>5. /\ UNCHANGED <<mComponentState, mCompHasError, mPendingOutputFormat, mBufferFirstAllocated,
               mHaveFlushDone, mPendingBuffersToWork, decoder, flushing, mGraphicBlocks>>
      /\ fetching /\ ~fetching'
  BY DEF FetchDone, component, format, flags, blocks, outside
<1>6. mBufferFirstAllocated
  BY <1>5, Types DEF OrderInv, EmptyInv
<1>7. \A type : Lacks(mTaskQueue', type) /\ t.type # type => Lacks(mTaskQueue, type)
  BY <1>3, Types, AppendElements DEF Lacks
<1>8. CallsInv'
  BY <1>3, <1>4, <1>5 DEF OrderInv, CallsInv, Fetched
<1>9. ResetInv'
  <2>1. mComponentState # "FLUSHING" => mComponentState \in {"UNINITIALIZED", "STARTED"}
    BY <1>5, Types DEF OrderInv, ResetInv
  <2>2. mComponentState # "FLUSHING" => Lacks(mTaskQueue, "resetDone")
    BY <2>1 DEF OrderInv, ResetInv
  <2> QED BY <1>3, <1>4, <1>5, <1>6, <2>2 DEF OrderInv, ResetInv, Fetched, Pending
<1>10. FormatInv'
  BY <1>3, <1>4, <1>5 DEF OrderInv, FormatInv, Fetched, Pending
<1>11. FlushInv'
  BY <1>3, <1>4, <1>5, <1>7 DEF OrderInv, FlushInv, Fetched, Quiet, Alive
<1>12. EmptyInv'
  BY <1>5, <1>6 DEF EmptyInv
<1> QED BY <1>8, <1>9, <1>10, <1>11, <1>12 DEF OrderInv

\* Tasks that take a block or a picture: there are blocks.
LEMMA OrderWithBlocks ==
    ASSUME TypeInv, OrderInv, onNewBlockBufferFetched \/ LatePicture \/ onOutputBufferDone
    PROVE  OrderInv'
<1>1. /\ Alive /\ mTaskQueue # <<>> /\ mTaskQueue' = Tail(mTaskQueue)
      /\ Head(mTaskQueue).type \in {"fetched", "done"}
      /\ onOutputBufferDone => Head(mTaskQueue).type = "done"
  BY DEF onNewBlockBufferFetched, LatePicture, onOutputBufferDone, Take
<1>2. /\ \A type : Lacks(mTaskQueue, type) <=> Lacks(mTaskQueue', type) /\ Head(mTaskQueue).type # type
      /\ \A before, after : Apart(mTaskQueue, before, after) => Apart(mTaskQueue', before, after)
  BY <1>1, Types, TakeKeeps
<1>3. /\ UNCHANGED <<mComponentState, mPendingOutputFormat, mBufferFirstAllocated,
               mHaveFlushDone, fetching, flushing>>
      /\ ~onOutputBufferDone => UNCHANGED mPendingBuffersToWork
  BY DEF onNewBlockBufferFetched, LatePicture, onOutputBufferDone, Delivered,
         component, format, flags, dequeue
<1>4. decoder'.asked = decoder.asked /\ decoder'.fed = decoder.fed /\ decoder'.resetting = decoder.resetting
  BY Types DEF onNewBlockBufferFetched, LatePicture, onOutputBufferDone, Delivered
<1>5. mBufferFirstAllocated
  BY <1>1, <1>2, Types DEF OrderInv, EmptyInv
<1>6. CallsInv'
  BY <1>1, <1>2, <1>3 DEF OrderInv, CallsInv
<1>7. ResetInv'
  BY <1>2, <1>3, <1>4 DEF OrderInv, ResetInv, Pending
<1>8. FormatInv'
  BY <1>2, <1>3, <1>4 DEF OrderInv, FormatInv, Pending
<1>9. FlushInv'
  <2>1. onOutputBufferDone => ~Quiet
    BY <1>1, <1>2 DEF Quiet
  <2>2. Quiet => Quiet'
    BY <2>1, <1>2, <1>3, <1>4 DEF Quiet
  <2>3. Alive' /\ Lacks(mTaskQueue', "flush") => Lacks(mTaskQueue, "flush")
    BY <1>1, <1>2
  <2> QED BY <1>1, <1>2, <1>3, <2>2, <2>3 DEF OrderInv, FlushInv
<1>10. EmptyInv'
  BY <1>3, <1>5 DEF EmptyInv
<1> QED BY <1>6, <1>7, <1>8, <1>9, <1>10 DEF OrderInv

\* Tasks that only deliver.
LEMMA OrderDelivered ==
    ASSUME TypeInv, OrderInv, sendOutputBufferToWorkIfAnyTask \/ onDrainDone
    PROVE  OrderInv'
<1>1. /\ Alive /\ mTaskQueue # <<>> /\ mTaskQueue' = Tail(mTaskQueue)
      /\ Head(mTaskQueue).type \in {"send", "drainDone"}
  BY DEF sendOutputBufferToWorkIfAnyTask, onDrainDone, Take
<1>2. /\ \A type : Lacks(mTaskQueue, type) <=> Lacks(mTaskQueue', type) /\ Head(mTaskQueue).type # type
      /\ \A before, after : Apart(mTaskQueue, before, after) => Apart(mTaskQueue', before, after)
  BY <1>1, Types, TakeKeeps
<1>3. UNCHANGED <<mComponentState, mPendingOutputFormat, mBufferFirstAllocated, mHaveFlushDone,
                  fetching, allocTasks, waitTasks, flushing, mRawGraphicBlockInfo>>
  BY DEF sendOutputBufferToWorkIfAnyTask, onDrainDone, Delivered, component, format, flags, dequeue, pool
<1> DEFINE d == Deliver(mGraphicBlocks, decoder.blocks, mPendingBuffersToWork)
<1>4. \/ UNCHANGED <<mPendingBuffersToWork, decoder, mGraphicBlocks>>
      \/ /\ decoder' = [decoder EXCEPT !.blocks = d.decoder]
         /\ mPendingBuffersToWork' = d.pictures
         /\ mGraphicBlocks' = d.blocks
  BY DEF sendOutputBufferToWorkIfAnyTask, onDrainDone, Delivered
<1>5. mPendingBuffersToWork = <<>> =>
          d.pictures = <<>> /\ d.decoder = decoder.blocks /\ DOMAIN d.blocks = DOMAIN mGraphicBlocks
  BY Types, DeliverNone
<1> HIDE DEF d
<1>6. decoder'.asked = decoder.asked /\ decoder'.fed = decoder.fed /\ decoder'.resetting = decoder.resetting
  BY Types, <1>4
<1>7. mPendingBuffersToWork = <<>> =>
          /\ mPendingBuffersToWork' = <<>> /\ decoder'.blocks = decoder.blocks
          /\ DOMAIN mGraphicBlocks' = DOMAIN mGraphicBlocks
  BY Types, <1>4, <1>5
<1>8. CallsInv'
  BY <1>2, <1>3 DEF OrderInv, CallsInv
<1>9. ResetInv'
  BY <1>2, <1>3, <1>6 DEF OrderInv, ResetInv, Pending
<1>10. FormatInv'
  BY <1>2, <1>3, <1>6 DEF OrderInv, FormatInv, Pending
<1>11. FlushInv'
  <2>1. Quiet => Quiet'
    BY <1>2, <1>6, <1>7 DEF Quiet
  <2> QED BY <1>1, <1>2, <1>3, <2>1 DEF OrderInv, FlushInv
<1>12. EmptyInv'
  BY <1>2, <1>3, <1>7 DEF OrderInv, EmptyInv
<1> QED BY <1>8, <1>9, <1>10, <1>11, <1>12 DEF OrderInv

LEMMA OrderInput ==
    ASSUME TypeInv, OrderInv, onInputBufferDone
    PROVE  OrderInv'
<1>1. /\ mTaskQueue' = Append(mTaskQueue, [type |-> "send"]) /\ mPendingBuffersToWork # <<>>
      /\ UNCHANGED <<mComponentState, mCompHasError, mPendingOutputFormat, mBufferFirstAllocated,
               mHaveFlushDone, fetching, decoder, flushing>>
  <2>1. mPendingBuffersToWork # <<>>
    BY Types DEF onInputBufferDone
  <2> QED BY <2>1 DEF onInputBufferDone, Post, component, format, flags, dequeue, outside
<1>2. PICK t \in Task : mTaskQueue' = Append(mTaskQueue, t) /\ t.type = "send"
  BY <1>1, KindsOfTask
<1>3. /\ \A type : Lacks(mTaskQueue, type) /\ t.type # type => Lacks(mTaskQueue', type)
      /\ \A before, after : Apart(mTaskQueue, before, after) /\ (t.type = after => Lacks(mTaskQueue, before)) =>
             Apart(mTaskQueue', before, after)
  BY <1>2, Types, PostKeeps
<1>4. \A type : Lacks(mTaskQueue', type) => Lacks(mTaskQueue, type)
  BY <1>2, Types, AppendElements DEF Lacks
<1>5. ~Quiet /\ mBufferFirstAllocated
  BY <1>1, Types DEF Quiet, OrderInv, EmptyInv
<1>6. CallsInv'
  BY <1>1, <1>2, <1>3 DEF OrderInv, CallsInv
<1>7. ResetInv'
  BY <1>1, <1>2, <1>3, <1>5 DEF OrderInv, ResetInv, Pending, Fetched
<1>8. FormatInv'
  BY <1>1, <1>2, <1>3 DEF OrderInv, FormatInv, Pending
<1>9. FlushInv'
  BY <1>1, <1>4, <1>5 DEF OrderInv, FlushInv, Alive
<1>10. EmptyInv'
  BY <1>1, <1>5 DEF EmptyInv
<1> QED BY <1>6, <1>7, <1>8, <1>9, <1>10 DEF OrderInv

LEMMA OrderReset ==
    ASSUME TypeInv, OrderInv, onFlush \/ onStop
    PROVE  OrderInv'
<1>1. /\ Alive /\ mTaskQueue # <<>> /\ mTaskQueue' = Tail(mTaskQueue)
      /\ Head(mTaskQueue).type \in {"flush", "stop"}
      /\ onStop <=> Head(mTaskQueue).type = "stop"
  BY DEF onFlush, onStop, Take
<1>2. /\ \A type : Lacks(mTaskQueue, type) <=> Lacks(mTaskQueue', type) /\ Head(mTaskQueue).type # type
      /\ \A before, after : Apart(mTaskQueue, before, after) =>
             /\ Apart(mTaskQueue', before, after)
             /\ Head(mTaskQueue).type = before => Lacks(mTaskQueue', after)
  BY <1>1, Types, TakeKeeps
<1>3. mComponentState = "STARTED" /\ (onStop => ~flushing)
  BY <1>1, <1>2 DEF OrderInv, CallsInv
<1>4. /\ UNCHANGED <<mPendingOutputFormat, mBufferFirstAllocated, mHaveFlushDone,
                     mPendingBuffersToWork, flushing, mGraphicBlocks, mRawGraphicBlockInfo>>
      /\ decoder' = [decoder EXCEPT !.blocks = {}, !.fed = FALSE, !.resetting = TRUE]
      /\ mComponentState' \in {"FLUSHING", "STOPPING"}
      /\ onStop => mComponentState' = "STOPPING" /\ ~fetching
      /\ ~onStop => mComponentState' = "FLUSHING"
      /\ fetching' = fetching
      /\ allocTasks' \in {0, allocTasks} /\ waitTasks' \in {0, waitTasks}
  BY <1>1, <1>3 DEF onFlush, onStop, StopRunDequeueTask, component, format, flags, blocks, pool, dequeue
<1>5. /\ decoder'.asked = decoder.asked /\ ~decoder'.fed /\ decoder'.resetting /\ decoder'.blocks = {}
  BY <1>4, Types
<1>6. \A type \in {"flush", "stop", "queue"} : Lacks(mTaskQueue', type)
  BY <1>1, <1>2 DEF OrderInv, CallsInv
<1>7. CallsInv'
  BY <1>1, <1>2, <1>3, <1>4, <1>6 DEF OrderInv, CallsInv
<1>8. ResetInv'
  <2>1. Lacks(mTaskQueue', "resetDone")
    BY <1>2, <1>3 DEF OrderInv, ResetInv
  <2>2. \A after : Apart(mTaskQueue', "resetDone", after)
    BY <2>1, LacksApart
  <2> QED BY <1>1, <1>4, <1>5, <2>1, <2>2 DEF ResetInv
<1>9. FormatInv'
  BY <1>2, <1>4, <1>5 DEF OrderInv, FormatInv, Pending
<1>10. FlushInv'
  BY <1>2, <1>4, <1>5 DEF OrderInv, FlushInv, Quiet
<1>11. EmptyInv'
  BY <1>2, <1>4, <1>5 DEF OrderInv, EmptyInv
<1> QED BY <1>7, <1>8, <1>9, <1>10, <1>11 DEF OrderInv

LEMMA OrderFlushDone ==
    ASSUME TypeInv, OrderInv, onFlushDone
    PROVE  OrderInv'
<1>1. /\ Alive /\ mTaskQueue # <<>> /\ mTaskQueue' = Tail(mTaskQueue)
      /\ Head(mTaskQueue).type = "resetDone" /\ mComponentState = "FLUSHING"
  BY DEF onFlushDone, Take
<1>2. /\ \A type : Lacks(mTaskQueue, type) <=> Lacks(mTaskQueue', type) /\ Head(mTaskQueue).type # type
      /\ \A before, after : Apart(mTaskQueue, before, after) =>
             /\ Apart(mTaskQueue', before, after)
             /\ Head(mTaskQueue).type = before => Lacks(mTaskQueue', after)
  BY <1>1, Types, TakeKeeps
<1>3. /\ UNCHANGED <<mPendingOutputFormat, mBufferFirstAllocated, mHaveFlushDone, flushing,
                     mGraphicBlocks, mRawGraphicBlockInfo, decoder>>
      /\ \/ mComponentState' = "STARTED" /\ mPendingBuffersToWork' = <<>>
         \/ mComponentState' = "FLUSHING" /\ mPendingBuffersToWork' = mPendingBuffersToWork /\ ~Alive'
      /\ ~fetching /\ ~fetching' /\ allocTasks' = 0 /\ waitTasks' = 0
  BY <1>1, Types DEF onFlushDone, StopRunDequeueTask, format, pool, outside, Alive
<1>4. \A type \in {"done", "format", "queue", "flush", "stop", "resetDone"} : Lacks(mTaskQueue', type)
  BY <1>1, <1>2 DEF OrderInv, ResetInv
<1>5. ~decoder.fed /\ ~decoder.resetting
  BY <1>1, <1>2, Types DEF OrderInv, ResetInv
<1>6. CallsInv'
  BY <1>1, <1>2, <1>3, <1>4 DEF OrderInv, CallsInv
<1>7. ResetInv'
  <2>1. \A after : Apart(mTaskQueue', "resetDone", after)
    BY <1>4, LacksApart
  <2> QED BY <1>3, <1>4, <1>5, <2>1 DEF ResetInv
<1>8. FormatInv'
  BY <1>2, <1>3 DEF OrderInv, FormatInv, Pending
<1>9. FlushInv'
  BY <1>2, <1>3, <1>4, <1>5 DEF OrderInv, FlushInv, Quiet
<1>10. EmptyInv'
  BY <1>2, <1>3 DEF OrderInv, EmptyInv
<1> QED BY <1>6, <1>7, <1>8, <1>9, <1>10 DEF OrderInv

LEMMA OrderFlushReturn ==
    ASSUME TypeInv, OrderInv, FlushReturn
    PROVE  OrderInv'
<1>1. /\ Alive /\ flushing /\ ~flushing' /\ mComponentState # "FLUSHING" /\ Lacks(mTaskQueue, "flush")
      /\ UNCHANGED <<mTaskQueue, mComponentState, mPendingOutputFormat, mBufferFirstAllocated,
             mPendingBuffersToWork, mGraphicBlocks, mRawGraphicBlockInfo, decoder, fetching,
             allocTasks, waitTasks>>
  BY DEF FlushReturn, component, format, blocks, pool, dequeue, Lacks
<1>2. mComponentState = "STARTED"
  BY <1>1, Types DEF OrderInv, CallsInv, Alive
<1>3. Quiet
  BY <1>1, <1>2 DEF OrderInv, FlushInv
<1>4. CallsInv'
  BY <1>1, <1>2 DEF OrderInv, CallsInv
<1>5. ResetInv'
  BY <1>1 DEF OrderInv, ResetInv, Pending
<1>6. FormatInv'
  BY <1>1 DEF OrderInv, FormatInv, Pending
<1>7. FlushInv'
  BY <1>1, <1>3 DEF FlushInv, Quiet
<1>8. EmptyInv'
  BY <1>1 DEF OrderInv, EmptyInv
<1> QED BY <1>4, <1>5, <1>6, <1>7, <1>8 DEF OrderInv

LEMMA OrderQueueWork ==
    ASSUME TypeInv, OrderInv, onQueueWork
    PROVE  OrderInv'
<1>1. /\ Alive /\ mTaskQueue # <<>> /\ mTaskQueue' = Tail(mTaskQueue) /\ Head(mTaskQueue).type = "queue"
  BY DEF onQueueWork, Take
<1>2. /\ \A type : Lacks(mTaskQueue, type) <=> Lacks(mTaskQueue', type) /\ Head(mTaskQueue).type # type
      /\ \A before, after : Apart(mTaskQueue, before, after) =>
             /\ Apart(mTaskQueue', before, after)
             /\ Head(mTaskQueue).type = before => Lacks(mTaskQueue', after)
  BY <1>1, Types, TakeKeeps
<1>3. /\ mComponentState = "STARTED"
      /\ UNCHANGED <<mComponentState, mPendingOutputFormat, mBufferFirstAllocated,
             mPendingBuffersToWork, mRawGraphicBlockInfo, fetching, flushing>>
      /\ mHaveFlushDone' = FALSE
      /\ ~mBufferFirstAllocated => UNCHANGED <<mGraphicBlocks, allocTasks, waitTasks>>
  BY <1>1, <1>2, Types DEF onQueueWork, component, format, pool, OrderInv, CallsInv
<1>4. /\ decoder'.fed /\ decoder'.asked = decoder.asked /\ decoder'.resetting = decoder.resetting
      /\ ~mBufferFirstAllocated => decoder'.blocks = decoder.blocks
  BY Types DEF onQueueWork
<1>5. CallsInv'
  BY <1>2, <1>3 DEF OrderInv, CallsInv
<1>6. ResetInv'
  BY <1>2, <1>3, <1>4 DEF OrderInv, ResetInv, Pending
<1>7. FormatInv'
  BY <1>2, <1>3, <1>4 DEF OrderInv, FormatInv, Pending
<1>8. FlushInv'
  <2>1. ~(flushing /\ Lacks(mTaskQueue, "flush"))
    BY <1>1, <1>2, <1>3 DEF OrderInv, FlushInv
  <2> QED BY <1>1, <1>2, <1>3, <2>1 DEF FlushInv
<1>9. EmptyInv'
  BY <1>2, <1>3, <1>4 DEF OrderInv, EmptyInv
<1> QED BY <1>5, <1>6, <1>7, <1>8, <1>9 DEF OrderInv

LEMMA OrderStart ==
    ASSUME TypeInv, OrderInv, onStart
    PROVE  OrderInv'
<1>1. /\ mTaskQueue # <<>> /\ mTaskQueue' = Tail(mTaskQueue) /\ Head(mTaskQueue).type = "start"
  BY DEF onStart
<1>2. /\ \A type : Lacks(mTaskQueue, type) <=> Lacks(mTaskQueue', type) /\ Head(mTaskQueue).type # type
      /\ \A before, after : Apart(mTaskQueue, before, after) =>
             /\ Apart(mTaskQueue', before, after)
             /\ Head(mTaskQueue).type = before => Lacks(mTaskQueue', after)
  BY <1>1, Types, TakeKeeps
<1>3. /\ mComponentState = "UNINITIALIZED" /\ mComponentState' = "STARTED"
      /\ UNCHANGED <<mPendingOutputFormat, mBufferFirstAllocated, mHaveFlushDone,
             mPendingBuffersToWork, mRawGraphicBlockInfo, mGraphicBlocks, fetching, flushing,
             allocTasks, waitTasks>>
      /\ decoder' = [blocks |-> {}, asked |-> FALSE, fed |-> FALSE, resetting |-> FALSE]
  BY <1>1, <1>2 DEF onStart, format, pool, flags, blocks, dequeue, OrderInv, CallsInv
<1>4. /\ \A type \in {"flush", "stop", "queue", "resetDone", "format", "returned", "fetched", "done"} :
             Lacks(mTaskQueue', type)
      /\ mPendingBuffersToWork = <<>> /\ ~Pending
  BY <1>2, <1>3 DEF OrderInv, CallsInv, ResetInv, EmptyInv
<1>5. CallsInv'
  <2>1. Lacks(mTaskQueue', "start")
    BY <1>1, <1>2 DEF OrderInv, CallsInv
  <2> QED BY <1>2, <1>3, <1>4, <2>1 DEF OrderInv, CallsInv
<1>6. ResetInv'
  BY <1>2, <1>3, <1>4 DEF OrderInv, ResetInv, Pending
<1>7. FormatInv'
  BY <1>2, <1>3, <1>4 DEF OrderInv, FormatInv, Pending
<1>8. FlushInv'
  BY <1>3, <1>4 DEF FlushInv, Quiet
<1>9. EmptyInv'
  BY <1>2, <1>3 DEF OrderInv, EmptyInv
<1> QED BY <1>5, <1>6, <1>7, <1>8, <1>9 DEF OrderInv

LEMMA OrderStopDone ==
    ASSUME TypeInv, OrderInv, onStopDone
    PROVE  OrderInv'
<1>1. /\ Alive /\ mTaskQueue # <<>> /\ mTaskQueue' = Tail(mTaskQueue)
      /\ Head(mTaskQueue).type = "resetDone" /\ mComponentState = "STOPPING"
  BY DEF onStopDone, Take
<1>2. /\ \A type : Lacks(mTaskQueue, type) <=> Lacks(mTaskQueue', type) /\ Head(mTaskQueue).type # type
      /\ \A before, after : Apart(mTaskQueue, before, after) =>
             /\ Apart(mTaskQueue', before, after)
             /\ Head(mTaskQueue).type = before => Lacks(mTaskQueue', after)
  BY <1>1, Types, TakeKeeps
<1>3. /\ mComponentState' = "UNINITIALIZED" /\ mPendingOutputFormat' = NoFormat
      /\ mPendingBuffersToWork' = <<>> /\ mBufferFirstAllocated' = FALSE
      /\ mGraphicBlocks' = NoBlocks /\ mRawGraphicBlockInfo' = NoBlocks
      /\ decoder' = [decoder EXCEPT !.blocks = {}]
      /\ ~fetching /\ ~fetching' /\ allocTasks' = 0 /\ waitTasks' = 0
      /\ UNCHANGED <<mHaveFlushDone, flushing>>
  BY <1>1, Types DEF onStopDone, StopRunDequeueTask
<1>4. \A type \in {"done", "format", "queue", "flush", "stop", "resetDone", "returned", "fetched"} :
          Lacks(mTaskQueue', type)
  BY <1>1, <1>2 DEF OrderInv, ResetInv, Fetched
<1>5. /\ decoder'.fed = decoder.fed /\ decoder'.asked = decoder.asked
      /\ decoder'.resetting = decoder.resetting /\ decoder'.blocks = {}
      /\ ~decoder.fed /\ ~decoder.resetting
  BY <1>1, <1>2, <1>3, Types DEF OrderInv, ResetInv
<1>6. CallsInv'
  BY <1>2, <1>3, <1>4 DEF OrderInv, CallsInv
<1>7. ResetInv'
  <2>1. \A after : Apart(mTaskQueue', "resetDone", after)
    BY <1>4, LacksApart
  <2> QED BY <1>3, <1>4, <1>5, <2>1 DEF ResetInv, Pending
<1>8. FormatInv'
  BY <1>2, <1>3, <1>4, <1>5 DEF OrderInv, FormatInv, Pending
<1>9. FlushInv'
  BY <1>3, <1>4, <1>5 DEF FlushInv, Quiet, Alive
<1>10. EmptyInv'
  BY <1>3, <1>4, <1>5, NoBlocksHere DEF EmptyInv
<1> QED BY <1>6, <1>7, <1>8, <1>9, <1>10 DEF OrderInv

\* What a change of the format does to what the order is about.
LEMMA OrderChange ==
    ASSUME TypeInv, OrderInv, NEW bs, DOMAIN bs = DOMAIN mGraphicBlocks, NEW fmt \in Format,
           tryChangeOutputFormat(bs, fmt), Alive, mTaskQueue # <<>>,
           Head(mTaskQueue).type \in {"format", "tryChange", "returned"},
           Pending \/ Head(mTaskQueue).type = "format",
           UNCHANGED <<mPendingBuffersToWork, mHaveFlushDone, flushing>>
    PROVE  OrderInv'
<1>1. /\ \A type : Lacks(mTaskQueue, type) <=> Lacks(Tail(mTaskQueue), type) /\ Head(mTaskQueue).type # type
      /\ \A before, after : Apart(mTaskQueue, before, after) =>
             /\ Apart(Tail(mTaskQueue), before, after)
             /\ Head(mTaskQueue).type = before => Lacks(Tail(mTaskQueue), after)
      /\ Tail(mTaskQueue) \in Seq(Task)
  BY Types, TakeKeeps
<1>2. Lacks(Tail(mTaskQueue), "format") /\ Lacks(Tail(mTaskQueue), "done") /\ decoder.asked
  BY <1>1, Types DEF OrderInv, FormatInv
<1>3. mComponentState # "UNINITIALIZED"
  BY DEF Alive
<1>4. ASSUME mPendingOutputFormat' = fmt, mGraphicBlocks' = bs,
             UNCHANGED <<mComponentState, mBufferFirstAllocated, mRawGraphicBlockInfo, fetching,
                         allocTasks, waitTasks, decoder>>,
             mTaskQueue' = Tail(mTaskQueue)
                 \/ mTaskQueue' = Append(Tail(mTaskQueue), [type |-> "tryChange"]),
             Alive' => Alive
      PROVE  OrderInv'
  <2>1. /\ \A type : Lacks(Tail(mTaskQueue), type) /\ "tryChange" # type => Lacks(mTaskQueue', type)
        /\ \A before, after : Apart(Tail(mTaskQueue), before, after) /\ after # "tryChange" =>
               Apart(mTaskQueue', before, after)
    <3>1. CASE mTaskQueue' = Tail(mTaskQueue)
      BY <3>1
    <3>2. CASE mTaskQueue' = Append(Tail(mTaskQueue), [type |-> "tryChange"])
      <4>1. PICK t \in Task : mTaskQueue' = Append(Tail(mTaskQueue), t) /\ t.type = "tryChange"
        BY <3>2, KindsOfTask
      <4> QED BY <4>1, <1>1, PostKeeps
    <3> QED BY <3>1, <3>2, <1>4
  <2>2. Lacks(mTaskQueue', "flush") => Lacks(Tail(mTaskQueue), "flush")
    <3>1. CASE mTaskQueue' = Tail(mTaskQueue)
      BY <3>1
    <3>2. CASE mTaskQueue' = Append(Tail(mTaskQueue), [type |-> "tryChange"])
      <4>1. PICK t \in Task : mTaskQueue' = Append(Tail(mTaskQueue), t)
        BY <3>2, KindsOfTask
      <4>2. \A i \in 1..Len(Tail(mTaskQueue)) :
                i \in 1..Len(mTaskQueue') /\ mTaskQueue'[i] = Tail(mTaskQueue)[i]
        BY <4>1, <1>1, AppendElements
      <4> QED BY <4>2 DEF Lacks
    <3> QED BY <3>1, <3>2, <1>4
  <2>3. CallsInv'
    BY <1>1, <1>4, <2>1 DEF OrderInv, CallsInv
  <2>4. ResetInv'
    BY <1>1, <1>3, <1>4, <2>1 DEF OrderInv, ResetInv, Fetched
  <2>5. FormatInv'
    BY <1>1, <1>2, <1>4, <2>1 DEF OrderInv, FormatInv
  <2>6. FlushInv'
    BY <1>1, <1>4, <2>1, <2>2 DEF OrderInv, FlushInv, Quiet
  <2>7. EmptyInv'
    BY <1>1, <1>4, <2>1 DEF OrderInv, EmptyInv
  <2> QED BY <2>3, <2>4, <2>5, <2>6, <2>7 DEF OrderInv
<1>5. CASE WaitsForPictures
  <2>1. /\ mPendingOutputFormat' = fmt /\ mGraphicBlocks' = bs
        /\ UNCHANGED <<mComponentState, mBufferFirstAllocated, mRawGraphicBlockInfo, fetching,
                       allocTasks, waitTasks, decoder, mCompHasError>>
        /\ mTaskQueue' = Append(Tail(mTaskQueue), [type |-> "tryChange"])
    BY <1>5 DEF tryChangeOutputFormat, component, pool, dequeue
  <2> QED BY <2>1, <1>4 DEF Alive
<1>6. CASE ~WaitsForPictures /\ With(bs, "ACCELERATOR") # {}
  <2>1. /\ mPendingOutputFormat' = fmt /\ mGraphicBlocks' = bs
        /\ UNCHANGED <<mComponentState, mBufferFirstAllocated, mRawGraphicBlockInfo, fetching,
                       allocTasks, waitTasks, decoder>>
        /\ mTaskQueue' = Tail(mTaskQueue)
    BY <1>6 DEF tryChangeOutputFormat, pool, dequeue
  <2> QED BY <2>1, <1>4
<1>7. CASE ~WaitsForPictures /\ With(bs, "ACCELERATOR") = {}
  <2>1. /\ mTaskQueue' = Tail(mTaskQueue) /\ mPendingOutputFormat' = NoFormat
        /\ UNCHANGED <<mComponentState, mCompHasError>>
        /\ mBufferFirstAllocated' /\ ~fetching /\ fetching' = fetching
    BY <1>7, Types DEF tryChangeOutputFormat, component, videoResolutionChange,
       allocateBuffersFromBlockPool, RestartDequeue
  <2>2. decoder'.fed = decoder.fed /\ decoder'.asked = FALSE /\ decoder'.resetting = decoder.resetting
    <3>1. CASE ~mBufferFirstAllocated
      BY <1>7, <3>1, Types DEF tryChangeOutputFormat, allocateBuffersFromBlockPool
    <3>2. CASE mBufferFirstAllocated
      <4>1. DropBlocks(bs, fmt) \/ SendBlocks(bs) \/ ForgetBlocks(bs)
        BY <1>7, <3>2 DEF tryChangeOutputFormat, videoResolutionChange
      <4> QED BY <4>1, Types DEF DropBlocks, SendBlocks, ForgetBlocks
    <3> QED BY <3>1, <3>2
  <2>3. CallsInv'
    BY <1>1, <2>1 DEF OrderInv, CallsInv
  <2>4. ResetInv'
    BY <1>1, <1>3, <2>1, <2>2 DEF OrderInv, ResetInv, Fetched
  <2>5. FormatInv'
    BY <1>1, <1>2, <2>1, <2>2 DEF OrderInv, FormatInv, Pending
  <2>6. FlushInv'
    BY <1>1, <2>1, <2>2 DEF OrderInv, FlushInv, Quiet, Alive
  <2>7. EmptyInv'
    BY <2>1 DEF EmptyInv
  <2> QED BY <2>3, <2>4, <2>5, <2>6, <2>7 DEF OrderInv
<1> QED BY <1>5, <1>6, <1>7

LEMMA OrderFormat ==
    ASSUME TypeInv, OrderInv, TryChange \/ onOutputFormatChanged
    PROVE  OrderInv'
<1>1. CASE TryChange /\ mPendingOutputFormat = NoFormat
  <2>1. /\ mTaskQueue # <<>> /\ mTaskQueue' = Tail(mTaskQueue)
        /\ Head(mTaskQueue).type = "tryChange"
        /\ UNCHANGED orderVars /\ UNCHANGED mCompHasError
    BY <1>1 DEF TryChange, component, format, flags, blocks, pool, dequeue, orderVars
  <2> QED BY <2>1, OrderTaken DEF Alive, orderVars
<1>2. CASE TryChange /\ mPendingOutputFormat # NoFormat
  <2>1. /\ tryChangeOutputFormat(mGraphicBlocks, mPendingOutputFormat)
        /\ Alive /\ mTaskQueue # <<>> /\ Head(mTaskQueue).type = "tryChange" /\ Pending
        /\ UNCHANGED <<mPendingBuffersToWork, mHaveFlushDone, flushing>>
    BY <1>2 DEF TryChange, flags, Pending
  <2>2. mPendingOutputFormat \in Format
    BY <1>2, Types
  <2> QED BY <2>1, <2>2, OrderChange
<1>3. CASE onOutputFormatChanged
  <2> DEFINE bs == Moved(mGraphicBlocks, With(mGraphicBlocks, "ACCELERATOR"), "COMPONENT")
  <2>1. /\ tryChangeOutputFormat(bs, Head(mTaskQueue).fmt)
        /\ Alive /\ mTaskQueue # <<>> /\ Head(mTaskQueue).type = "format"
        /\ UNCHANGED <<mPendingBuffersToWork, mHaveFlushDone, flushing>>
    BY <1>3 DEF onOutputFormatChanged, flags
  <2>2. Head(mTaskQueue).fmt \in Format
    BY <2>1, Types, TailElements, TaskKinds
  <2>3. DOMAIN bs = DOMAIN mGraphicBlocks
    BY DEF Moved
  <2> HIDE DEF bs
  <2> QED BY <2>1, <2>2, <2>3, OrderChange
<1> QED BY <1>1, <1>2, <1>3

LEMMA OrderReturned ==
    ASSUME TypeInv, OrderInv, onOutputBufferReturned
    PROVE  OrderInv'
<1> DEFINE task == Head(mTaskQueue)
           back == [mGraphicBlocks EXCEPT ![task.id].buf = task.buf, ![task.id].state = "COMPONENT"]
           reused == IF task.id \in Ids(mPendingBuffersToWork)
                     THEN [back EXCEPT ![task.id].fdSet = TRUE]
                     ELSE Sent(back, {task.id})
           d == Deliver(reused, decoder.blocks \cup {task.id}, mPendingBuffersToWork)
<1>1. Alive /\ mTaskQueue # <<>> /\ task.type = "returned"
  BY DEF onOutputBufferReturned
<1>2. /\ \A type : Lacks(mTaskQueue, type) <=> Lacks(Tail(mTaskQueue), type) /\ Head(mTaskQueue).type # type
      /\ \A before, after : Apart(mTaskQueue, before, after) => Apart(Tail(mTaskQueue), before, after)
  BY <1>1, Types, TakeKeeps
<1>3. mBufferFirstAllocated
  BY <1>1, <1>2, Types DEF OrderInv, EmptyInv
<1>4. CASE mPendingOutputFormat # NoFormat
  <2>1. /\ tryChangeOutputFormat(back, mPendingOutputFormat) /\ Pending
        /\ UNCHANGED <<mPendingBuffersToWork, mHaveFlushDone, flushing>>
    BY <1>4 DEF onOutputBufferReturned, flags, Pending
  <2>2. mPendingOutputFormat \in Format /\ DOMAIN back = DOMAIN mGraphicBlocks
    BY <1>4, Types
  <2> HIDE DEF back
  <2> QED BY <1>1, <2>1, <2>2, OrderChange
<1>5. CASE mPendingOutputFormat = NoFormat
  <2>1. /\ mTaskQueue' = Tail(mTaskQueue)
        /\ decoder' = [decoder EXCEPT !.blocks = d.decoder]
        /\ mPendingBuffersToWork' = d.pictures
        /\ UNCHANGED <<mComponentState, mPendingOutputFormat, mBufferFirstAllocated, mHaveFlushDone,
                       fetching, flushing>>
    BY <1>5 DEF onOutputBufferReturned, Delivered, format, flags, dequeue
  <2>2. mPendingBuffersToWork = <<>> => d.pictures = <<>>
    <3>1. Ready(mPendingBuffersToWork) \in 0..Len(mPendingBuffersToWork)
      BY Types, ReadyExists
    <3>2. d.pictures = SubSeq(mPendingBuffersToWork, Ready(mPendingBuffersToWork) + 1, Len(mPendingBuffersToWork))
      BY DEF Deliver, Ready
    <3> HIDE DEF d
    <3>3. ASSUME mPendingBuffersToWork = <<>> PROVE d.pictures = <<>>
      <4>1. Len(mPendingBuffersToWork) = 0 /\ Ready(mPendingBuffersToWork) = 0
        BY <3>1, <3>3
      <4>2. d.pictures = SubSeq(mPendingBuffersToWork, 1, 0)
        BY <3>2, <4>1
      <4> QED BY <4>2, <3>3
    <3> QED BY <3>3
  <2> HIDE DEF d
  <2>3. decoder'.asked = decoder.asked /\ decoder'.fed = decoder.fed /\ decoder'.resetting = decoder.resetting
    BY <2>1, Types
  <2>4. CallsInv'
    BY <1>2, <2>1 DEF OrderInv, CallsInv
  <2>5. ResetInv'
    BY <1>2, <2>1, <2>3 DEF OrderInv, ResetInv, Pending
  <2>6. FormatInv'
    BY <1>2, <2>1, <2>3 DEF OrderInv, FormatInv, Pending
  <2>7. FlushInv'
    <3>1. Quiet => Quiet'
      BY <1>2, <2>1, <2>2, <2>3 DEF Quiet
    <3> QED BY <1>1, <1>2, <2>1, <3>1 DEF OrderInv, FlushInv
  <2>8. EmptyInv'
    BY <2>1, <1>3 DEF EmptyInv
  <2> QED BY <2>4, <2>5, <2>6, <2>7, <2>8 DEF OrderInv
<1> QED BY <1>4, <1>5

\* A task t the decoder's thread or the client posts.
LEMMA OrderAsked ==
    ASSUME TypeInv, OrderInv, ProvidePictureBuffers \/ PictureReady \/ NotifyFlushDone
    PROVE  OrderInv'
<1>1. PICK t \in Task :
          /\ mTaskQueue' = Append(mTaskQueue, t)
          /\ ProvidePictureBuffers => t.type = "format" /\ decoder' = [decoder EXCEPT !.asked = TRUE, !.blocks = {}]
          /\ ~ProvidePictureBuffers => t.type \in {"done", "drainDone"} /\ decoder'.asked = decoder.asked
          /\ t.type = "done" => decoder.blocks # {}
          /\ decoder'.blocks \subseteq decoder.blocks
          /\ decoder'.resetting = decoder.resetting
          /\ decoder'.fed \in {FALSE, decoder.fed}
          /\ t.type # "drainDone" => decoder'.fed = decoder.fed
  <2>1. CASE ProvidePictureBuffers
    <3>1. PICK size \in Sizes, num \in Nums :
              mTaskQueue' = Append(mTaskQueue, [type |-> "format", fmt |-> [size |-> size, num |-> num]])
      BY <2>1 DEF ProvidePictureBuffers, Post
    <3>2. [size |-> size, num |-> num] \in Format
      BY DEF Format
    <3>3. [type |-> "format", fmt |-> [size |-> size, num |-> num]] \in Task
      BY <3>2, KindsOfTask
    <3>4. decoder' = [decoder EXCEPT !.asked = TRUE, !.blocks = {}]
      BY <2>1 DEF ProvidePictureBuffers
    <3> QED BY <2>1, <3>1, <3>3, <3>4, Types
  <2>2. CASE ~ProvidePictureBuffers /\ PictureReady
    <3>1. PICK id \in decoder.blocks, fate \in Fates, inputDone \in BOOLEAN :
              /\ mTaskQueue' = Append(mTaskQueue,
                     [type |-> "done", id |-> id, fate |-> fate, inputDone |-> inputDone])
              /\ decoder' = [decoder EXCEPT !.blocks = @ \ {id}]
      BY <2>2 DEF PictureReady, Post
    <3>2. [type |-> "done", id |-> id, fate |-> fate, inputDone |-> inputDone] \in Task
      BY Types, KindsOfTask, ChoicesAssumption
    <3> QED BY <2>2, <3>1, <3>2, Types
  <2>3. CASE ~ProvidePictureBuffers /\ NotifyFlushDone
    <3>1. /\ mTaskQueue' = Append(mTaskQueue, [type |-> "drainDone"])
          /\ decoder' = [decoder EXCEPT !.fed = FALSE]
      BY <2>3 DEF NotifyFlushDone, Post
    <3>2. [type |-> "drainDone"] \in Task
      BY KindsOfTask
    <3> QED BY <2>3, <3>1, <3>2, Types
  <2> QED BY <2>1, <2>2, <2>3
<1>2. /\ \A type : Lacks(mTaskQueue, type) /\ t.type # type => Lacks(mTaskQueue', type)
      /\ \A before, after : Apart(mTaskQueue, before, after) /\ (t.type = after => Lacks(mTaskQueue, before)) =>
             Apart(mTaskQueue', before, after)
  BY <1>1, Types, PostKeeps
<1>3. t.type \in {"format", "done", "drainDone"}
  BY <1>1
<1>4. \A type : Lacks(mTaskQueue', type) => Lacks(mTaskQueue, type)
  <2>1. \A i \in 1..Len(mTaskQueue) : i \in 1..Len(mTaskQueue') /\ mTaskQueue'[i] = mTaskQueue[i]
    BY <1>1, Types, AppendElements
  <2> QED BY <2>1 DEF Lacks
<1>5. decoder.fed /\ ~decoder.asked /\ ~decoder.resetting /\ mComponentState = "STARTED"
      /\ UNCHANGED <<mComponentState, mCompHasError, mPendingOutputFormat, mBufferFirstAllocated,
             mHaveFlushDone, mPendingBuffersToWork, mGraphicBlocks, mRawGraphicBlockInfo,
             fetching, allocTasks, waitTasks, flushing>>
  BY DEF ProvidePictureBuffers, PictureReady, NotifyFlushDone, Decoding, OrderInv, ResetInv,
         component, format, flags, blocks, pool, dequeue
<1>6. /\ ~Pending /\ Lacks(mTaskQueue, "format") /\ Lacks(mTaskQueue, "resetDone")
      /\ ~mHaveFlushDone /\ ~Quiet
  BY <1>5 DEF OrderInv, FormatInv, ResetInv, FlushInv, Quiet
<1>7. CallsInv'
  BY <1>2, <1>3, <1>5 DEF OrderInv, CallsInv
<1>8. ResetInv'
  BY <1>1, <1>2, <1>3, <1>5, <1>6 DEF OrderInv, ResetInv, Fetched, Pending
<1>9. FormatInv'
  <2>1. ~decoder'.asked => t.type # "format"
    BY <1>1, Types
  <2> QED BY <1>1, <1>2, <1>3, <1>5, <1>6, <2>1 DEF OrderInv, FormatInv, Pending
<1>10. FlushInv'
  BY <1>4, <1>5, <1>6 DEF OrderInv, FlushInv, Alive
<1>11. EmptyInv'
  BY <1>1, <1>2, <1>3, <1>5 DEF OrderInv, EmptyInv
<1> QED BY <1>7, <1>8, <1>9, <1>10, <1>11 DEF OrderInv

LEMMA OrderResetDone ==
    ASSUME TypeInv, OrderInv, NotifyFlushOrStopDone
    PROVE  OrderInv'
<1>1. /\ decoder.resetting /\ mTaskQueue' = Append(mTaskQueue, [type |-> "resetDone"])
      /\ decoder' = [decoder EXCEPT !.resetting = FALSE]
      /\ UNCHANGED <<mComponentState, mCompHasError, mPendingOutputFormat, mBufferFirstAllocated,
             mHaveFlushDone, mPendingBuffersToWork, mGraphicBlocks, mRawGraphicBlockInfo,
             fetching, allocTasks, waitTasks, flushing>>
  BY DEF NotifyFlushOrStopDone, Post, component, format, flags, blocks, pool, dequeue
<1>2. PICK t \in Task : mTaskQueue' = Append(mTaskQueue, t) /\ t.type = "resetDone"
  BY <1>1, KindsOfTask
<1>3. /\ \A type : Lacks(mTaskQueue, type) /\ t.type # type => Lacks(mTaskQueue', type)
      /\ \A before, after : Apart(mTaskQueue, before, after) /\ (t.type = after => Lacks(mTaskQueue, before)) =>
             Apart(mTaskQueue', before, after)
  BY <1>2, Types, PostKeeps
<1>4. /\ decoder'.fed = decoder.fed /\ decoder'.asked = decoder.asked /\ ~decoder'.resetting
      /\ decoder'.blocks = decoder.blocks
  BY <1>1, Types
<1>5. mComponentState \in {"FLUSHING", "STOPPING"} /\ Lacks(mTaskQueue, "resetDone")
  BY <1>1, Types DEF OrderInv, ResetInv
<1>6. CallsInv'
  BY <1>1, <1>2, <1>3 DEF OrderInv, CallsInv
<1>7. ResetInv'
  BY <1>1, <1>2, <1>3, <1>4, <1>5 DEF OrderInv, ResetInv, Fetched
<1>8. FormatInv'
  BY <1>1, <1>2, <1>3, <1>4 DEF OrderInv, FormatInv, Pending
<1>9. FlushInv'
  BY <1>1, <1>2, <1>3, <1>4, <1>5 DEF OrderInv, FlushInv, Quiet
<1>10. EmptyInv'
  BY <1>1, <1>2, <1>3, <1>4 DEF OrderInv, EmptyInv
<1> QED BY <1>6, <1>7, <1>8, <1>9, <1>10 DEF OrderInv

LEMMA OrderCalled ==
    ASSUME TypeInv, OrderInv, start \/ queue_nb \/ flush_sm \/ stop
    PROVE  OrderInv'
<1>1. /\ UNCHANGED <<mComponentState, mCompHasError, mPendingOutputFormat, mBufferFirstAllocated,
             mHaveFlushDone, mPendingBuffersToWork, mGraphicBlocks, mRawGraphicBlockInfo,
             fetching, allocTasks, waitTasks, decoder>>
      /\ flushing' = (flushing \/ flush_sm)
  BY Types DEF start, queue_nb, flush_sm, stop, component, format, flags, blocks, pool, dequeue, outside
<1>2. \A type : ~Queued(type) <=> Lacks(mTaskQueue, type)
  BY DEF Queued, Lacks
<1>3. PICK t \in Task :
          /\ mTaskQueue' = Append(mTaskQueue, t)
          /\ \/ /\ t.type = "start" /\ Lacks(mTaskQueue, "start")
                /\ mComponentState = "UNINITIALIZED" /\ flushing' = flushing
             \/ /\ t.type = "queue" /\ mComponentState = "STARTED" /\ ~flushing /\ ~flushing'
                /\ Lacks(mTaskQueue, "stop")
             \/ /\ t.type = "flush" /\ mComponentState = "STARTED" /\ ~flushing /\ flushing'
                /\ Lacks(mTaskQueue, "stop")
             \/ /\ t.type = "stop" /\ mComponentState = "STARTED" /\ ~flushing /\ ~flushing'
                /\ Lacks(mTaskQueue, "stop")
  <2>1. CASE start
    <3>1. /\ mTaskQueue' = Append(mTaskQueue, [type |-> "start"]) /\ Lacks(mTaskQueue, "start")
          /\ mComponentState = "UNINITIALIZED" /\ flushing' = flushing
      BY <2>1, <1>2 DEF start, Post
    <3> QED BY <3>1, KindsOfTask
  <2>2. CASE queue_nb
    <3>1. /\ mTaskQueue' = Append(mTaskQueue, [type |-> "queue"]) /\ Lacks(mTaskQueue, "stop")
          /\ mComponentState = "STARTED" /\ ~flushing /\ flushing' = flushing
      BY <2>2, <1>2 DEF queue_nb, Post, outside
    <3> QED BY <3>1, KindsOfTask
  <2>3. CASE flush_sm
    <3>1. /\ mTaskQueue' = Append(mTaskQueue, [type |-> "flush"]) /\ Lacks(mTaskQueue, "stop")
          /\ mComponentState = "STARTED" /\ ~flushing /\ flushing'
      BY <2>3, <1>2 DEF flush_sm, Post
    <3> QED BY <3>1, KindsOfTask
  <2>4. CASE stop
    <3>1. /\ mTaskQueue' = Append(mTaskQueue, [type |-> "stop"]) /\ Lacks(mTaskQueue, "stop")
          /\ mComponentState = "STARTED" /\ ~flushing /\ flushing' = flushing
      BY <2>4, <1>2 DEF stop, Post, outside
    <3> QED BY <3>1, KindsOfTask
  <2> QED BY <2>1, <2>2, <2>3, <2>4
<1>4. /\ \A type : Lacks(mTaskQueue, type) /\ t.type # type => Lacks(mTaskQueue', type)
      /\ \A before, after : Apart(mTaskQueue, before, after) /\ (t.type = after => Lacks(mTaskQueue, before)) =>
             Apart(mTaskQueue', before, after)
  BY <1>3, Types, PostKeeps
<1>5. t.type = "flush" => ~Lacks(mTaskQueue', "flush")
  <2>1. Len(mTaskQueue) + 1 \in 1..Len(mTaskQueue') /\ mTaskQueue'[Len(mTaskQueue) + 1] = t
    BY <1>3, Types, AppendElements
  <2> QED BY <2>1 DEF Lacks
<1>6. CallsInv'
  BY <1>1, <1>3, <1>4 DEF OrderInv, CallsInv
<1>7. ResetInv'
  <2>1. mComponentState = "STARTED" => Lacks(mTaskQueue, "resetDone")
    BY DEF OrderInv, ResetInv
  <2> QED BY <1>1, <1>3, <1>4, <2>1 DEF OrderInv, ResetInv, Fetched, Pending
<1>8. FormatInv'
  BY <1>1, <1>3, <1>4 DEF OrderInv, FormatInv, Pending
<1>9. FlushInv'
  BY <1>1, <1>3, <1>4, <1>5 DEF OrderInv, FlushInv, Quiet
<1>10. EmptyInv'
  BY <1>1, <1>3, <1>4 DEF OrderInv, EmptyInv
<1> QED BY <1>6, <1>7, <1>8, <1>9, <1>10 DEF OrderInv

LEMMA OrderInit ==
    ASSUME Init
    PROVE  OrderInv
<1>1. /\ mComponentState = "UNINITIALIZED" /\ ~flushing /\ ~fetching /\ ~mHaveFlushDone
      /\ mPendingOutputFormat = NoFormat /\ ~mBufferFirstAllocated
      /\ mPendingBuffersToWork = <<>> /\ mGraphicBlocks = NoBlocks /\ mRawGraphicBlockInfo = NoBlocks
      /\ allocTasks = 0 /\ waitTasks = 0
      /\ decoder.blocks = {} /\ ~decoder.asked /\ ~decoder.fed /\ ~decoder.resetting
  BY DEF Init
<1>2. \A type : Lacks(mTaskQueue, type)
  BY DEF Init, Lacks
<1>3. \A before, after : Apart(mTaskQueue, before, after)
  BY <1>2, LacksApart
<1>4. CallsInv
  BY <1>1, <1>2, <1>3 DEF CallsInv
<1>5. ResetInv
  BY <1>1, <1>2, <1>3 DEF ResetInv, Pending
<1>6. FormatInv
  BY <1>1, <1>2, <1>3 DEF FormatInv, Pending
<1>7. FlushInv
  BY <1>1 DEF FlushInv
<1>8. EmptyInv
  BY <1>1, <1>2, NoBlocksHere DEF EmptyInv
<1> QED BY <1>4, <1>5, <1>6, <1>7, <1>8 DEF OrderInv

LEMMA OrderStep ==
    ASSUME TypeInv, OrderInv, [Next]_vars
    PROVE  OrderInv'
  BY OrderDequeue, OrderPosted, OrderDropped, OrderWithBlocks, OrderDelivered, OrderInput,
     OrderReset, OrderFlushDone, OrderFlushReturn, OrderQueueWork, OrderStart, OrderStopDone,
     OrderFormat, OrderReturned, OrderAsked, OrderResetDone, OrderCalled
     DEF Next, MainThread, DequeueThread, DecoderThread, Client

-----------------------------------------------------------------------------
(* The blocks that tasks, pictures and the decoder name. *)

Elements(s) == {s[i] : i \in 1..Len(s)}

\* Every block the decoder has, a picture waits on or a task brings has an info.
KnownInv ==
    /\ decoder.blocks \subseteq DOMAIN mGraphicBlocks
    /\ Ids(mPendingBuffersToWork) \subseteq DOMAIN mGraphicBlocks
    /\ \A t \in Elements(mTaskQueue) : t.type = "done" => t.id \in DOMAIN mGraphicBlocks

LEMMA TakeElements ==
    ASSUME NEW s \in Seq(Task), s # <<>>
    PROVE  Tail(s) \in Seq(Task) /\ Elements(Tail(s)) \subseteq Elements(s) /\ Head(s) \in Elements(s)
<1>1. \A i \in 1..Len(Tail(s)) : i + 1 \in 1..Len(s) /\ Tail(s)[i] = s[i + 1]
  BY TailElements
<1>2. Head(s) = s[1] /\ 1 \in 1..Len(s) /\ Tail(s) \in Seq(Task)
  BY TailElements
<1> QED BY <1>1, <1>2 DEF Elements

LEMMA PostElements ==
    ASSUME NEW s \in Seq(Task), NEW t \in Task
    PROVE  Append(s, t) \in Seq(Task) /\ Elements(Append(s, t)) \subseteq Elements(s) \cup {t}
<1> DEFINE r == Append(s, t)
<1>1. r \in Seq(Task) /\ \A i \in 1..Len(s) : r[i] = s[i]
  BY AppendElements
<1>2. \A i \in 1..Len(r) : i # Len(s) + 1 => i \in 1..Len(s)
  BY AppendElements
<1>3. r[Len(s) + 1] = t
  BY AppendElements
<1> HIDE DEF r
<1>4. ASSUME NEW i \in 1..Len(r) PROVE r[i] \in Elements(s) \cup {t}
  BY <1>1, <1>2, <1>3 DEF Elements
<1>5. Elements(r) \subseteq Elements(s) \cup {t}
  BY <1>4 DEF Elements
<1> QED BY <1>1, <1>5 DEF r

\* Only a picture the decoder delivers is a new task that names a block of its own.
QueueKept ==
    /\ mTaskQueue' \in Seq(Task)
    /\ \A t \in Elements(mTaskQueue') :
           t \in Elements(mTaskQueue) \/ t.type # "done" \/ t.id \in decoder.blocks

LEMMA QueueTaken ==
    ASSUME TypeInv, mTaskQueue # <<>>, mTaskQueue' = Tail(mTaskQueue)
    PROVE  QueueKept
  BY Types, TakeElements DEF QueueKept

LEMMA QueuePosted ==
    ASSUME TypeInv, NEW t \in Task, mTaskQueue' = Append(mTaskQueue, t),
           t.type # "done" \/ t.id \in decoder.blocks
    PROVE  QueueKept
  BY Types, PostElements DEF QueueKept

LEMMA QueueSame ==
    ASSUME TypeInv, UNCHANGED mTaskQueue
    PROVE  QueueKept
  BY Types DEF QueueKept

LEMMA QueueChanged ==
    ASSUME TypeInv, mTaskQueue # <<>>, NEW bs, NEW fmt, tryChangeOutputFormat(bs, fmt)
    PROVE  QueueKept
<1>1. Tail(mTaskQueue) \in Seq(Task) /\ Elements(Tail(mTaskQueue)) \subseteq Elements(mTaskQueue)
  BY Types, TakeElements
<1>2. CASE mTaskQueue' = Tail(mTaskQueue)
  BY <1>2, QueueTaken
<1>3. CASE mTaskQueue' = Append(Tail(mTaskQueue), [type |-> "tryChange"])
  <2>1. PICK t \in Task : mTaskQueue' = Append(Tail(mTaskQueue), t) /\ t.type = "tryChange"
    BY <1>3, KindsOfTask
  <2> QED BY <2>1, <1>1, PostElements DEF QueueKept
<1> QED BY <1>2, <1>3 DEF tryChangeOutputFormat

LEMMA QueueMain ==
    ASSUME TypeInv, OrderInv, MainThread
    PROVE  QueueKept
<1>1. CASE TryChange \/ onOutputFormatChanged \/ onOutputBufferReturned
  <2>1. mTaskQueue # <<>>
    BY <1>1 DEF TryChange, onOutputFormatChanged, onOutputBufferReturned
  <2>2. mTaskQueue' = Tail(mTaskQueue) \/ \E bs, fmt : tryChangeOutputFormat(bs, fmt)
    BY <1>1 DEF TryChange, onOutputFormatChanged, onOutputBufferReturned
  <2> QED BY <2>1, <2>2, QueueTaken, QueueChanged
<1>2. CASE ~(TryChange \/ onOutputFormatChanged \/ onOutputBufferReturned)
  <2>1. mTaskQueue # <<>> /\ mTaskQueue' = Tail(mTaskQueue)
    BY <1>2 DEF MainThread, Skip, DropReturned, ReturnedUnknown, ReturnedNotOwned, DropFetched,
       onNewBlockBufferFetched, LatePicture, onOutputBufferDone, DropPicture,
       sendOutputBufferToWorkIfAnyTask, onDrainDone, onFlush, onFlushDone, onQueueWork, onStart,
       onStop, onStopDone, Take
  <2> QED BY <2>1, QueueTaken
<1> QED BY <1>1, <1>2

LEMMA QueueFetch ==
    ASSUME TypeInv, FetchDone
    PROVE  QueueKept
<1>1. PICK b \in Fetchable :
          mTaskQueue' = Append(mTaskQueue,
              [type |-> IF IdOf(b) \in DOMAIN mGraphicBlocks THEN "returned" ELSE "fetched",
               buf |-> b, id |-> IdOf(b)])
  BY DEF FetchDone, Post
<1>2. b \in Buffer /\ IdOf(b) \in Nat
  BY Types DEF Fetchable, Free, IdOf, TypeInv
<1>3. PICK t \in Task : mTaskQueue' = Append(mTaskQueue, t) /\ t.type \in Fetched
  BY <1>1, <1>2, KindsOfTask DEF Fetched
<1> QED BY <1>3, QueuePosted DEF Fetched

LEMMA QueueOthers ==
    ASSUME TypeInv, OrderInv,
           DecoderThread \/ Client \/ DequeueThread \/ UNCHANGED vars
    PROVE  QueueKept
<1>1. CASE UNCHANGED mTaskQueue
  BY <1>1, QueueSame
<1>2. CASE FetchDone
  BY <1>2, QueueFetch
<1>3. CASE PictureReady
  <2>1. PICK id \in decoder.blocks, fate \in Fates, inputDone \in BOOLEAN :
            mTaskQueue' = Append(mTaskQueue,
                [type |-> "done", id |-> id, fate |-> fate, inputDone |-> inputDone])
    BY <1>3 DEF PictureReady, Post
  <2>2. [type |-> "done", id |-> id, fate |-> fate, inputDone |-> inputDone] \in Task
    BY Types, KindsOfTask, ChoicesAssumption
  <2> QED BY <2>1, <2>2, QueuePosted
<1>4. CASE ProvidePictureBuffers
  <2>1. PICK size \in Sizes, num \in Nums :
            mTaskQueue' = Append(mTaskQueue, [type |-> "format", fmt |-> [size |-> size, num |-> num]])
    BY <1>4 DEF ProvidePictureBuffers, Post
  <2>2. [type |-> "format", fmt |-> [size |-> size, num |-> num]] \in Task
    BY KindsOfTask DEF Format
  <2> QED BY <2>1, <2>2, QueuePosted
<1>5. CASE onInputBufferDone \/ NotifyFlushDone \/ NotifyFlushOrStopDone \/ start \/ queue_nb \/ flush_sm \/ stop
  <2>1. PICK type \in {"start", "queue", "flush", "stop", "resetDone", "send", "drainDone"} :
            mTaskQueue' = Append(mTaskQueue, [type |-> type])
    BY <1>5 DEF onInputBufferDone, NotifyFlushDone, NotifyFlushOrStopDone, start, queue_nb, flush_sm, stop, Post
  <2>2. [type |-> type] \in Task
    BY KindsOfTask
  <2> QED BY <2>1, <2>2, QueuePosted
<1>6. CASE WaitOver \/ CancelAllocTask \/ onAllocBufferTask \/ FetchRetry \/ FlushReturn \/ ReturnBuffer \/ UNCHANGED vars
  <2>1. UNCHANGED mTaskQueue
    BY <1>6 DEF WaitOver, CancelAllocTask, onAllocBufferTask, FetchRetry, FlushReturn, ReturnBuffer, vars
  <2> QED BY <2>1, QueueSame
<1> QED BY <1>2, <1>3, <1>4, <1>5, <1>6 DEF DecoderThread, Client, DequeueThread

LEMMA QueueStep ==
    ASSUME TypeInv, OrderInv, [Next]_vars
    PROVE  QueueKept
  BY QueueMain, QueueOthers DEF Next

LEMMA KnownKept ==
    ASSUME KnownInv, QueueKept, DOMAIN mGraphicBlocks \subseteq DOMAIN mGraphicBlocks',
           decoder'.blocks \subseteq DOMAIN mGraphicBlocks',
           Ids(mPendingBuffersToWork') \subseteq DOMAIN mGraphicBlocks'
    PROVE  KnownInv'
  BY DEF KnownInv, QueueKept

LEMMA KnownSame ==
    ASSUME KnownInv, QueueKept, DOMAIN mGraphicBlocks \subseteq DOMAIN mGraphicBlocks',
           decoder'.blocks \subseteq decoder.blocks, UNCHANGED mPendingBuffersToWork
    PROVE  KnownInv'
  BY KnownKept DEF KnownInv

LEMMA KnownEmptied ==
    ASSUME Lacks(mTaskQueue', "done"), mPendingBuffersToWork' = <<>>,
           decoder'.blocks \subseteq DOMAIN mGraphicBlocks'
    PROVE  KnownInv'
<1>1. Ids(mPendingBuffersToWork') = {}
  BY DEF Ids
<1> QED BY <1>1 DEF KnownInv, Elements, Lacks

\* A delivery keeps what the decoder has and the pictures that wait among the blocks.
LEMMA DeliverKnown ==
    ASSUME NEW bs, Blocks(bs), NEW held, NEW pictures \in Seq(Picture), mUseBufferQueue \in BOOLEAN,
           Ids(pictures) \subseteq DOMAIN bs, held \subseteq DOMAIN bs
    PROVE  LET d == Deliver(bs, held, pictures)
           IN  /\ Blocks(d.blocks) /\ DOMAIN d.blocks = DOMAIN bs
               /\ d.decoder \subseteq DOMAIN bs
               /\ d.pictures \in Seq(Picture) /\ Ids(d.pictures) \subseteq Ids(pictures)
               /\ client \subseteq Buffer \cup {NoBuffer} => d.client \subseteq Buffer \cup {NoBuffer}
<1> DEFINE d == Deliver(bs, held, pictures)
<1>1. PICK n, shown, back : n \in 0..Len(pictures) /\ Delivers(d, bs, held, pictures, n, shown, back)
  BY Delivery
<1> HIDE DEF d
<1>2. Blocks(d.blocks) /\ DOMAIN d.blocks = DOMAIN bs /\ d.pictures \in Seq(Picture)
  BY <1>1 DEF Delivers
<1>3. d.decoder \subseteq DOMAIN bs
  BY <1>1 DEF Delivers, WithBuffer
<1>4. Ids(d.pictures) \subseteq Ids(pictures)
  <2> SUFFICES ASSUME NEW i \in 1..Len(d.pictures)
               PROVE  d.pictures[i].id \in Ids(pictures)
    BY DEF Ids
  <2>1. n + i \in 1..Len(pictures) /\ d.pictures[i] = pictures[n + i]
    BY <1>1 DEF Delivers
  <2> QED BY <2>1 DEF Ids
<1>5. shown \subseteq DOMAIN bs
  <2>1. n \in Nat /\ n <= Len(pictures) /\ Len(pictures) \in Nat
    BY <1>1
  <2>2. shown \subseteq Ids(pictures)
    BY <1>1, <2>1 DEF Delivers, Ids
  <2> QED BY <2>2
<1>6. {bs[id].buf : id \in shown} \subseteq Buffer \cup {NoBuffer}
  BY <1>5, BlockFields DEF Blocks
<1>7. d.client = client \cup {bs[id].buf : id \in shown}
  BY <1>1 DEF Delivers
<1> QED BY <1>2, <1>3, <1>4, <1>6, <1>7 DEF d

LEMMA KnownDropped ==
    ASSUME TypeInv, OrderInv, KnownInv, QueueKept,
           \/ Skip \/ DropReturned \/ ReturnedUnknown \/ ReturnedNotOwned \/ DropFetched \/ DropPicture
           \/ onFlush \/ onStop \/ DequeueThread \/ Client \/ UNCHANGED vars
           \/ ProvidePictureBuffers \/ PictureReady \/ NotifyFlushDone \/ NotifyFlushOrStopDone
    PROVE  KnownInv'
<1>1. UNCHANGED <<mGraphicBlocks, mPendingBuffersToWork>>
  BY DEF Skip, DropReturned, ReturnedUnknown, ReturnedNotOwned, DropFetched, DropPicture,
     onFlush, onStop, DequeueThread, WaitOver, CancelAllocTask, onAllocBufferTask, FetchDone, FetchRetry,
     Client, start, queue_nb, flush_sm, FlushReturn, stop, ReturnBuffer,
     ProvidePictureBuffers, PictureReady, NotifyFlushDone, NotifyFlushOrStopDone, vars, blocks
<1>2. decoder'.blocks \subseteq decoder.blocks
  BY Types DEF Skip, DropReturned, ReturnedUnknown, ReturnedNotOwned, DropFetched, DropPicture,
     onFlush, onStop, DequeueThread, WaitOver, CancelAllocTask, onAllocBufferTask, FetchDone, FetchRetry,
     Client, start, queue_nb, flush_sm, FlushReturn, stop, ReturnBuffer,
     ProvidePictureBuffers, PictureReady, NotifyFlushDone, NotifyFlushOrStopDone, vars, outside
<1> QED BY <1>1, <1>2, KnownSame

LEMMA KnownQueues ==
    ASSUME TypeInv, OrderInv, KnownInv, QueueKept,
           onInputBufferDone \/ onFlushDone \/ onStart \/ onStopDone \/ onQueueWork \/ LatePicture
           \/ onNewBlockBufferFetched
    PROVE  KnownInv'
<1>1. CASE onInputBufferDone
  <2>1. PICK i \in 1..Len(mPendingBuffersToWork) :
            mPendingBuffersToWork' = [mPendingBuffersToWork EXCEPT ![i].inputDone = TRUE]
    BY <1>1 DEF onInputBufferDone
  <2>2. /\ Len(mPendingBuffersToWork') = Len(mPendingBuffersToWork)
        /\ \A j \in 1..Len(mPendingBuffersToWork) :
               mPendingBuffersToWork'[j].id = mPendingBuffersToWork[j].id
    BY <2>1, Types DEF Picture
  <2>3. Ids(mPendingBuffersToWork') = Ids(mPendingBuffersToWork)
    BY <2>2 DEF Ids
  <2>4. UNCHANGED <<mGraphicBlocks, decoder>>
    BY <1>1 DEF onInputBufferDone, outside
  <2> QED BY <2>3, <2>4, KnownKept DEF KnownInv
<1>2. CASE onFlushDone
  <2>1. UNCHANGED <<mGraphicBlocks, decoder>>
        /\ (mPendingBuffersToWork' = <<>> \/ UNCHANGED mPendingBuffersToWork)
    BY <1>2 DEF onFlushDone, outside
  <2>2. Ids(<<>>) = {}
    BY DEF Ids
  <2> QED BY <2>1, <2>2, KnownKept DEF KnownInv
<1>3. CASE onStart
  <2>1. UNCHANGED <<mGraphicBlocks, mPendingBuffersToWork>> /\ decoder'.blocks = {}
    BY <1>3 DEF onStart, blocks
  <2> QED BY <2>1, KnownSame
<1>4. CASE onStopDone
  <2>1. mTaskQueue # <<>> /\ mTaskQueue' = Tail(mTaskQueue) /\ Head(mTaskQueue).type = "resetDone"
        /\ mPendingBuffersToWork' = <<>> /\ decoder'.blocks = {}
    BY <1>4, Types DEF onStopDone, Take
  <2>2. Lacks(mTaskQueue', "done")
    BY <2>1, Types, TakeKeeps DEF OrderInv, ResetInv
  <2> QED BY <2>1, <2>2, KnownEmptied
<1>5. CASE onQueueWork
  <2>1. /\ mGraphicBlocks' \in {mGraphicBlocks, Reused(mGraphicBlocks)}
        /\ decoder'.blocks \subseteq decoder.blocks \cup WithBuffer(mGraphicBlocks', With(mGraphicBlocks', "ACCELERATOR"))
        /\ UNCHANGED mPendingBuffersToWork
    BY <1>5, Types DEF onQueueWork
  <2>2. DOMAIN Reused(mGraphicBlocks) = DOMAIN mGraphicBlocks
    BY DEF Reused, Moved, Sent
  <2>3. DOMAIN mGraphicBlocks' = DOMAIN mGraphicBlocks
    BY <2>1, <2>2
  <2> QED BY <2>1, <2>3, KnownKept DEF KnownInv, WithBuffer
<1>6. CASE LatePicture
  <2> DEFINE id == Head(mTaskQueue).id
  <2>1. /\ mGraphicBlocks' = Sent(mGraphicBlocks, {id})
        /\ decoder'.blocks \subseteq decoder.blocks \cup WithBuffer(mGraphicBlocks', {id})
        /\ UNCHANGED mPendingBuffersToWork
    BY <1>6, Types DEF LatePicture
  <2>2. DOMAIN mGraphicBlocks' = DOMAIN mGraphicBlocks
    BY <2>1, Types, SentBlocks
  <2> QED BY <2>1, <2>2, KnownKept DEF KnownInv, WithBuffer
<1>7. CASE onNewBlockBufferFetched
  <2>1. /\ UNCHANGED mPendingBuffersToWork
        /\ \/ UNCHANGED <<mGraphicBlocks, decoder>>
           \/ /\ DOMAIN mGraphicBlocks' = DOMAIN mGraphicBlocks \cup {Head(mTaskQueue).id}
              /\ decoder' = [decoder EXCEPT !.blocks = @ \cup {Head(mTaskQueue).id}]
    BY <1>7 DEF onNewBlockBufferFetched
  <2>2. decoder'.blocks \subseteq DOMAIN mGraphicBlocks' /\ DOMAIN mGraphicBlocks \subseteq DOMAIN mGraphicBlocks'
    BY <2>1, Types DEF KnownInv
  <2> QED BY <2>1, <2>2, KnownKept DEF KnownInv
<1> QED BY <1>1, <1>2, <1>3, <1>4, <1>5, <1>6, <1>7

\* onOutputBufferReturned() of the task: the blocks with the one that is back, and
\* that one imported.
Back(task) == [mGraphicBlocks EXCEPT ![task.id].buf = task.buf, ![task.id].state = "COMPONENT"]
BackSent(task) ==
    IF task.id \in Ids(mPendingBuffersToWork)
    THEN [Back(task) EXCEPT ![task.id].fdSet = TRUE]
    ELSE Sent(Back(task), {task.id})

LEMMA BackBlocks ==
    ASSUME Blocks(mGraphicBlocks), NEW task, task.buf \in Buffer, task.id \in DOMAIN mGraphicBlocks
    PROVE  /\ Blocks(Back(task)) /\ DOMAIN Back(task) = DOMAIN mGraphicBlocks
           /\ Blocks(BackSent(task)) /\ DOMAIN BackSent(task) = DOMAIN mGraphicBlocks
           /\ \A id \in DOMAIN mGraphicBlocks :
                  /\ id # task.id => Back(task)[id] = mGraphicBlocks[id]
                                     /\ BackSent(task)[id] = mGraphicBlocks[id]
                  /\ Back(task)[id].fd = mGraphicBlocks[id].fd
                  /\ BackSent(task)[id].fd = mGraphicBlocks[id].fd
           /\ Back(task)[task.id].buf = task.buf /\ BackSent(task)[task.id].buf = task.buf
           /\ Back(task)[task.id].state = "COMPONENT"
           /\ task.id \notin Ids(mPendingBuffersToWork) => BackSent(task)[task.id].state = "ACCELERATOR"
<1> DEFINE back == Back(task)
           b == [mGraphicBlocks[task.id] EXCEPT !.buf = task.buf, !.state = "COMPONENT"]
<1>1. back = [mGraphicBlocks EXCEPT ![task.id] = b]
  BY DEF Back
<1>2. /\ b \in Block /\ b.buf = task.buf /\ b.state = "COMPONENT" /\ b.fd = mGraphicBlocks[task.id].fd
  BY DEF Blocks, Block, State
<1>3. /\ DOMAIN back = DOMAIN mGraphicBlocks /\ back[task.id] = b
      /\ \A id \in DOMAIN mGraphicBlocks : id # task.id => back[id] = mGraphicBlocks[id]
  <2> HIDE DEF b, back
  <2> QED BY <1>1
<1>4. Blocks(back)
  <2> HIDE DEF b, back
  <2> QED BY <1>2, <1>3 DEF Blocks
<1> HIDE DEF b, back
<1>5. \A id \in DOMAIN mGraphicBlocks : back[id].fd = mGraphicBlocks[id].fd
  BY <1>2, <1>3
<1>6. CASE task.id \in Ids(mPendingBuffersToWork)
  <2> DEFINE c == [b EXCEPT !.fdSet = TRUE]
             sent == BackSent(task)
  <2>1. sent = [back EXCEPT ![task.id] = c]
    BY <1>6, <1>3 DEF BackSent, back
  <2>2. c \in Block /\ c.buf = b.buf /\ c.fd = b.fd
    BY <1>2 DEF Block
  <2> HIDE DEF c, sent
  <2>3. /\ DOMAIN sent = DOMAIN mGraphicBlocks /\ sent[task.id] = c
        /\ \A id \in DOMAIN mGraphicBlocks : id # task.id => sent[id] = back[id]
    BY <2>1, <1>3
  <2>4. Blocks(sent)
    BY <2>2, <2>3, <1>4, <1>3 DEF Blocks
  <2>5. /\ sent[task.id].buf = task.buf /\ sent[task.id].fd = mGraphicBlocks[task.id].fd
    BY <2>2, <2>3, <1>2
  <2> QED BY <2>3, <2>4, <2>5, <1>2, <1>3, <1>4, <1>5, <1>6 DEF sent, back
<1>7. CASE task.id \notin Ids(mPendingBuffersToWork)
  <2>1. BackSent(task) = Sent(back, {task.id})
    BY <1>7 DEF BackSent, back
  <2>2. /\ Blocks(Sent(back, {task.id})) /\ DOMAIN Sent(back, {task.id}) = DOMAIN back
        /\ \A id \in DOMAIN back :
               /\ Sent(back, {task.id})[id].buf = back[id].buf /\ Sent(back, {task.id})[id].fd = back[id].fd
               /\ Sent(back, {task.id})[id].state = IF id \in {task.id} THEN "ACCELERATOR" ELSE back[id].state
               /\ id \notin {task.id} => Sent(back, {task.id})[id] = back[id]
    BY <1>4, SentBlocks
  <2> DEFINE sent == BackSent(task)
  <2>3. sent = Sent(back, {task.id})
    BY <2>1
  <2> HIDE DEF sent
  <2>4. /\ Blocks(sent) /\ DOMAIN sent = DOMAIN mGraphicBlocks
        /\ sent[task.id].buf = b.buf /\ sent[task.id].fd = b.fd /\ sent[task.id].state = "ACCELERATOR"
        /\ \A id \in DOMAIN mGraphicBlocks : id # task.id => sent[id] = mGraphicBlocks[id]
    BY <2>2, <2>3, <1>3
  <2> QED BY <2>4, <1>2, <1>3, <1>4, <1>5, <1>7 DEF sent, back
<1> QED BY <1>6, <1>7

LEMMA ReturnedParts ==
    ASSUME TypeInv, onOutputBufferReturned
    PROVE  LET task == Head(mTaskQueue)
               d == Deliver(BackSent(task), decoder.blocks \cup {task.id}, mPendingBuffersToWork)
           IN  /\ Alive /\ mTaskQueue # <<>> /\ task.type = "returned"
               /\ task \in Elements(mTaskQueue) /\ task \in Task
               /\ task.buf \in Buffer /\ task.id \in Nat /\ ~Obsolete(task.buf)
               /\ task.id \in DOMAIN mGraphicBlocks
               /\ UNCHANGED <<flags, flushing, left>>
               /\ \/ /\ mPendingOutputFormat = NoFormat
                     /\ mTaskQueue' = Tail(mTaskQueue)
                     /\ Delivered(mGraphicBlocks, d)
                     /\ UNCHANGED <<mResolutionChanging, format, mFlushDoneBufferOwnedByComp,
                                    mPendingGraphicBlockBuffer, pool, dequeue>>
                  \/ /\ mPendingOutputFormat # NoFormat
                     /\ tryChangeOutputFormat(Back(task), mPendingOutputFormat)
                     /\ UNCHANGED <<mUseBufferQueue, mPendingBuffersToWork, client>>
<1>1. Alive /\ mTaskQueue # <<>> /\ Head(mTaskQueue).type = "returned" /\ ~Obsolete(Head(mTaskQueue).buf)
      /\ Head(mTaskQueue).id \in DOMAIN mGraphicBlocks /\ UNCHANGED <<flags, flushing, left>>
  BY DEF onOutputBufferReturned
<1>2. Head(mTaskQueue) \in Elements(mTaskQueue) /\ Head(mTaskQueue) \in Task
  BY <1>1, Types, TakeElements, TailElements
<1>3. Head(mTaskQueue).buf \in Buffer /\ Head(mTaskQueue).id \in Nat
  BY <1>1, <1>2, TaskKinds DEF Fetched
<1> QED BY <1>1, <1>2, <1>3 DEF onOutputBufferReturned, Back, BackSent

\* The picture a task adds, and its block taken from the decoder.
Done(task) == Append(mPendingBuffersToWork,
                     [id |-> task.id, fate |-> task.fate, inputDone |-> task.inputDone])
Taken(id) == Moved(mGraphicBlocks, With(mGraphicBlocks, "ACCELERATOR") \cap {id}, "COMPONENT")

LEMMA TakenBlocks ==
    ASSUME Blocks(mGraphicBlocks), NEW id
    PROVE  /\ Blocks(Taken(id)) /\ DOMAIN Taken(id) = DOMAIN mGraphicBlocks
           /\ \A i \in DOMAIN mGraphicBlocks :
                  /\ Taken(id)[i].buf = mGraphicBlocks[i].buf /\ Taken(id)[i].fd = mGraphicBlocks[i].fd
                  /\ i # id => Taken(id)[i].state = mGraphicBlocks[i].state
                  /\ i = id /\ mGraphicBlocks[i].state = "ACCELERATOR" => Taken(id)[i].state = "COMPONENT"
<1>1. "COMPONENT" \in State
  BY DEF State
<1>2. \A i \in DOMAIN mGraphicBlocks :
          /\ i # id => i \notin With(mGraphicBlocks, "ACCELERATOR") \cap {id}
          /\ i = id /\ mGraphicBlocks[i].state = "ACCELERATOR" => i \in With(mGraphicBlocks, "ACCELERATOR") \cap {id}
  BY DEF With
<1> QED BY <1>1, <1>2, MovedBlocks DEF Taken

LEMMA DoneParts ==
    ASSUME TypeInv, onOutputBufferDone
    PROVE  LET task == Head(mTaskQueue)
           IN  /\ Alive /\ mTaskQueue # <<>> /\ task.type = "done" /\ mTaskQueue' = Tail(mTaskQueue)
               /\ task \in Elements(mTaskQueue) /\ task \in Task
               /\ task.id \in Nat /\ task.id \in DOMAIN mGraphicBlocks
               /\ Done(task) \in Seq(Picture)
               /\ Len(Done(task)) = Len(mPendingBuffersToWork) + 1
               /\ \A i \in 1..Len(mPendingBuffersToWork) : Done(task)[i] = mPendingBuffersToWork[i]
               /\ Done(task)[Len(mPendingBuffersToWork) + 1].id = task.id
               /\ Ids(Done(task)) = Ids(mPendingBuffersToWork) \cup {task.id}
               /\ Delivered(mGraphicBlocks, Deliver(Taken(task.id), decoder.blocks, Done(task)))
<1>1. Alive /\ mTaskQueue # <<>> /\ Head(mTaskQueue).type = "done" /\ mTaskQueue' = Tail(mTaskQueue)
      /\ Head(mTaskQueue).id \in DOMAIN mGraphicBlocks
      /\ Delivered(mGraphicBlocks, Deliver(Taken(Head(mTaskQueue).id), decoder.blocks, Done(Head(mTaskQueue))))
  BY DEF onOutputBufferDone, Take, Done, Taken
<1> DEFINE task == Head(mTaskQueue)
<1>2. task \in Elements(mTaskQueue) /\ task \in Task
  BY <1>1, Types, TakeElements, TailElements
<1>3. task.id \in Nat /\ task.fate \in Fate /\ task.inputDone \in BOOLEAN
  BY <1>1, <1>2, TaskKinds
<1> DEFINE p == [id |-> task.id, fate |-> task.fate, inputDone |-> task.inputDone]
<1>4. p \in Picture /\ p.id = task.id
  BY <1>3 DEF Picture
<1>5. Done(task) = Append(mPendingBuffersToWork, p)
  BY DEF Done
<1> HIDE DEF p, task
<1>6. /\ Done(task) \in Seq(Picture)
      /\ Len(mPendingBuffersToWork) \in Nat
      /\ Len(Done(task)) = Len(mPendingBuffersToWork) + 1
      /\ \A i \in 1..Len(mPendingBuffersToWork) : i \in 1..Len(Done(task)) /\ Done(task)[i] = mPendingBuffersToWork[i]
      /\ \A i \in 1..Len(Done(task)) : i # Len(mPendingBuffersToWork) + 1 => i \in 1..Len(mPendingBuffersToWork)
      /\ Len(mPendingBuffersToWork) + 1 \in 1..Len(Done(task))
      /\ Done(task)[Len(mPendingBuffersToWork) + 1] = p
  BY <1>4, <1>5, Types, AppendElements
<1>7. Ids(Done(task)) = Ids(mPendingBuffersToWork) \cup {task.id}
  <2>1. ASSUME NEW i \in 1..Len(Done(task)) PROVE Done(task)[i].id \in Ids(mPendingBuffersToWork) \cup {task.id}
    BY <1>4, <1>6 DEF Ids
  <2>2. ASSUME NEW i \in 1..Len(mPendingBuffersToWork) PROVE mPendingBuffersToWork[i].id \in Ids(Done(task))
    <3>1. i \in 1..Len(Done(task)) /\ Done(task)[i] = mPendingBuffersToWork[i]
      BY <1>6
    <3> QED BY <3>1 DEF Ids
  <2>3. task.id \in Ids(Done(task))
    BY <1>4, <1>6 DEF Ids
  <2> QED BY <2>1, <2>2, <2>3 DEF Ids
<1> QED BY <1>1, <1>2, <1>3, <1>4, <1>6, <1>7 DEF task

-----------------------------------------------------------------------------
(* Types, and the count of the client's blocks. *)

HeldTypes ==
    /\ Blocks(mGraphicBlocks)
    /\ mGraphicBlockStateCount \in [State -> Int]
    /\ CountInv
    /\ mPendingBuffersToWork \in Seq(Picture)
    /\ decoder \in [blocks : SUBSET Nat, asked : BOOLEAN, fed : BOOLEAN, resetting : BOOLEAN]
    /\ client \subseteq Buffer \cup {NoBuffer}

PoolTypes ==
    /\ DOMAIN mRawGraphicBlockInfo \subseteq Buffer
    /\ \A b \in DOMAIN mRawGraphicBlockInfo : mRawGraphicBlockInfo[b] \in Nat
    /\ mGraphicBufferId \in Nat

ControlTypes ==
    /\ mComponentState \in {"UNINITIALIZED", "STARTED", "FLUSHING", "STOPPING"}
    /\ mUseBufferQueue \in BOOLEAN /\ mBufferFirstAllocated \in BOOLEAN
    /\ mResolutionChanging \in BOOLEAN /\ mHaveFlushDone \in BOOLEAN
    /\ mHaveDrainDone \in BOOLEAN /\ mReportEosWork \in BOOLEAN
    /\ flushing \in BOOLEAN
    /\ mOutputFormat \in Format \cup {NoFormat}
    /\ mPendingOutputFormat \in Format \cup {NoFormat}
    /\ mOutputWorkCount \in Nat
    /\ left \in [Call -> Nat]

DequeueTypes ==
    /\ mRunTaskLoop \in BOOLEAN /\ mAllocBufferLoop \in BOOLEAN /\ fetching \in BOOLEAN
    /\ allocTasks \in Nat /\ waitTasks \in Nat

LEMMA TypeParts ==
    TypeInv <=> mTaskQueue \in Seq(Task) /\ HeldTypes /\ PoolTypes /\ ControlTypes /\ DequeueTypes
<1>1. ASSUME TypeInv PROVE mTaskQueue \in Seq(Task) /\ HeldTypes /\ PoolTypes /\ ControlTypes /\ DequeueTypes
  <2>1. CountInv /\ \A b \in DOMAIN mRawGraphicBlockInfo : mRawGraphicBlockInfo[b] \in Nat
    BY <1>1 DEF TypeInv
  <2>2. HeldTypes
    BY <1>1, <2>1, Types DEF HeldTypes
  <2>3. PoolTypes
    BY <1>1, <2>1, Types DEF PoolTypes
  <2>4. ControlTypes
    BY <1>1, Types DEF ControlTypes
  <2>5. DequeueTypes
    BY <1>1, Types DEF DequeueTypes
  <2> QED BY <1>1, <2>2, <2>3, <2>4, <2>5, Types
<1>2. ASSUME mTaskQueue \in Seq(Task), HeldTypes, PoolTypes, ControlTypes, DequeueTypes PROVE TypeInv
  <2>1. /\ {mUseBufferQueue, mBufferFirstAllocated, mResolutionChanging, mHaveDrainDone,
            mReportEosWork, mHaveFlushDone, mRunTaskLoop, mAllocBufferLoop, fetching, flushing} \subseteq BOOLEAN
        /\ {mOutputFormat, mPendingOutputFormat} \subseteq Format \cup {NoFormat}
        /\ {mGraphicBufferId, mOutputWorkCount, allocTasks, waitTasks} \subseteq Nat
    <3>1. /\ mGraphicBufferId \in Nat /\ mOutputWorkCount \in Nat /\ allocTasks \in Nat /\ waitTasks \in Nat
      BY <1>2 DEF PoolTypes, ControlTypes, DequeueTypes
    <3>2. {mOutputFormat, mPendingOutputFormat} \subseteq Format \cup {NoFormat}
      BY <1>2 DEF ControlTypes
    <3>3. {mUseBufferQueue, mBufferFirstAllocated, mResolutionChanging, mHaveDrainDone,
            mReportEosWork, mHaveFlushDone, mRunTaskLoop, mAllocBufferLoop, fetching, flushing} \subseteq BOOLEAN
      BY <1>2 DEF ControlTypes, DequeueTypes
    <3> QED BY <3>1, <3>2, <3>3
  <2>2. \A id \in DOMAIN mGraphicBlocks : id \in Nat /\ mGraphicBlocks[id] \in Block
    BY <1>2 DEF HeldTypes, Blocks
  <2>3. TypeOK
    <3>1. /\ mComponentState \in {"UNINITIALIZED", "STARTED", "FLUSHING", "STOPPING"}
          /\ mTaskQueue \in Seq(Task)
          /\ mGraphicBlockStateCount \in [State -> Int]
          /\ DOMAIN mRawGraphicBlockInfo \subseteq Buffer
          /\ client \subseteq Buffer \cup {NoBuffer}
          /\ left \in [Call -> Nat]
      BY <1>2 DEF HeldTypes, PoolTypes, ControlTypes
    <3>2. mPendingBuffersToWork \in Seq([id : Nat, fate : Fate, inputDone : BOOLEAN])
      BY <1>2 DEF HeldTypes, Picture
    <3>3. \A id \in DOMAIN mGraphicBlocks : id \in Nat /\ mGraphicBlocks[id] \in
              [buf : Buffer \cup {NoBuffer}, fd : Buffer, state : State, fdSet : BOOLEAN]
      BY <2>2 DEF Block
    <3> QED BY <2>1, <3>1, <3>2, <3>3 DEF TypeOK
  <2> QED BY <1>2, <2>3 DEF TypeInv, HeldTypes, PoolTypes
<1> QED BY <1>1, <1>2

\* Counting keeps at least the client's blocks counted.
LEMMA Recounted ==
    ASSUME TypeInv, NEW after, Blocks(after), Counted(mGraphicBlocks, after)
    PROVE  /\ mGraphicBlockStateCount' \in [State -> Int]
           /\ mGraphicBlockStateCount'["CLIENT"] \in Int
           /\ mGraphicBlockStateCount'["CLIENT"] >= Cardinality(With(after, "CLIENT"))
           /\ Cardinality(With(after, "CLIENT")) \in Nat
<1>1. /\ Blocks(mGraphicBlocks) /\ mGraphicBlockStateCount \in [State -> Int]
      /\ mGraphicBlockStateCount["CLIENT"] >= Cardinality(With(mGraphicBlocks, "CLIENT"))
  BY Types DEF TypeInv, CountInv
<1>2. "CLIENT" \in State
  BY DEF State
<1>3. /\ mGraphicBlockStateCount' \in [State -> Int]
      /\ mGraphicBlockStateCount'["CLIENT"] = mGraphicBlockStateCount["CLIENT"]
             + Cardinality(With(after, "CLIENT")) - Cardinality(With(mGraphicBlocks, "CLIENT"))
  BY <1>1, <1>2, Counting
<1>4. Cardinality(With(after, "CLIENT")) \in Nat /\ Cardinality(With(mGraphicBlocks, "CLIENT")) \in Nat
  BY <1>1, WithFinite
<1>5. mGraphicBlockStateCount["CLIENT"] \in Int
  BY <1>1, <1>2
<1> QED BY <1>1, <1>2, <1>3, <1>4, <1>5

LEMMA RecountedSame ==
    ASSUME TypeInv, NEW after, Blocks(after), Counted(mGraphicBlocks, after), mGraphicBlocks' = after
    PROVE  Blocks(mGraphicBlocks') /\ mGraphicBlockStateCount' \in [State -> Int] /\ CountInv'
  BY Recounted DEF CountInv

LEMMA DeliveredTypes ==
    ASSUME TypeInv, NEW bs, NEW held, NEW pictures, Blocks(bs), DOMAIN bs = DOMAIN mGraphicBlocks,
           pictures \in Seq(Picture), Ids(pictures) \subseteq DOMAIN mGraphicBlocks,
           held \subseteq DOMAIN mGraphicBlocks,
           Delivered(mGraphicBlocks, Deliver(bs, held, pictures))
    PROVE  /\ HeldTypes'
           /\ DOMAIN mGraphicBlocks' = DOMAIN mGraphicBlocks
           /\ decoder'.blocks \subseteq DOMAIN mGraphicBlocks
           /\ Ids(mPendingBuffersToWork') \subseteq Ids(pictures)
<1> DEFINE d == Deliver(bs, held, pictures)
<1>1. /\ Blocks(d.blocks) /\ DOMAIN d.blocks = DOMAIN bs
      /\ d.decoder \subseteq DOMAIN bs
      /\ d.pictures \in Seq(Picture) /\ Ids(d.pictures) \subseteq Ids(pictures)
      /\ d.client \subseteq Buffer \cup {NoBuffer}
  BY Types, DeliverKnown
<1>2. /\ mGraphicBlocks' = d.blocks /\ Counted(mGraphicBlocks, d.blocks)
      /\ mPendingBuffersToWork' = d.pictures /\ client' = d.client
      /\ decoder' = [decoder EXCEPT !.blocks = d.decoder]
  BY DEF Delivered
<1> HIDE DEF d
<1>3. Blocks(mGraphicBlocks') /\ mGraphicBlockStateCount' \in [State -> Int] /\ CountInv'
  BY <1>1, <1>2, RecountedSame
<1>4. d.decoder \in SUBSET Nat
  BY <1>1, <1>2, <1>3 DEF Blocks
<1>5. /\ decoder' \in [blocks : SUBSET Nat, asked : BOOLEAN, fed : BOOLEAN, resetting : BOOLEAN]
      /\ decoder'.blocks = d.decoder
  BY <1>2, <1>4, Types
<1>6. HeldTypes'
  BY <1>1, <1>2, <1>3, <1>5 DEF HeldTypes
<1> QED BY <1>1, <1>2, <1>5, <1>6

\* The handlers that deliver pictures.
LEMMA DeliverHandlers ==
    ASSUME TypeInv, KnownInv,
           \/ sendOutputBufferToWorkIfAnyTask \/ onDrainDone \/ onOutputBufferDone
           \/ onOutputBufferReturned /\ mPendingOutputFormat = NoFormat
    PROVE  /\ HeldTypes'
           /\ DOMAIN mGraphicBlocks' = DOMAIN mGraphicBlocks
           /\ decoder'.blocks \subseteq DOMAIN mGraphicBlocks
           /\ Ids(mPendingBuffersToWork') \subseteq DOMAIN mGraphicBlocks
<1>1. CASE Delivered(mGraphicBlocks, Deliver(mGraphicBlocks, decoder.blocks, mPendingBuffersToWork))
  BY <1>1, Types, DeliveredTypes DEF KnownInv
<1>2. CASE UNCHANGED <<mGraphicBlocks, mGraphicBlockStateCount, mPendingBuffersToWork, decoder, client>>
  BY <1>2, TypeParts DEF KnownInv, HeldTypes, CountInv
<1>3. CASE onOutputBufferDone
  <2> DEFINE task == Head(mTaskQueue)
  <2>1. /\ task.id \in DOMAIN mGraphicBlocks /\ Done(task) \in Seq(Picture)
        /\ Ids(Done(task)) = Ids(mPendingBuffersToWork) \cup {task.id}
        /\ Delivered(mGraphicBlocks, Deliver(Taken(task.id), decoder.blocks, Done(task)))
    BY <1>3, DoneParts
  <2>2. Blocks(Taken(task.id)) /\ DOMAIN Taken(task.id) = DOMAIN mGraphicBlocks
    BY Types, TakenBlocks
  <2> HIDE DEF task
  <2> QED BY <2>1, <2>2, DeliveredTypes DEF KnownInv
<1>4. CASE onOutputBufferReturned /\ mPendingOutputFormat = NoFormat
  <2> DEFINE task == Head(mTaskQueue)
  <2>1. /\ task.id \in DOMAIN mGraphicBlocks /\ task.buf \in Buffer
        /\ Delivered(mGraphicBlocks,
               Deliver(BackSent(task), decoder.blocks \cup {task.id}, mPendingBuffersToWork))
    BY <1>4, ReturnedParts
  <2>2. Blocks(BackSent(task)) /\ DOMAIN BackSent(task) = DOMAIN mGraphicBlocks
    BY <2>1, Types, BackBlocks
  <2> HIDE DEF task
  <2> QED BY <2>1, <2>2, Types, DeliveredTypes DEF KnownInv
<1> QED BY <1>1, <1>2, <1>3, <1>4 DEF sendOutputBufferToWorkIfAnyTask, onDrainDone

-----------------------------------------------------------------------------
(* What a change of the format does to the blocks. *)

\* The first allocation.
LEMMA FirstTypes ==
    ASSUME TypeInv, OrderInv, ~mBufferFirstAllocated, NEW fmt \in Format,
           allocateBuffersFromBlockPool(fmt), UNCHANGED <<mPendingBuffersToWork, client>>
    PROVE  /\ HeldTypes' /\ PoolTypes' /\ DequeueTypes'
           /\ decoder'.blocks = DOMAIN mGraphicBlocks'
<1>1. PICK first \in [0..FirstBlocks - 1 -> {b \in Buffer : b.size = fmt.size} \ client] :
        LET bs == [id \in DOMAIN first |->
                      [buf |-> first[id], fd |-> first[id], state |-> "ACCELERATOR", fdSet |-> TRUE]]
            given == {first[id] : id \in DOMAIN first}
        IN  /\ Cardinality(given) = FirstBlocks
            /\ mGraphicBlocks' = bs
            /\ Counted(NoBlocks, bs)
            /\ mRawGraphicBlockInfo' = [b \in given |-> CHOOSE id \in DOMAIN first : first[id] = b]
            /\ mGraphicBufferId' = FirstBlocks
            /\ decoder' = [decoder EXCEPT !.blocks = DOMAIN bs, !.asked = FALSE]
            /\ RestartDequeue(fmt.num - FirstBlocks)
            /\ mBufferFirstAllocated' = TRUE
            /\ UNCHANGED mPendingGraphicBlockBuffer
  BY DEF allocateBuffersFromBlockPool
<1> DEFINE bs == [id \in DOMAIN first |->
                      [buf |-> first[id], fd |-> first[id], state |-> "ACCELERATOR", fdSet |-> TRUE]]
           given == {first[id] : id \in DOMAIN first}
<1>2. FirstBlocks \in Nat /\ DOMAIN first = 0..FirstBlocks - 1 /\ fmt.num \in Nat /\ FirstBlocks <= fmt.num
  BY NumsAssumption DEF Format
<1>3. IsFiniteSet(DOMAIN first) /\ DOMAIN first \subseteq Nat
  <2>1. IsFiniteSet(0..FirstBlocks - 1)
    BY <1>2, FS_Interval
  <2> QED BY <2>1, <1>2
<1>4. \A id \in DOMAIN first : bs[id] \in Block /\ bs[id].state # "CLIENT"
  BY <1>2 DEF Block, State
<1>5. Blocks(bs) /\ With(bs, "CLIENT") = {} /\ DOMAIN bs = DOMAIN first
  <2>1. DOMAIN bs = DOMAIN first
    OBVIOUS
  <2> HIDE DEF bs
  <2> QED BY <1>3, <1>4, <2>1 DEF Blocks, With
<1>6. mGraphicBlockStateCount' \in [State -> Int] /\ mGraphicBlockStateCount'["CLIENT"] >= 0
  <2>1. /\ Blocks(NoBlocks) /\ With(NoBlocks, "CLIENT") = {}
    BY NoBlocksHere
  <2>2. With(mGraphicBlocks, "CLIENT") = {}
    BY DEF OrderInv, EmptyInv, With
  <2>3. mGraphicBlockStateCount \in [State -> Int] /\ mGraphicBlockStateCount["CLIENT"] >= 0
    BY <2>2, Types, FS_EmptySet DEF TypeInv, CountInv
  <2>4. /\ mGraphicBlockStateCount' \in [State -> Int]
        /\ mGraphicBlockStateCount'["CLIENT"] = mGraphicBlockStateCount["CLIENT"]
               + Cardinality(With(bs, "CLIENT")) - Cardinality(With(NoBlocks, "CLIENT"))
    <3>1. Counted(NoBlocks, bs) /\ "CLIENT" \in State
      BY <1>1 DEF State
    <3> HIDE DEF bs
    <3> QED BY <2>1, <2>3, <3>1, <1>5, Counting
  <2>5. Cardinality({}) = 0 /\ "CLIENT" \in State
    BY FS_EmptySet DEF State
  <2>6. mGraphicBlockStateCount["CLIENT"] \in Int
    BY <2>3, <2>5
  <2> HIDE DEF bs
  <2>7. Cardinality(With(bs, "CLIENT")) = 0 /\ Cardinality(With(NoBlocks, "CLIENT")) = 0
    BY <2>1, <2>5, <1>5
  <2>8. mGraphicBlockStateCount'["CLIENT"] = mGraphicBlockStateCount["CLIENT"]
    BY <2>4, <2>6, <2>7
  <2> QED BY <2>3, <2>4, <2>8
<1>7. HeldTypes'
  <2>1. mGraphicBlocks' = bs
    BY <1>1
  <2>2. /\ decoder' \in [blocks : SUBSET Nat, asked : BOOLEAN, fed : BOOLEAN, resetting : BOOLEAN]
        /\ decoder'.blocks = DOMAIN bs
    <3>1. decoder' = [decoder EXCEPT !.blocks = DOMAIN bs, !.asked = FALSE]
      BY <1>1
    <3> HIDE DEF bs
    <3> QED BY <3>1, <1>3, <1>5, Types
  <2>3. CountInv'
    <3>1. Cardinality({}) = 0
      BY FS_EmptySet
    <3> HIDE DEF bs
    <3> QED BY <2>1, <3>1, <1>5, <1>6 DEF CountInv
  <2> HIDE DEF bs
  <2> QED BY <2>1, <2>2, <2>3, <1>5, <1>6, Types DEF HeldTypes
<1>8. PoolTypes'
  <2>1. /\ mRawGraphicBlockInfo' = [b \in given |-> CHOOSE id \in DOMAIN first : first[id] = b]
        /\ mGraphicBufferId' = FirstBlocks
    BY <1>1
  <2>2. given \subseteq Buffer
    BY <1>2
  <2>3. ASSUME NEW b \in given PROVE (CHOOSE id \in DOMAIN first : first[id] = b) \in Nat
    <3>1. \E id \in DOMAIN first : first[id] = b
      OBVIOUS
    <3>2. (CHOOSE id \in DOMAIN first : first[id] = b) \in DOMAIN first
      BY <3>1
    <3> QED BY <3>2, <1>3
  <2> HIDE DEF given
  <2> QED BY <2>1, <2>2, <2>3, <1>2 DEF PoolTypes
<1>9. DequeueTypes'
  BY <1>1, <1>2, Types DEF RestartDequeue, PostAllocTasks, DequeueTypes
<1>10. decoder'.blocks = DOMAIN mGraphicBlocks'
  BY <1>1, Types
<1> QED BY <1>7, <1>8, <1>9, <1>10

\* All blocks go.
LEMMA DropTypes ==
    ASSUME TypeInv, NEW bs, Blocks(bs), NEW fmt, DropBlocks(bs, fmt),
           UNCHANGED <<mPendingBuffersToWork, client>>
    PROVE  HeldTypes' /\ PoolTypes' /\ decoder'.blocks = {}
<1>1. /\ mGraphicBlocks' = NoBlocks /\ mRawGraphicBlockInfo' = NoBlocks /\ mGraphicBufferId' = 0
      /\ Counted(mGraphicBlocks, NoBlocks) \/ Counted(mGraphicBlocks, bs)
      /\ decoder' = [decoder EXCEPT !.blocks = {}, !.asked = FALSE]
  BY DEF DropBlocks
<1>2. Blocks(NoBlocks) /\ DOMAIN NoBlocks = {} /\ With(NoBlocks, "CLIENT") = {} /\ Cardinality({}) = 0
  BY NoBlocksHere, FS_EmptySet
<1>3. mGraphicBlockStateCount' \in [State -> Int] /\ mGraphicBlockStateCount'["CLIENT"] >= 0
  BY <1>1, <1>2, Recounted
<1>4. CountInv'
  BY <1>1, <1>2, <1>3 DEF CountInv
<1>5. /\ decoder' \in [blocks : SUBSET Nat, asked : BOOLEAN, fed : BOOLEAN, resetting : BOOLEAN]
      /\ decoder'.blocks = {}
  BY <1>1, Types
<1> QED BY <1>1, <1>2, <1>3, <1>4, <1>5, Types DEF HeldTypes, PoolTypes

\* The decoder is sent the blocks again.
Unset(bs) == [id \in DOMAIN bs |-> [bs[id] EXCEPT !.fdSet = FALSE]]

LEMMA UnsetBlocks ==
    ASSUME NEW bs, Blocks(bs)
    PROVE  /\ Blocks(Unset(bs)) /\ DOMAIN Unset(bs) = DOMAIN bs
           /\ \A id \in DOMAIN bs :
                  /\ Unset(bs)[id].buf = bs[id].buf /\ Unset(bs)[id].fd = bs[id].fd
                  /\ Unset(bs)[id].state = bs[id].state
<1>1. DOMAIN Unset(bs) = DOMAIN bs
  BY DEF Unset
<1>2. \A id \in DOMAIN bs : Unset(bs)[id] \in Block /\ Unset(bs)[id].buf = bs[id].buf
          /\ Unset(bs)[id].fd = bs[id].fd /\ Unset(bs)[id].state = bs[id].state
  BY DEF Unset, Blocks, Block
<1> QED BY <1>1, <1>2 DEF Blocks

LEMMA SendTypes ==
    ASSUME TypeInv, NEW bs, Blocks(bs), SendBlocks(bs), UNCHANGED <<mPendingBuffersToWork, client>>
    PROVE  /\ HeldTypes' /\ PoolTypes'
           /\ DOMAIN mGraphicBlocks' = DOMAIN bs /\ decoder'.blocks \subseteq DOMAIN bs
<1> DEFINE own == With(bs, "COMPONENT")
           after == Sent(Unset(bs), own)
<1>1. /\ mGraphicBlocks' = after /\ Counted(mGraphicBlocks, after)
      /\ decoder' = [decoder EXCEPT !.blocks = WithBuffer(bs, own), !.asked = FALSE]
      /\ UNCHANGED pool
  BY DEF SendBlocks, Unset
<1>2. Blocks(after) /\ DOMAIN after = DOMAIN bs
  BY UnsetBlocks, SentBlocks
<1>3. WithBuffer(bs, own) \subseteq DOMAIN bs /\ DOMAIN bs \subseteq Nat
  BY DEF WithBuffer, Blocks
<1> HIDE DEF own, after
<1>4. /\ decoder' \in [blocks : SUBSET Nat, asked : BOOLEAN, fed : BOOLEAN, resetting : BOOLEAN]
      /\ decoder'.blocks = WithBuffer(bs, own)
  BY <1>1, <1>3, Types
<1>5. HeldTypes'
  BY <1>1, <1>2, <1>4, RecountedSame, Types DEF HeldTypes
<1>6. PoolTypes'
  BY <1>1, TypeParts DEF PoolTypes, pool
<1> QED BY <1>1, <1>2, <1>3, <1>4, <1>5, <1>6

\* The infos stay, the blocks the component owns are forgotten.
LEMMA ForgetTypes ==
    ASSUME TypeInv, NEW bs, Blocks(bs), ForgetBlocks(bs), UNCHANGED <<mPendingBuffersToWork, client>>
    PROVE  HeldTypes' /\ PoolTypes' /\ DOMAIN mGraphicBlocks' = DOMAIN bs /\ decoder'.blocks = {}
<1>1. /\ mGraphicBlocks' = Unset(bs) /\ Counted(mGraphicBlocks, bs)
      /\ decoder' = [decoder EXCEPT !.blocks = {}, !.asked = FALSE]
  BY DEF ForgetBlocks, Unset
<1>2. Blocks(Unset(bs)) /\ DOMAIN Unset(bs) = DOMAIN bs
  BY UnsetBlocks
<1>3. With(Unset(bs), "CLIENT") = With(bs, "CLIENT")
  BY UnsetBlocks DEF With
<1>4. mGraphicBlockStateCount' \in [State -> Int] /\ CountInv'
  BY <1>1, <1>3, Recounted DEF CountInv
<1>5. /\ decoder' \in [blocks : SUBSET Nat, asked : BOOLEAN, fed : BOOLEAN, resetting : BOOLEAN]
      /\ decoder'.blocks = {}
  BY <1>1, Types
<1>6. HeldTypes'
  BY <1>1, <1>2, <1>4, <1>5, Types DEF HeldTypes
<1>7. PoolTypes'
  <2> DEFINE kept == {b \in DOMAIN mRawGraphicBlockInfo :
                         mRawGraphicBlockInfo[b] \notin With(bs, "COMPONENT")}
  <2>1. /\ mRawGraphicBlockInfo' = [b \in kept |-> mRawGraphicBlockInfo[b]]
        /\ mGraphicBufferId' \in {0, mGraphicBufferId}
    BY DEF ForgetBlocks
  <2>2. kept \subseteq DOMAIN mRawGraphicBlockInfo
    OBVIOUS
  <2> HIDE DEF kept
  <2> QED BY <2>1, <2>2, TypeParts DEF PoolTypes
<1> QED BY <1>1, <1>2, <1>5, <1>6, <1>7

LEMMA ChangeTypes ==
    ASSUME TypeInv, OrderInv, KnownInv, NEW bs, Blocks(bs), DOMAIN bs = DOMAIN mGraphicBlocks,
           NEW fmt \in Format, tryChangeOutputFormat(bs, fmt), mTaskQueue # <<>>,
           Pending \/ Head(mTaskQueue).type = "format",
           UNCHANGED <<mPendingBuffersToWork, client>>
    PROVE  /\ HeldTypes' /\ PoolTypes' /\ DequeueTypes' /\ KnownInv'
           /\ mComponentState' = mComponentState
           /\ mPendingOutputFormat' \in {fmt, NoFormat} /\ mOutputFormat' \in {mOutputFormat, fmt}
           /\ mBufferFirstAllocated' \in BOOLEAN /\ mResolutionChanging' \in BOOLEAN
<1>1. QueueKept
  BY QueueChanged
<1>2. CASE WaitsForPictures \/ With(bs, "ACCELERATOR") # {}
  <2>1. /\ mGraphicBlocks' = bs /\ Counted(mGraphicBlocks, bs)
        /\ mPendingOutputFormat' = fmt
        /\ UNCHANGED <<mComponentState, mOutputFormat, mBufferFirstAllocated, mResolutionChanging,
                       pool, dequeue, decoder>>
    BY <1>2 DEF tryChangeOutputFormat, component
  <2>2. HeldTypes'
    BY <2>1, RecountedSame, TypeParts DEF HeldTypes
  <2>3. PoolTypes' /\ DequeueTypes'
    BY <2>1, TypeParts DEF PoolTypes, DequeueTypes, pool, dequeue
  <2>4. KnownInv'
    BY <2>1, <1>1, KnownSame
  <2> QED BY <2>1, <2>2, <2>3, <2>4, Types
<1>3. CASE ~(WaitsForPictures \/ With(bs, "ACCELERATOR") # {})
  <2>1. /\ mTaskQueue' = Tail(mTaskQueue)
        /\ mPendingOutputFormat' = NoFormat /\ mOutputFormat' = fmt /\ mResolutionChanging' = FALSE
        /\ IF mBufferFirstAllocated THEN videoResolutionChange(bs, fmt)
                                    ELSE allocateBuffersFromBlockPool(fmt)
        /\ UNCHANGED mComponentState
        /\ mPendingBuffersToWork = <<>>
    BY <1>3 DEF tryChangeOutputFormat, component, WaitsForPictures
  <2>2. Lacks(mTaskQueue', "done")
    BY <2>1, Types, TakeKeeps DEF OrderInv, FormatInv
  <2>3. CASE ~mBufferFirstAllocated
    <3>1. HeldTypes' /\ PoolTypes' /\ DequeueTypes' /\ decoder'.blocks = DOMAIN mGraphicBlocks'
      BY <2>1, <2>3, FirstTypes
    <3>2. mBufferFirstAllocated' = TRUE
      BY <2>1, <2>3 DEF allocateBuffersFromBlockPool
    <3> QED BY <2>1, <2>2, <3>1, <3>2, KnownEmptied
  <2>4. CASE mBufferFirstAllocated
    <3>1. /\ DropBlocks(bs, fmt) \/ SendBlocks(bs) \/ ForgetBlocks(bs)
          /\ RestartDequeue(fmt.num) /\ UNCHANGED mBufferFirstAllocated
      BY <2>1, <2>4 DEF videoResolutionChange
    <3>2. HeldTypes' /\ PoolTypes' /\ decoder'.blocks \subseteq DOMAIN mGraphicBlocks'
      BY <3>1, DropTypes, SendTypes, ForgetTypes
    <3>3. fmt.num \in Nat
      BY NumsAssumption DEF Format
    <3>4. DequeueTypes'
      BY <3>1, <3>3, Types DEF RestartDequeue, PostAllocTasks, DequeueTypes
    <3> QED BY <2>1, <2>2, <3>1, <3>2, <3>4, KnownEmptied, Types
  <2> QED BY <2>3, <2>4
<1> QED BY <1>2, <1>3

-----------------------------------------------------------------------------
(* The steps keep the types. *)

LEMMA ChangeSteps ==
    ASSUME TypeInv, OrderInv, KnownInv,
           \/ TryChange /\ mPendingOutputFormat # NoFormat
           \/ onOutputFormatChanged
           \/ onOutputBufferReturned /\ mPendingOutputFormat # NoFormat
    PROVE  /\ HeldTypes' /\ PoolTypes' /\ DequeueTypes' /\ KnownInv'
           /\ ControlTypes'
<1>1. PICK bs, fmt :
          /\ fmt \in Format
          /\ Blocks(bs) /\ DOMAIN bs = DOMAIN mGraphicBlocks
          /\ tryChangeOutputFormat(bs, fmt) /\ mTaskQueue # <<>>
          /\ Pending \/ Head(mTaskQueue).type = "format"
  <2>1. CASE TryChange /\ mPendingOutputFormat # NoFormat
    <3>1. /\ tryChangeOutputFormat(mGraphicBlocks, mPendingOutputFormat) /\ mTaskQueue # <<>> /\ Pending
      BY <2>1 DEF TryChange, Pending
    <3> QED BY <3>1, <2>1, Types
  <2>2. CASE onOutputFormatChanged
    <3> DEFINE bs == Moved(mGraphicBlocks, With(mGraphicBlocks, "ACCELERATOR"), "COMPONENT")
    <3>1. /\ tryChangeOutputFormat(bs, Head(mTaskQueue).fmt) /\ mTaskQueue # <<>>
          /\ Head(mTaskQueue).type = "format"
      BY <2>2 DEF onOutputFormatChanged
    <3>2. Head(mTaskQueue).fmt \in Format
      BY <3>1, Types, TailElements, TaskKinds
    <3>3. "COMPONENT" \in State
      BY DEF State
    <3>4. Blocks(bs) /\ DOMAIN bs = DOMAIN mGraphicBlocks
      BY <3>3, Types, MovedBlocks
    <3> HIDE DEF bs
    <3> QED BY <3>1, <3>2, <3>4
  <2>3. CASE onOutputBufferReturned /\ mPendingOutputFormat # NoFormat
    <3> DEFINE task == Head(mTaskQueue)
    <3>1. /\ tryChangeOutputFormat(Back(task), mPendingOutputFormat) /\ mTaskQueue # <<>> /\ Pending
          /\ task.buf \in Buffer /\ task.id \in DOMAIN mGraphicBlocks
      BY <2>3, ReturnedParts DEF Pending
    <3>2. Blocks(Back(task)) /\ DOMAIN Back(task) = DOMAIN mGraphicBlocks
      BY <3>1, Types, BackBlocks
    <3> HIDE DEF task
    <3> QED BY <3>1, <3>2, <2>3, Types
  <2> QED BY <2>1, <2>2, <2>3
<1>2. /\ UNCHANGED <<mPendingBuffersToWork, client, mUseBufferQueue>>
      /\ UNCHANGED <<flags, flushing, left>>
  BY DEF TryChange, onOutputFormatChanged, onOutputBufferReturned
<1>3. /\ HeldTypes' /\ PoolTypes' /\ DequeueTypes' /\ KnownInv'
      /\ mComponentState' = mComponentState
      /\ mPendingOutputFormat' \in {fmt, NoFormat} /\ mOutputFormat' \in {mOutputFormat, fmt}
      /\ mBufferFirstAllocated' \in BOOLEAN /\ mResolutionChanging' \in BOOLEAN
  BY <1>1, <1>2, ChangeTypes
<1>4. ControlTypes'
  <2>1. /\ mOutputFormat' \in Format \cup {NoFormat} /\ mPendingOutputFormat' \in Format \cup {NoFormat}
    BY <1>1, <1>3, Types
  <2>2. UNCHANGED <<mHaveDrainDone, mReportEosWork, mHaveFlushDone, mOutputWorkCount, flushing, left>>
    BY <1>2 DEF flags
  <2> QED BY <2>1, <2>2, <1>2, <1>3, Types DEF ControlTypes
<1> QED BY <1>3, <1>4

\* The other steps, one group of the types at a time.
Changes ==
    \/ TryChange /\ mPendingOutputFormat # NoFormat
    \/ onOutputFormatChanged
    \/ onOutputBufferReturned /\ mPendingOutputFormat # NoFormat

LEMMA ControlMain ==
    ASSUME TypeInv, MainThread, ~Changes
    PROVE  ControlTypes'
<1>0. ControlTypes
  BY Types DEF ControlTypes
<1>1. CASE Skip \/ DropReturned \/ ReturnedUnknown \/ ReturnedNotOwned \/ DropFetched
           \/ onNewBlockBufferFetched \/ LatePicture \/ DropPicture
           \/ (TryChange /\ mPendingOutputFormat = NoFormat)
  <2>1. UNCHANGED <<mComponentState, format, mResolutionChanging, flags, flushing, left>>
    BY <1>1 DEF Skip, DropReturned, ReturnedUnknown, ReturnedNotOwned, DropFetched,
       onNewBlockBufferFetched, LatePicture, DropPicture, TryChange, component, outside
  <2> QED BY <2>1, <1>0 DEF ControlTypes, format, flags
<1>2. CASE onOutputBufferReturned /\ mPendingOutputFormat = NoFormat
  <2>1. UNCHANGED <<mComponentState, format, mResolutionChanging, flags, flushing, left>>
    BY <1>2, ReturnedParts DEF Delivered
  <2> QED BY <2>1, <1>0 DEF ControlTypes, format, flags
<1>3. CASE onOutputBufferDone
  <2>1. UNCHANGED <<mComponentState, format, mResolutionChanging, mHaveDrainDone, mReportEosWork,
                    mHaveFlushDone, flushing, left>>
        /\ mOutputWorkCount' \in {1, 2}
    BY <1>3 DEF onOutputBufferDone, Delivered
  <2> QED BY <2>1, <1>0 DEF ControlTypes, format
<1>4. CASE sendOutputBufferToWorkIfAnyTask \/ onDrainDone
  <2>1. UNCHANGED <<mComponentState, format, mResolutionChanging, mHaveDrainDone,
                    mHaveFlushDone, mOutputWorkCount, flushing, left>>
        /\ mReportEosWork' \in {mReportEosWork, TRUE}
    BY <1>4 DEF sendOutputBufferToWorkIfAnyTask, onDrainDone, Delivered, flags, component
  <2> QED BY <2>1, <1>0 DEF ControlTypes, format
<1>5. CASE onFlush \/ onFlushDone \/ onQueueWork \/ onStart \/ onStop
  <2>1. /\ UNCHANGED <<format, mResolutionChanging, flushing, left>>
        /\ mComponentState' \in {mComponentState, "STARTED", "FLUSHING", "STOPPING"}
        /\ mHaveDrainDone' \in {mHaveDrainDone, FALSE} /\ mReportEosWork' \in {mReportEosWork, FALSE}
        /\ mHaveFlushDone' \in {mHaveFlushDone, FALSE} /\ mOutputWorkCount' \in {mOutputWorkCount, 0}
    BY <1>5 DEF onFlush, onFlushDone, onQueueWork, onStart, onStop, flags, component, outside
  <2>2. UNCHANGED <<mUseBufferQueue, mOutputFormat, mPendingOutputFormat, mBufferFirstAllocated>>
    BY <2>1 DEF format
  <2>3. /\ mComponentState' \in {"UNINITIALIZED", "STARTED", "FLUSHING", "STOPPING"}
        /\ mHaveDrainDone' \in BOOLEAN /\ mReportEosWork' \in BOOLEAN /\ mHaveFlushDone' \in BOOLEAN
        /\ mOutputWorkCount' \in Nat
    <3>1. mHaveDrainDone \in BOOLEAN /\ mReportEosWork \in BOOLEAN /\ mHaveFlushDone \in BOOLEAN
          /\ mComponentState \in {"UNINITIALIZED", "STARTED", "FLUSHING", "STOPPING"}
          /\ mOutputWorkCount \in Nat
      BY Types
    <3>2. mHaveDrainDone' \in BOOLEAN /\ mReportEosWork' \in BOOLEAN /\ mHaveFlushDone' \in BOOLEAN
      BY <2>1, <3>1
    <3>3. mComponentState' \in {"UNINITIALIZED", "STARTED", "FLUSHING", "STOPPING"}
      BY <2>1, <3>1
    <3>4. mOutputWorkCount' \in Nat
      BY <2>1, <3>1
    <3> QED BY <3>2, <3>3, <3>4
  <2> QED BY <2>1, <2>2, <2>3, <1>0 DEF ControlTypes
<1>6. CASE onStopDone
  <2>1. /\ mComponentState' = "UNINITIALIZED" /\ mPendingOutputFormat' = NoFormat
        /\ mBufferFirstAllocated' = FALSE /\ mOutputWorkCount' = 0
        /\ UNCHANGED <<mResolutionChanging, mUseBufferQueue, mOutputFormat,
                       mHaveDrainDone, mReportEosWork, mHaveFlushDone, flushing, left>>
    BY <1>6 DEF onStopDone
  <2> QED BY <2>1, <1>0 DEF ControlTypes
<1>7. \/ Skip \/ DropReturned \/ ReturnedUnknown \/ ReturnedNotOwned \/ DropFetched
      \/ onNewBlockBufferFetched \/ LatePicture \/ DropPicture
      \/ TryChange /\ mPendingOutputFormat = NoFormat
      \/ onOutputBufferReturned /\ mPendingOutputFormat = NoFormat
      \/ onOutputBufferDone \/ sendOutputBufferToWorkIfAnyTask \/ onDrainDone
      \/ onFlush \/ onFlushDone \/ onQueueWork \/ onStart \/ onStop \/ onStopDone
  BY DEF MainThread, Changes
<1> QED BY <1>1, <1>2, <1>3, <1>4, <1>5, <1>6, <1>7

LEMMA ControlOthers ==
    ASSUME TypeInv, DequeueThread \/ DecoderThread \/ Client \/ UNCHANGED vars
    PROVE  ControlTypes'
<1>1. UNCHANGED <<mComponentState, format, mReportEosWork, mOutputWorkCount>>
  BY DEF DequeueThread, WaitOver, CancelAllocTask, onAllocBufferTask, FetchDone, FetchRetry,
     DecoderThread, onInputBufferDone, ProvidePictureBuffers, PictureReady, NotifyFlushDone,
     NotifyFlushOrStopDone, Client, start, queue_nb, flush_sm, FlushReturn, stop, ReturnBuffer,
     vars, component, flags
<1>2. /\ mResolutionChanging' \in {mResolutionChanging, TRUE}
      /\ mHaveFlushDone' \in {mHaveFlushDone, TRUE} /\ mHaveDrainDone' \in {mHaveDrainDone, TRUE}
      /\ flushing' \in {flushing, TRUE, FALSE}
  BY DEF DequeueThread, WaitOver, CancelAllocTask, onAllocBufferTask, FetchDone, FetchRetry,
     DecoderThread, onInputBufferDone, ProvidePictureBuffers, PictureReady, NotifyFlushDone,
     NotifyFlushOrStopDone, Client, start, queue_nb, flush_sm, FlushReturn, stop, ReturnBuffer,
     vars, component, flags, outside
<1>3. UNCHANGED left \/ \E call \in Call : May(call) /\ Once(call)
  BY DEF DequeueThread, WaitOver, CancelAllocTask, onAllocBufferTask, FetchDone, FetchRetry,
     DecoderThread, onInputBufferDone, ProvidePictureBuffers, PictureReady, NotifyFlushDone,
     NotifyFlushOrStopDone, Client, start, queue_nb, flush_sm, FlushReturn, stop, ReturnBuffer,
     vars, outside, Call
<1>4. left' \in [Call -> Nat]
  <2>1. ASSUME NEW call \in Call, May(call), Once(call) PROVE left' \in [Call -> Nat]
    <3>1. left[call] \in Nat /\ left[call] > 0
      BY <2>1, Types DEF May
    <3>2. left[call] - 1 \in Nat
      BY <3>1
    <3> QED BY <2>1, <3>2, Types DEF Once
  <2> QED BY <1>3, <2>1, Types
<1>5. UNCHANGED <<mUseBufferQueue, mOutputFormat, mPendingOutputFormat, mBufferFirstAllocated>>
  BY <1>1 DEF format
<1>6. mResolutionChanging' \in BOOLEAN /\ mHaveFlushDone' \in BOOLEAN /\ mHaveDrainDone' \in BOOLEAN
      /\ flushing' \in BOOLEAN
  BY <1>2, Types
<1> QED BY <1>1, <1>4, <1>5, <1>6, Types DEF ControlTypes

LEMMA PoolStep ==
    ASSUME TypeInv, [Next]_vars, ~Changes
    PROVE  PoolTypes'
<1>1. CASE UNCHANGED pool
  BY <1>1, TypeParts DEF PoolTypes, pool
<1>2. CASE onStopDone
  BY <1>2, NoBlocksHere DEF onStopDone, PoolTypes
<1>3. CASE FetchDone
  <2>1. PICK b \in Fetchable : appendOutputGraphicBlock(b)
    BY <1>3 DEF FetchDone
  <2>2. b \in Buffer
    BY <2>1 DEF Fetchable, Free
  <2>3. CASE b \in DOMAIN mRawGraphicBlockInfo
    BY <2>1, <2>3, <1>1 DEF appendOutputGraphicBlock
  <2>4. CASE b \notin DOMAIN mRawGraphicBlockInfo
    <3>1. /\ mRawGraphicBlockInfo' = [x \in DOMAIN mRawGraphicBlockInfo \cup {b} |->
                                        IF x = b THEN mGraphicBufferId ELSE mRawGraphicBlockInfo[x]]
          /\ mGraphicBufferId' = mGraphicBufferId + 1
      BY <2>1, <2>4 DEF appendOutputGraphicBlock
    <3> QED BY <3>1, <2>2, TypeParts DEF PoolTypes
  <2> QED BY <2>3, <2>4
<1>4. onStopDone \/ FetchDone \/ UNCHANGED pool
  <2>1. CASE MainThread /\ ~onStopDone
    <3>1. CASE onOutputBufferReturned
      BY <3>1, ReturnedParts DEF Changes
    <3>2. CASE ~onOutputBufferReturned
      BY <2>1, <3>2 DEF Changes, MainThread, Skip, DropReturned, ReturnedUnknown, ReturnedNotOwned,
         DropFetched, onNewBlockBufferFetched, LatePicture, DropPicture, TryChange, onOutputBufferDone,
         sendOutputBufferToWorkIfAnyTask, onDrainDone, onFlush, onFlushDone, onQueueWork, onStart, onStop
    <3> QED BY <3>1, <3>2
  <2>2. CASE DequeueThread \/ DecoderThread \/ Client \/ UNCHANGED vars
    BY <2>2 DEF DequeueThread, WaitOver, CancelAllocTask, onAllocBufferTask, FetchRetry,
       DecoderThread, onInputBufferDone, ProvidePictureBuffers, PictureReady, NotifyFlushDone,
       NotifyFlushOrStopDone, Client, start, queue_nb, flush_sm, FlushReturn, stop, ReturnBuffer, vars
  <2> QED BY <2>1, <2>2 DEF Next
<1> QED BY <1>1, <1>2, <1>3, <1>4

LEMMA DequeueMain ==
    ASSUME TypeInv, OrderInv, MainThread, ~Changes, HeldTypes'
    PROVE  DequeueTypes'
<1>1. CASE UNCHANGED dequeue
  BY <1>1, TypeParts DEF DequeueTypes, dequeue
<1>2. CASE onFlushDone \/ onStop \/ onStopDone
  <2>1. /\ mRunTaskLoop' = FALSE /\ allocTasks' = 0 /\ waitTasks' = 0
        /\ UNCHANGED <<mAllocBufferLoop, fetching>>
    BY <1>2 DEF onFlushDone, onStop, onStopDone, StopRunDequeueTask
  <2> QED BY <2>1, TypeParts DEF DequeueTypes
<1>3. CASE onOutputBufferDone
  <2>1. PICK loop \in BOOLEAN :
            /\ mAllocBufferLoop' = loop
            /\ PostAllocTasks(IF mRunTaskLoop THEN 1 ELSE 0, allocTasks, waitTasks, loop)
            /\ UNCHANGED <<mRunTaskLoop, fetching>>
    <3>1. (mAllocBufferLoop \/ mOutputWorkCount' = 1) \in BOOLEAN
      OBVIOUS
    <3> QED BY <1>3, <3>1 DEF onOutputBufferDone
  <2>2. PICK n \in Nat : PostAllocTasks(n, allocTasks, waitTasks, loop)
    BY <2>1
  <2> QED BY <2>1, <2>2, Types DEF PostAllocTasks, DequeueTypes
<1>4. CASE onQueueWork
  <2>1. /\ mRunTaskLoop' \in {mRunTaskLoop, TRUE} /\ mAllocBufferLoop' \in {mAllocBufferLoop, TRUE}
        /\ UNCHANGED fetching
    BY <1>4 DEF onQueueWork
  <2>2. \/ UNCHANGED <<allocTasks, waitTasks>>
        \/ PostAllocTasks(Missing(mGraphicBlockStateCount'), allocTasks, waitTasks, TRUE)
           /\ mBufferFirstAllocated
    BY <1>4 DEF onQueueWork
  <2>3. /\ mGraphicBlockStateCount' \in [State -> Int]
        /\ mGraphicBlockStateCount'["CLIENT"] >= Cardinality(With(mGraphicBlocks', "CLIENT"))
        /\ Cardinality(With(mGraphicBlocks', "CLIENT")) \in Nat
    BY WithFinite DEF HeldTypes, CountInv
  <2>4. mOutputFormat.num \in Int
    <3>1. mOutputFormat \in Format \/ mOutputFormat = NoFormat
      BY Types
    <3>2. \A fmt \in Format : fmt.num \in Nat
      BY NumsAssumption DEF Format
    <3>3. NoFormat.num = 0
      BY DEF NoFormat
    <3> QED BY <3>1, <3>2, <3>3
  <2> DEFINE count == mGraphicBlockStateCount'
             stopped == mOutputFormat.num - count["CLIENT"] - count["ACCELERATOR"] - count["COMPONENT"]
  <2>5. count["CLIENT"] \in Nat /\ count["ACCELERATOR"] \in Int /\ count["COMPONENT"] \in Int
    BY <2>3 DEF State
  <2>6. stopped \in Int
    <3> HIDE DEF count
    <3> QED BY <2>4, <2>5
  <2>7. Missing(count) = count["CLIENT"] + IF stopped > 0 THEN stopped ELSE 0
    BY DEF Missing
  <2> HIDE DEF stopped
  <2>8. Missing(count) \in Nat
    <3> HIDE DEF count
    <3> QED BY <2>5, <2>6, <2>7
  <2>9. allocTasks' \in Nat /\ waitTasks' \in Nat
    <3>1. PICK n \in Nat : UNCHANGED <<allocTasks, waitTasks>> \/ PostAllocTasks(n, allocTasks, waitTasks, TRUE)
      BY <2>2, <2>8
    <3> QED BY <3>1, Types DEF PostAllocTasks
  <2> QED BY <2>1, <2>9, Types DEF DequeueTypes
<1>5. onFlushDone \/ onStop \/ onStopDone \/ onOutputBufferDone \/ onQueueWork \/ UNCHANGED dequeue
  <2>1. CASE onOutputBufferReturned
    BY <2>1, ReturnedParts DEF Changes
  <2>2. CASE ~onOutputBufferReturned
    BY <2>2 DEF Changes, MainThread, Skip, DropReturned, ReturnedUnknown, ReturnedNotOwned,
       DropFetched, onNewBlockBufferFetched, LatePicture, DropPicture, TryChange,
       sendOutputBufferToWorkIfAnyTask, onDrainDone, onFlush, onStart
  <2> QED BY <2>1, <2>2
<1> QED BY <1>1, <1>2, <1>3, <1>4, <1>5

LEMMA DequeueOthers ==
    ASSUME TypeInv, DequeueThread \/ DecoderThread \/ Client \/ UNCHANGED vars
    PROVE  DequeueTypes'
<1>1. CASE UNCHANGED dequeue
  BY <1>1, TypeParts DEF DequeueTypes, dequeue
<1>2. CASE DequeueThread
  <2>1. /\ UNCHANGED <<mRunTaskLoop, mAllocBufferLoop>> /\ fetching' \in {fetching, TRUE, FALSE}
        /\ allocTasks' \in {allocTasks, allocTasks + 1} \/ (allocTasks > 0 /\ allocTasks' = allocTasks - 1)
        /\ waitTasks' = waitTasks \/ (waitTasks > 0 /\ waitTasks' = waitTasks - 1)
    BY <1>2 DEF DequeueThread, WaitOver, CancelAllocTask, onAllocBufferTask, FetchDone, FetchRetry
  <2>2. mRunTaskLoop \in BOOLEAN /\ mAllocBufferLoop \in BOOLEAN /\ fetching \in BOOLEAN
        /\ allocTasks \in Nat /\ waitTasks \in Nat
    BY Types
  <2>3. fetching' \in BOOLEAN /\ mRunTaskLoop' \in BOOLEAN /\ mAllocBufferLoop' \in BOOLEAN
    BY <2>1, <2>2
  <2>4. allocTasks' \in Nat
    BY <2>1, <2>2
  <2>5. waitTasks' \in Nat
    BY <2>1, <2>2
  <2> QED BY <2>3, <2>4, <2>5 DEF DequeueTypes
<1>3. CASE NotifyFlushDone
  BY <1>3, Types DEF NotifyFlushDone, DequeueTypes
<1>4. DequeueThread \/ NotifyFlushDone \/ UNCHANGED dequeue
  BY DEF DecoderThread, onInputBufferDone, ProvidePictureBuffers, PictureReady,
     NotifyFlushOrStopDone, Client, start, queue_nb, flush_sm, FlushReturn, stop, ReturnBuffer, vars
<1> QED BY <1>1, <1>2, <1>3, <1>4

\* Only these steps change the blocks or how they are counted.
LEMMA HeldSame ==
    ASSUME TypeInv, UNCHANGED <<mGraphicBlocks, mGraphicBlockStateCount>>,
           mPendingBuffersToWork' \in Seq(Picture), decoder'.blocks \subseteq Nat,
           decoder' \in [blocks : SUBSET Nat, asked : BOOLEAN, fed : BOOLEAN, resetting : BOOLEAN],
           client' \subseteq client
    PROVE  HeldTypes'
  BY TypeParts DEF HeldTypes, CountInv

LEMMA HeldOthers ==
    ASSUME TypeInv, DequeueThread \/ DecoderThread \/ Client \/ UNCHANGED vars
    PROVE  HeldTypes'
<1>1. UNCHANGED <<mGraphicBlocks, mGraphicBlockStateCount>> /\ client' \subseteq client
  BY DEF DequeueThread, WaitOver, CancelAllocTask, onAllocBufferTask, FetchDone, FetchRetry,
     DecoderThread, onInputBufferDone, ProvidePictureBuffers, PictureReady, NotifyFlushDone,
     NotifyFlushOrStopDone, Client, start, queue_nb, flush_sm, FlushReturn, stop, ReturnBuffer,
     vars, blocks, outside
<1>2. mPendingBuffersToWork' \in Seq(Picture)
  <2>1. CASE onInputBufferDone
    <3>1. PICK i \in 1..Len(mPendingBuffersToWork) :
              mPendingBuffersToWork' = [mPendingBuffersToWork EXCEPT ![i].inputDone = TRUE]
      BY <2>1 DEF onInputBufferDone
    <3>2. [mPendingBuffersToWork[i] EXCEPT !.inputDone = TRUE] \in Picture
      <4>1. mPendingBuffersToWork[i] \in Picture
        BY Types
      <4> QED BY <4>1 DEF Picture
    <3>3. mPendingBuffersToWork' = [mPendingBuffersToWork EXCEPT
              ![i] = [mPendingBuffersToWork[i] EXCEPT !.inputDone = TRUE]]
      BY <3>1
    <3> QED BY <3>2, <3>3, Types
  <2>2. CASE ~onInputBufferDone
    <3>1. UNCHANGED mPendingBuffersToWork
      BY <2>2 DEF DequeueThread, WaitOver, CancelAllocTask, onAllocBufferTask, FetchDone, FetchRetry,
         DecoderThread, ProvidePictureBuffers, PictureReady, NotifyFlushDone,
         NotifyFlushOrStopDone, Client, start, queue_nb, flush_sm, FlushReturn, stop, ReturnBuffer,
         vars, blocks
    <3> QED BY <3>1, Types
  <2> QED BY <2>1, <2>2
<1>3. \/ UNCHANGED decoder
      \/ decoder' = [decoder EXCEPT !.asked = TRUE, !.blocks = {}]
      \/ \E id : decoder' = [decoder EXCEPT !.blocks = @ \ {id}]
      \/ decoder' = [decoder EXCEPT !.fed = FALSE]
      \/ decoder' = [decoder EXCEPT !.resetting = FALSE]
  BY DEF DequeueThread, WaitOver, CancelAllocTask, onAllocBufferTask, FetchDone, FetchRetry,
     DecoderThread, onInputBufferDone, ProvidePictureBuffers, PictureReady, NotifyFlushDone,
     NotifyFlushOrStopDone, Client, start, queue_nb, flush_sm, FlushReturn, stop, ReturnBuffer,
     vars, outside
<1>4. /\ decoder'.blocks \subseteq Nat
      /\ decoder' \in [blocks : SUBSET Nat, asked : BOOLEAN, fed : BOOLEAN, resetting : BOOLEAN]
  BY <1>3, Types
<1> QED BY <1>1, <1>2, <1>4, HeldSame

\* The blocks and the new one a task brings.
WithNew(task) ==
    [id \in DOMAIN mGraphicBlocks \cup {task.id} |->
        IF id = task.id
        THEN [buf |-> task.buf, fd |-> task.buf, state |-> "ACCELERATOR", fdSet |-> TRUE]
        ELSE mGraphicBlocks[id]]

LEMMA HeldMain ==
    ASSUME TypeInv, OrderInv, KnownInv, MainThread, ~Changes
    PROVE  HeldTypes'
<1>1. CASE \/ sendOutputBufferToWorkIfAnyTask \/ onDrainDone \/ onOutputBufferDone
           \/ onOutputBufferReturned /\ mPendingOutputFormat = NoFormat
  BY <1>1, DeliverHandlers
<1>2. CASE \/ Skip \/ DropReturned \/ ReturnedUnknown \/ ReturnedNotOwned \/ DropFetched \/ DropPicture
           \/ onFlush \/ onStop \/ onStart \/ onFlushDone
           \/ TryChange /\ mPendingOutputFormat = NoFormat
  <2>1. UNCHANGED <<mGraphicBlocks, mGraphicBlockStateCount, client>>
        /\ mPendingBuffersToWork' \in {mPendingBuffersToWork, <<>>}
    BY <1>2 DEF Skip, DropReturned, ReturnedUnknown, ReturnedNotOwned, DropFetched, DropPicture,
       onFlush, onStop, onStart, onFlushDone, TryChange, blocks, outside
  <2>2. <<>> \in Seq(Picture)
    OBVIOUS
  <2>3. \/ UNCHANGED decoder
        \/ decoder' = [decoder EXCEPT !.blocks = {}, !.fed = FALSE, !.resetting = TRUE]
        \/ decoder' = [blocks |-> {}, asked |-> FALSE, fed |-> FALSE, resetting |-> FALSE]
    BY <1>2 DEF Skip, DropReturned, ReturnedUnknown, ReturnedNotOwned, DropFetched, DropPicture,
       onFlush, onStop, onStart, onFlushDone, TryChange, outside
  <2>4. /\ decoder'.blocks \subseteq Nat
        /\ decoder' \in [blocks : SUBSET Nat, asked : BOOLEAN, fed : BOOLEAN, resetting : BOOLEAN]
    <3>1. decoder \in [blocks : SUBSET Nat, asked : BOOLEAN, fed : BOOLEAN, resetting : BOOLEAN]
      BY Types
    <3>2. decoder' \in [blocks : SUBSET Nat, asked : BOOLEAN, fed : BOOLEAN, resetting : BOOLEAN]
      <4>1. CASE UNCHANGED decoder
        BY <4>1, <3>1
      <4>2. CASE decoder' = [decoder EXCEPT !.blocks = {}, !.fed = FALSE, !.resetting = TRUE]
        BY <4>2, <3>1
      <4>3. CASE decoder' = [blocks |-> {}, asked |-> FALSE, fed |-> FALSE, resetting |-> FALSE]
        BY <4>3
      <4> QED BY <2>3, <4>1, <4>2, <4>3
    <3> QED BY <3>2
  <2> QED BY <2>1, <2>2, <2>4, Types, HeldSame
<1>3. CASE onStopDone
  <2>1. /\ mGraphicBlocks' = NoBlocks /\ mPendingBuffersToWork' = <<>>
        /\ decoder' = [decoder EXCEPT !.blocks = {}]
        /\ UNCHANGED <<mGraphicBlockStateCount, client>>
    BY <1>3 DEF onStopDone
  <2>2. Blocks(NoBlocks) /\ Cardinality(With(NoBlocks, "CLIENT")) = 0
    BY NoBlocksHere, FS_EmptySet
  <2>3. /\ mGraphicBlockStateCount["CLIENT"] >= Cardinality(With(mGraphicBlocks, "CLIENT"))
        /\ Cardinality(With(mGraphicBlocks, "CLIENT")) \in Nat
        /\ mGraphicBlockStateCount["CLIENT"] \in Int
    BY Types, WithFinite DEF TypeInv, CountInv, State
  <2>4. CountInv'
    BY <2>1, <2>2, <2>3 DEF CountInv
  <2>5. decoder' \in [blocks : SUBSET Nat, asked : BOOLEAN, fed : BOOLEAN, resetting : BOOLEAN]
    BY <2>1, Types
  <2> QED BY <2>1, <2>2, <2>4, <2>5, Types DEF HeldTypes
<1>4. CASE onQueueWork
  <2> DEFINE bs == mGraphicBlocks'
  <2>1. /\ bs \in {mGraphicBlocks, Reused(mGraphicBlocks)} /\ Counted(mGraphicBlocks, bs)
        /\ \E ids \in SUBSET DOMAIN bs : decoder' = [decoder EXCEPT !.fed = TRUE, !.blocks = @ \cup ids]
        /\ UNCHANGED <<mPendingBuffersToWork, client>>
    BY <1>4 DEF onQueueWork, WithBuffer
  <2>2. Blocks(Reused(mGraphicBlocks)) /\ Blocks(mGraphicBlocks)
    <3>1. "ACCELERATOR" \in State
      BY DEF State
    <3> QED BY <3>1, Types, MovedBlocks, SentBlocks DEF Reused
  <2>3. Blocks(bs) /\ DOMAIN bs \subseteq Nat
    <3>1. Blocks(bs)
      BY <2>1, <2>2
    <3> HIDE DEF bs
    <3> QED BY <3>1 DEF Blocks
  <2>4. decoder' \in [blocks : SUBSET Nat, asked : BOOLEAN, fed : BOOLEAN, resetting : BOOLEAN]
    <3>1. PICK ids \in SUBSET Nat : decoder' = [decoder EXCEPT !.fed = TRUE, !.blocks = @ \cup ids]
      BY <2>1, <2>3
    <3> QED BY <3>1, Types
  <2> QED BY <2>1, <2>3, <2>4, RecountedSame, Types DEF HeldTypes
<1>5. CASE LatePicture \/ onNewBlockBufferFetched
  <2> DEFINE task == Head(mTaskQueue)
  <2>1. /\ task \in Task /\ task.type \in {"done", "fetched"}
        /\ onNewBlockBufferFetched <=> task.type = "fetched"
    <3>1. mTaskQueue # <<>> /\ task.type \in {"done", "fetched"}
          /\ (onNewBlockBufferFetched <=> task.type = "fetched")
      BY <1>5 DEF LatePicture, onNewBlockBufferFetched, Take
    <3> QED BY <3>1, Types, TailElements
  <2>2. task.id \in Nat /\ (task.type = "fetched" => task.buf \in Buffer)
    BY <2>1, TaskKinds DEF Fetched
  <2>3. /\ UNCHANGED <<mPendingBuffersToWork, client>>
        /\ \/ UNCHANGED <<mGraphicBlocks, mGraphicBlockStateCount, decoder>>
           \/ /\ Counted(mGraphicBlocks, mGraphicBlocks')
              /\ \E ids \in {{task.id}, {}} : decoder' = [decoder EXCEPT !.blocks = @ \cup ids]
              /\ \/ mGraphicBlocks' = Sent(mGraphicBlocks, {task.id})
                 \/ /\ task.type = "fetched"
                    /\ mGraphicBlocks' = WithNew(task)
    <3>1. CASE LatePicture
      <4>1. WithBuffer(mGraphicBlocks', {task.id}) \in {{task.id}, {}}
        BY DEF WithBuffer
      <4> QED BY <3>1, <4>1 DEF LatePicture
    <3>2. CASE onNewBlockBufferFetched
      BY <3>2, <2>1 DEF onNewBlockBufferFetched, WithNew
    <3> QED BY <1>5, <3>1, <3>2
  <2> HIDE DEF task
  <2>4. decoder' \in [blocks : SUBSET Nat, asked : BOOLEAN, fed : BOOLEAN, resetting : BOOLEAN]
    <3>1. UNCHANGED decoder \/ \E ids \in SUBSET Nat : decoder' = [decoder EXCEPT !.blocks = @ \cup ids]
      BY <2>2, <2>3
    <3> QED BY <3>1, Types
  <2>5. CASE UNCHANGED <<mGraphicBlocks, mGraphicBlockStateCount>>
    BY <2>3, <2>4, <2>5, Types, HeldSame
  <2>6. CASE Counted(mGraphicBlocks, mGraphicBlocks') /\ mGraphicBlocks' = Sent(mGraphicBlocks, {task.id})
    <3>1. Blocks(mGraphicBlocks')
      BY <2>6, Types, SentBlocks
    <3> QED BY <2>3, <2>4, <2>6, <3>1, RecountedSame, Types DEF HeldTypes
  <2>7. CASE /\ Counted(mGraphicBlocks, mGraphicBlocks') /\ task.type = "fetched"
             /\ mGraphicBlocks' = WithNew(task)
    <3>1. [buf |-> task.buf, fd |-> task.buf, state |-> "ACCELERATOR", fdSet |-> TRUE] \in Block
      BY <2>2, <2>7 DEF Block, State
    <3>2. IsFiniteSet(DOMAIN mGraphicBlocks \cup {task.id})
      BY Types, FS_AddElement DEF Blocks
    <3>3. Blocks(mGraphicBlocks')
      BY <2>2, <2>7, <3>1, <3>2, Types DEF Blocks, WithNew
    <3> QED BY <2>3, <2>4, <2>7, <3>3, RecountedSame, Types DEF HeldTypes
  <2> QED BY <2>3, <2>5, <2>6, <2>7
<1> QED BY <1>1, <1>2, <1>3, <1>4, <1>5 DEF MainThread, Changes

LEMMA KnownStep ==
    ASSUME TypeInv, OrderInv, KnownInv, [Next]_vars
    PROVE  KnownInv'
<1>1. QueueKept
  BY QueueStep
<1>2. CASE Changes
  BY <1>2, ChangeSteps DEF Changes
<1>3. CASE TryChange /\ mPendingOutputFormat = NoFormat
  <2>1. UNCHANGED <<mGraphicBlocks, mPendingBuffersToWork, decoder>>
    BY <1>3 DEF TryChange, blocks
  <2> QED BY <2>1, <1>1, KnownSame
<1>4. CASE \/ sendOutputBufferToWorkIfAnyTask \/ onDrainDone \/ onOutputBufferDone
           \/ onOutputBufferReturned /\ mPendingOutputFormat = NoFormat
  BY <1>1, <1>4, DeliverHandlers, KnownKept
<1>5. CASE \/ Skip \/ DropReturned \/ ReturnedUnknown \/ ReturnedNotOwned \/ DropFetched \/ DropPicture
           \/ onFlush \/ onStop \/ DequeueThread \/ Client \/ UNCHANGED vars
           \/ ProvidePictureBuffers \/ PictureReady \/ NotifyFlushDone \/ NotifyFlushOrStopDone
  BY <1>1, <1>5, KnownDropped
<1>6. CASE onInputBufferDone \/ onFlushDone \/ onStart \/ onStopDone \/ onQueueWork \/ LatePicture
           \/ onNewBlockBufferFetched
  BY <1>1, <1>6, KnownQueues
<1> QED BY <1>2, <1>3, <1>4, <1>5, <1>6 DEF Next, MainThread, DecoderThread, Changes

LEMMA TypePartsNext ==
    (mTaskQueue \in Seq(Task))' /\ HeldTypes' /\ PoolTypes' /\ ControlTypes' /\ DequeueTypes' => TypeInv'
  BY TypeParts, PTL

LEMMA TypeStep ==
    ASSUME TypeInv, OrderInv, KnownInv, [Next]_vars
    PROVE  TypeInv'
<1>1. mTaskQueue' \in Seq(Task)
  BY QueueStep DEF QueueKept
<1>2. CASE Changes
  <2>1. HeldTypes' /\ PoolTypes' /\ DequeueTypes' /\ ControlTypes'
    BY <1>2, ChangeSteps DEF Changes
  <2> QED BY <1>1, <2>1, TypePartsNext
<1>3. CASE ~Changes
  <2>1. CASE MainThread
    <3>1. HeldTypes'
      BY <1>3, <2>1, HeldMain
    <3> QED BY <1>1, <1>3, <2>1, <3>1, PoolStep, ControlMain, DequeueMain, TypePartsNext DEF Next
  <2>2. CASE DequeueThread \/ DecoderThread \/ Client \/ UNCHANGED vars
    BY <1>1, <1>3, <2>2, HeldOthers, PoolStep, ControlOthers, DequeueOthers, TypePartsNext
  <2> QED BY <2>1, <2>2 DEF Next
<1> QED BY <1>2, <1>3

LEMMA TypeInit ==
    ASSUME Init
    PROVE  TypeInv /\ OrderInv /\ KnownInv
<1>1. OrderInv
  BY OrderInit
<1>2. Blocks(NoBlocks) /\ DOMAIN NoBlocks = {} /\ Cardinality(With(NoBlocks, "CLIENT")) = 0
  BY NoBlocksHere, FS_EmptySet
<1>3. HeldTypes
  <2>1. /\ mGraphicBlocks = NoBlocks /\ mGraphicBlockStateCount = [s \in State |-> 0]
        /\ mPendingBuffersToWork = <<>> /\ client = {}
        /\ decoder = [blocks |-> {}, asked |-> FALSE, fed |-> FALSE, resetting |-> FALSE]
    BY DEF Init
  <2>2. mGraphicBlockStateCount["CLIENT"] = 0
    BY <2>1 DEF State
  <2>3. CountInv
    BY <2>1, <2>2, <1>2 DEF CountInv
  <2>4. <<>> \in Seq(Picture)
    OBVIOUS
  <2> QED BY <2>1, <2>3, <2>4, <1>2 DEF HeldTypes
<1>4. PoolTypes
  BY <1>2 DEF Init, PoolTypes
<1>5. ControlTypes /\ DequeueTypes
  BY ChoicesAssumption DEF Init, ControlTypes, DequeueTypes
<1>6. mTaskQueue \in Seq(Task)
  BY DEF Init
<1>7. KnownInv
  <2>1. mTaskQueue = <<>> /\ mPendingBuffersToWork = <<>> /\ decoder.blocks = {}
    BY DEF Init
  <2>2. Ids(<<>>) = {} /\ Elements(<<>>) = {}
    BY DEF Ids, Elements
  <2> QED BY <2>1, <2>2 DEF KnownInv
<1> QED BY <1>1, <1>3, <1>4, <1>5, <1>6, <1>7, TypeParts

\* The variables keep their types in every session, whatever the pool: no handler takes
\* a picture or a block that has no info, and the number of blocks reStartAllocTask()
\* asks for is never negative, although the counts outlive a stop.
THEOREM TypeCorrect == Spec => []TypeOK
<1>1. Init => TypeInv /\ OrderInv /\ KnownInv
  BY TypeInit
<1>2. TypeInv /\ OrderInv /\ KnownInv /\ [Next]_vars => (TypeInv /\ OrderInv /\ KnownInv)'
  BY TypeStep, OrderStep, KnownStep
<1>3. TypeInv => TypeOK
  BY DEF TypeInv
<1> QED BY <1>1, <1>2, <1>3, PTL DEF Spec

-----------------------------------------------------------------------------
(* The blocks of a surface. *)

\* A buffer of the present size is brought by one task, a block is delivered by one;
\* a task of another size has no change of the format before it.
BufsDiffer(s, size) ==
    \A i, j \in 1..Len(s) :
        i # j /\ s[i].type \in Fetched /\ s[j].type \in Fetched /\ s[i].buf.size = size => s[i].buf # s[j].buf
IdsDiffer(s) ==
    \A i, j \in 1..Len(s) : i # j /\ s[i].type = "done" /\ s[j].type = "done" => s[i].id # s[j].id
OldFirst(s, size) ==
    \A i, j \in 1..Len(s) : j < i /\ s[i].type \in Fetched /\ s[i].buf.size # size => s[j].type # "format"

LEMMA TakeDiffers ==
    ASSUME NEW s \in Seq(Task), s # <<>>, NEW size
    PROVE  /\ BufsDiffer(s, size) =>
                  /\ BufsDiffer(Tail(s), size)
                  /\ Head(s).type \in Fetched /\ Head(s).buf.size = size =>
                         \A t \in Elements(Tail(s)) : t.type \in Fetched => t.buf # Head(s).buf
           /\ IdsDiffer(s) =>
                  /\ IdsDiffer(Tail(s))
                  /\ Head(s).type = "done" => \A t \in Elements(Tail(s)) : t.type = "done" => t.id # Head(s).id
           /\ OldFirst(s, size) =>
                  /\ OldFirst(Tail(s), size)
                  /\ Head(s).type = "format" =>
                         \A t \in Elements(Tail(s)) : t.type \in Fetched => t.buf.size = size
<1> DEFINE r == Tail(s)
<1>1. /\ Head(s) = s[1] /\ 1 \in 1..Len(s)
      /\ \A i \in 1..Len(r) : i + 1 \in 1..Len(s) /\ r[i] = s[i + 1] /\ 1 # i + 1 /\ 1 < i + 1
  BY TailElements
<1>2. \A i, j \in 1..Len(r) : (i # j => i + 1 # j + 1) /\ (j < i => j + 1 < i + 1)
  OBVIOUS
<1> HIDE DEF r
<1>3. BufsDiffer(s, size) => BufsDiffer(r, size)
  BY <1>1, <1>2 DEF BufsDiffer
<1>4. BufsDiffer(s, size) /\ Head(s).type \in Fetched /\ Head(s).buf.size = size =>
          \A t \in Elements(r) : t.type \in Fetched => t.buf # Head(s).buf
  <2>1. ASSUME BufsDiffer(s, size), Head(s).type \in Fetched, Head(s).buf.size = size,
               NEW i \in 1..Len(r), r[i].type \in Fetched
        PROVE  r[i].buf # Head(s).buf
    <3>1. i + 1 \in 1..Len(s) /\ r[i] = s[i + 1] /\ 1 # i + 1
      BY <1>1
    <3> QED BY <2>1, <3>1, <1>1 DEF BufsDiffer
  <2> QED BY <2>1 DEF Elements
<1>5. IdsDiffer(s) => IdsDiffer(r)
  BY <1>1, <1>2 DEF IdsDiffer
<1>6. IdsDiffer(s) /\ Head(s).type = "done" => \A t \in Elements(r) : t.type = "done" => t.id # Head(s).id
  <2>1. ASSUME IdsDiffer(s), Head(s).type = "done", NEW i \in 1..Len(r), r[i].type = "done"
        PROVE  r[i].id # Head(s).id
    BY <2>1, <1>1 DEF IdsDiffer
  <2> QED BY <2>1 DEF Elements
<1>7. OldFirst(s, size) => OldFirst(r, size)
  BY <1>1, <1>2 DEF OldFirst
<1>8. OldFirst(s, size) /\ Head(s).type = "format" => \A t \in Elements(r) : t.type \in Fetched => t.buf.size = size
  <2>1. ASSUME OldFirst(s, size), Head(s).type = "format", NEW i \in 1..Len(r), r[i].type \in Fetched
        PROVE  r[i].buf.size = size
    BY <2>1, <1>1 DEF OldFirst
  <2> QED BY <2>1 DEF Elements
<1> QED BY <1>3, <1>4, <1>5, <1>6, <1>7, <1>8 DEF r

LEMMA PostDiffers ==
    ASSUME NEW s \in Seq(Task), NEW t \in Task, NEW size
    PROVE  /\ BufsDiffer(s, size)
                  /\ (t.type \in Fetched =>
                         \A u \in Elements(s) : u.type \in Fetched => u.buf # t.buf) =>
                  BufsDiffer(Append(s, t), size)
           /\ IdsDiffer(s)
                  /\ (t.type = "done" => \A u \in Elements(s) : u.type = "done" => u.id # t.id) =>
                  IdsDiffer(Append(s, t))
           /\ OldFirst(s, size) /\ (t.type \in Fetched => t.buf.size = size) => OldFirst(Append(s, t), size)
<1> DEFINE r == Append(s, t)
           n == Len(s) + 1
<1>1. /\ \A i \in 1..Len(r) : i # n => i \in 1..Len(s) /\ r[i] = s[i]
      /\ r[n] = t /\ Len(r) = n /\ n \in Nat
  <2>1. \A i \in 1..Len(r) : i # n => i \in 1..Len(s)
    BY AppendElements
  <2>2. \A i \in 1..Len(s) : r[i] = s[i]
    BY AppendElements
  <2>3. r[n] = t /\ Len(r) = n /\ n \in Nat
    BY AppendElements
  <2> HIDE DEF r, n
  <2> QED BY <2>1, <2>2, <2>3
<1> HIDE DEF r, n
<1>2. \A i \in 1..Len(r) : i # n => r[i] \in Elements(s)
  BY <1>1 DEF Elements
<1>3. ASSUME BufsDiffer(s, size), t.type \in Fetched => \A u \in Elements(s) : u.type \in Fetched => u.buf # t.buf
      PROVE  BufsDiffer(r, size)
  <2> SUFFICES ASSUME NEW i \in 1..Len(r), NEW j \in 1..Len(r), i # j, r[i].type \in Fetched,
                      r[j].type \in Fetched, r[i].buf.size = size
               PROVE  r[i].buf # r[j].buf
    BY DEF BufsDiffer
  <2>1. CASE i # n /\ j # n
    BY <2>1, <1>1, <1>3 DEF BufsDiffer
  <2>2. CASE i = n \/ j = n
    BY <2>2, <1>1, <1>2, <1>3
  <2> QED BY <2>1, <2>2
<1>4. ASSUME IdsDiffer(s), t.type = "done" => \A u \in Elements(s) : u.type = "done" => u.id # t.id
      PROVE  IdsDiffer(r)
  <2> SUFFICES ASSUME NEW i \in 1..Len(r), NEW j \in 1..Len(r), i # j, r[i].type = "done", r[j].type = "done"
               PROVE  r[i].id # r[j].id
    BY DEF IdsDiffer
  <2>1. CASE i # n /\ j # n
    BY <2>1, <1>1, <1>4 DEF IdsDiffer
  <2>2. CASE i = n \/ j = n
    BY <2>2, <1>1, <1>2, <1>4
  <2> QED BY <2>1, <2>2
<1>5. ASSUME OldFirst(s, size), t.type \in Fetched => t.buf.size = size
      PROVE  OldFirst(r, size)
  <2> SUFFICES ASSUME NEW i \in 1..Len(r), NEW j \in 1..Len(r), j < i, r[i].type \in Fetched,
                      r[i].buf.size # size
               PROVE  r[j].type # "format"
    BY DEF OldFirst
  <2>1. i # n
    BY <1>1, <1>5
  <2>2. j # n
    BY <1>1, <2>1
  <2> QED BY <2>1, <2>2, <1>1, <1>5 DEF OldFirst
<1> QED BY <1>3, <1>4, <1>5 DEF r

\* Of a surface, each block has the buffer the pool names after it, and imports the
\* file of that one; a buffer of the client's is of no block the decoder or the
\* component owns.
NamesOK(bs, raw, next, size, cl) ==
    /\ \A id \in DOMAIN bs :
           /\ bs[id].buf \in DOMAIN raw /\ raw[bs[id].buf] = id
           /\ bs[id].fd = bs[id].buf
           /\ bs[id].state # "CLIENT" => bs[id].buf \notin cl
    /\ \A b, c \in DOMAIN raw : raw[b] = raw[c] => b = c
    /\ \A b \in DOMAIN raw : raw[b] < next /\ b.size = size

\* A task brings a block the client gave back, or a buffer that is of no block yet.
Brings(t, bs, raw, cl) ==
    /\ t.buf \in DOMAIN raw /\ raw[t.buf] = t.id
    /\ t.buf \notin cl
    /\ t.type = "returned" => t.id \in DOMAIN bs /\ bs[t.id].state = "CLIENT"
    /\ t.type = "fetched" => t.id \notin DOMAIN bs

BroughtOK(bs, raw, cl, s, size) ==
    \A t \in Elements(s) : t.type \in Fetched /\ t.buf.size = size => Brings(t, bs, raw, cl)

\* A block is the decoder's, a delivered picture's, or that of a picture that waits.
OwnersOK(bs, held, pictures, s, asked) ==
    /\ \A id \in held :
           /\ bs[id].state # "CLIENT"
           /\ ~asked => bs[id].state = "ACCELERATOR"
           /\ id \notin Ids(pictures)
    /\ \A t \in Elements(s) : t.type = "done" =>
           t.id \notin held /\ bs[t.id].state = "ACCELERATOR" /\ t.id \notin Ids(pictures)
    /\ \A id \in Ids(pictures) : bs[id].state = "COMPONENT"

PicturesDiffer(pictures) ==
    \A i, j \in 1..Len(pictures) : i # j => pictures[i].id # pictures[j].id

QueueOK(s, size) == BufsDiffer(s, size) /\ OldFirst(s, size) /\ IdsDiffer(s)

\* All tasks bring blocks of the size.
OnlyOf(s, size) == \A t \in Elements(s) : t.type \in Fetched => t.buf.size = size

SurfaceInv ==
    /\ NamesOK(mGraphicBlocks, mRawGraphicBlockInfo, mGraphicBufferId, mOutputFormat.size, client)
    /\ BroughtOK(mGraphicBlocks, mRawGraphicBlockInfo, client, mTaskQueue, mOutputFormat.size)
    /\ OwnersOK(mGraphicBlocks, decoder.blocks, mPendingBuffersToWork, mTaskQueue, decoder.asked)
    /\ PicturesDiffer(mPendingBuffersToWork)
    /\ QueueOK(mTaskQueue, mOutputFormat.size)
    /\ Pending => OnlyOf(mTaskQueue, mOutputFormat.size)
    /\ mPendingGraphicBlockBuffer = NoBuffer
    /\ mCompHasError \in {"none", "accAtChange"}

\* What the queue keeps when no block and no picture joins it.
QueueLess(s, r) ==
    /\ \A t \in Elements(r) : t.type \in Fetched \cup {"done"} => t \in Elements(s)
    /\ \A size : QueueOK(s, size) => QueueOK(r, size)

LEMMA LessTaken ==
    ASSUME NEW s \in Seq(Task), s # <<>>
    PROVE  QueueLess(s, Tail(s)) /\ Tail(s) \in Seq(Task)
<1>1. Elements(Tail(s)) \subseteq Elements(s) /\ Tail(s) \in Seq(Task)
  BY TakeElements
<1>2. \A size : QueueOK(s, size) => QueueOK(Tail(s), size)
  BY TakeDiffers DEF QueueOK
<1> QED BY <1>1, <1>2 DEF QueueLess

LEMMA LessPosted ==
    ASSUME NEW s \in Seq(Task), NEW t \in Task, t.type \notin Fetched, t.type # "done"
    PROVE  QueueLess(s, Append(s, t))
<1>1. Elements(Append(s, t)) \subseteq Elements(s) \cup {t}
  BY PostElements
<1>2. \A size : QueueOK(s, size) => QueueOK(Append(s, t), size)
  BY PostDiffers DEF QueueOK
<1> QED BY <1>1, <1>2 DEF QueueLess

LEMMA LessBoth ==
    ASSUME NEW s, NEW r, NEW u, QueueLess(s, r), QueueLess(r, u)
    PROVE  QueueLess(s, u)
  BY DEF QueueLess

LEMMA LessSame ==
    ASSUME NEW s
    PROVE  QueueLess(s, s)
  BY DEF QueueLess

\* Steps that leave the blocks alone.
LEMMA SurfaceLess ==
    ASSUME SurfaceInv, QueueLess(mTaskQueue, mTaskQueue'),
           UNCHANGED <<mGraphicBlocks, mRawGraphicBlockInfo, mGraphicBufferId, mOutputFormat,
                       mPendingOutputFormat, mPendingGraphicBlockBuffer>>,
           Ids(mPendingBuffersToWork') \subseteq Ids(mPendingBuffersToWork),
           PicturesDiffer(mPendingBuffersToWork'),
           decoder'.blocks \subseteq decoder.blocks,
           decoder'.blocks = {} \/ decoder'.asked = decoder.asked,
           client' \subseteq client, mCompHasError' \in {"none", "accAtChange"}
    PROVE  SurfaceInv'
<1>1. NamesOK(mGraphicBlocks, mRawGraphicBlockInfo, mGraphicBufferId, mOutputFormat.size, client')
  BY DEF SurfaceInv, NamesOK
<1>2. BroughtOK(mGraphicBlocks, mRawGraphicBlockInfo, client', mTaskQueue', mOutputFormat.size)
  BY DEF SurfaceInv, BroughtOK, Brings, QueueLess
<1>3. OwnersOK(mGraphicBlocks, decoder'.blocks, mPendingBuffersToWork', mTaskQueue', decoder'.asked)
  BY DEF SurfaceInv, OwnersOK, QueueLess
<1>4. QueueOK(mTaskQueue', mOutputFormat.size)
  BY DEF SurfaceInv, QueueLess
<1>5. Pending => OnlyOf(mTaskQueue', mOutputFormat.size)
  BY DEF SurfaceInv, OnlyOf, QueueLess
<1> QED BY <1>1, <1>2, <1>3, <1>4, <1>5 DEF SurfaceInv, Pending

\* Steps that take no block anywhere.
LEMMA SurfaceMain ==
    ASSUME TypeInv, OrderInv, KnownInv, SurfaceInv,
           \/ Skip \/ DropReturned \/ ReturnedUnknown \/ ReturnedNotOwned \/ DropFetched \/ DropPicture
           \/ onFlush \/ onFlushDone \/ onStart \/ onStop
           \/ TryChange /\ mPendingOutputFormat = NoFormat
    PROVE  SurfaceInv'
<1>1. mTaskQueue # <<>> /\ mTaskQueue' = Tail(mTaskQueue)
  BY DEF Skip, DropReturned, ReturnedUnknown, ReturnedNotOwned, DropFetched, DropPicture,
     onFlush, onFlushDone, onStart, onStop, TryChange, Take
<1>2. QueueLess(mTaskQueue, mTaskQueue')
  BY <1>1, Types, LessTaken
<1> DEFINE task == Head(mTaskQueue)
<1>3. task \in Elements(mTaskQueue) /\ task \in Task
  BY <1>1, Types, TakeElements, TailElements
<1>4. ~ReturnedUnknown /\ ~ReturnedNotOwned
  <2>1. CASE task.type = "returned" /\ ~Obsolete(task.buf)
    <3>1. Brings(task, mGraphicBlocks, mRawGraphicBlockInfo, client)
      BY <2>1, <1>3 DEF SurfaceInv, BroughtOK, Fetched, Obsolete
    <3> QED BY <3>1, <2>1 DEF Brings, ReturnedUnknown, ReturnedNotOwned
  <2>2. CASE ~(task.type = "returned" /\ ~Obsolete(task.buf))
    BY <2>2 DEF ReturnedUnknown, ReturnedNotOwned, Take
  <2> QED BY <2>1, <2>2
<1>5. DropPicture => mComponentState = "FLUSHING"
  <2>1. DropPicture => task.type = "done"
    BY DEF DropPicture, Take
  <2>2. task.type = "done" => task.id \in DOMAIN mGraphicBlocks
    BY <1>3 DEF KnownInv
  <2> QED BY <2>1, <2>2 DEF DropPicture
<1>6. UNCHANGED <<mGraphicBlocks, mRawGraphicBlockInfo, mGraphicBufferId, mOutputFormat,
                  mPendingOutputFormat, mPendingGraphicBlockBuffer, mCompHasError, client>>
  <2>1. onFlushDone => UNCHANGED mCompHasError
    BY DEF onFlushDone, KnownInv
  <2> QED BY <2>1, <1>4, <1>5 DEF Skip, DropReturned, DropFetched, DropPicture,
         onFlush, onFlushDone, onStart, onStop, TryChange, component, format, blocks, pool, outside
<1>7. \/ UNCHANGED mPendingBuffersToWork
      \/ mPendingBuffersToWork' = <<>>
  BY <1>4 DEF Skip, DropReturned, DropFetched, DropPicture,
     onFlush, onFlushDone, onStart, onStop, TryChange, blocks
<1>8. \/ UNCHANGED decoder
      \/ decoder'.blocks = {}
  <2>1. CASE onFlush \/ onStop
    BY <2>1, Types DEF onFlush, onStop
  <2>2. CASE onStart
    BY <2>2 DEF onStart
  <2>3. CASE ~(onFlush \/ onStop \/ onStart)
    BY <2>3, <1>4 DEF Skip, DropReturned, DropFetched, DropPicture, onFlushDone, TryChange, outside
  <2> QED BY <2>1, <2>2, <2>3
<1>9. /\ Ids(mPendingBuffersToWork') \subseteq Ids(mPendingBuffersToWork)
      /\ PicturesDiffer(mPendingBuffersToWork')
  <2>1. Ids(<<>>) = {} /\ PicturesDiffer(<<>>)
    BY DEF Ids, PicturesDiffer
  <2> QED BY <2>1, <1>7 DEF SurfaceInv
<1>10. mCompHasError' \in {"none", "accAtChange"}
  BY <1>6 DEF SurfaceInv
<1> QED BY <1>2, <1>6, <1>8, <1>9, <1>10, SurfaceLess

LEMMA LessOthers ==
    ASSUME TypeInv,
           \/ WaitOver \/ CancelAllocTask \/ onAllocBufferTask \/ FetchRetry \/ UNCHANGED vars
           \/ Client \/ onInputBufferDone \/ ProvidePictureBuffers \/ NotifyFlushDone
           \/ NotifyFlushOrStopDone
    PROVE  QueueLess(mTaskQueue, mTaskQueue')
<1>1. CASE UNCHANGED mTaskQueue
  BY <1>1, LessSame
<1>2. CASE ProvidePictureBuffers
  <2>1. PICK size \in Sizes, num \in Nums :
            mTaskQueue' = Append(mTaskQueue, [type |-> "format", fmt |-> [size |-> size, num |-> num]])
    BY <1>2 DEF ProvidePictureBuffers, Post
  <2>2. PICK t \in Task : mTaskQueue' = Append(mTaskQueue, t) /\ t.type = "format"
    BY <2>1, KindsOfTask DEF Format
  <2> QED BY <2>2, Types, LessPosted DEF Fetched
<1>3. CASE onInputBufferDone \/ NotifyFlushDone \/ NotifyFlushOrStopDone \/ start \/ queue_nb \/ flush_sm \/ stop
  <2>1. PICK type \in {"start", "queue", "flush", "stop", "resetDone", "send", "drainDone"} :
            mTaskQueue' = Append(mTaskQueue, [type |-> type])
    BY <1>3 DEF onInputBufferDone, NotifyFlushDone, NotifyFlushOrStopDone, start, queue_nb, flush_sm, stop, Post
  <2>2. PICK t \in Task : mTaskQueue' = Append(mTaskQueue, t) /\ t.type = type
    BY <2>1, KindsOfTask
  <2> QED BY <2>2, Types, LessPosted DEF Fetched
<1>4. CASE WaitOver \/ CancelAllocTask \/ onAllocBufferTask \/ FetchRetry \/ FlushReturn \/ ReturnBuffer \/ UNCHANGED vars
  <2>1. UNCHANGED mTaskQueue
    BY <1>4 DEF WaitOver, CancelAllocTask, onAllocBufferTask, FetchRetry, FlushReturn, ReturnBuffer, vars
  <2> QED BY <2>1, LessSame
<1> QED BY <1>2, <1>3, <1>4 DEF Client

LEMMA SurfaceOthers ==
    ASSUME TypeInv, OrderInv, KnownInv, SurfaceInv,
           \/ WaitOver \/ CancelAllocTask \/ onAllocBufferTask \/ FetchRetry \/ UNCHANGED vars
           \/ Client \/ onInputBufferDone \/ ProvidePictureBuffers \/ NotifyFlushDone
           \/ NotifyFlushOrStopDone
    PROVE  SurfaceInv'
<1>1. QueueLess(mTaskQueue, mTaskQueue')
  BY LessOthers
<1>2. /\ UNCHANGED <<mGraphicBlocks, mRawGraphicBlockInfo, mGraphicBufferId, mOutputFormat,
                     mPendingOutputFormat, mPendingGraphicBlockBuffer, mCompHasError>>
      /\ client' \subseteq client
  BY DEF WaitOver, CancelAllocTask, onAllocBufferTask, FetchRetry, vars, Client, start, queue_nb,
     flush_sm, FlushReturn, stop, ReturnBuffer, onInputBufferDone, ProvidePictureBuffers, NotifyFlushDone,
     NotifyFlushOrStopDone, component, format, blocks, pool, outside
<1>3. \/ UNCHANGED decoder
      \/ decoder' = [decoder EXCEPT !.asked = TRUE, !.blocks = {}]
      \/ decoder' = [decoder EXCEPT !.fed = FALSE]
      \/ decoder' = [decoder EXCEPT !.resetting = FALSE]
  BY DEF WaitOver, CancelAllocTask, onAllocBufferTask, FetchRetry, vars, Client, start, queue_nb,
     flush_sm, FlushReturn, stop, ReturnBuffer, onInputBufferDone, ProvidePictureBuffers, NotifyFlushDone,
     NotifyFlushOrStopDone, outside
<1>4. decoder'.blocks \subseteq decoder.blocks /\ (decoder'.blocks = {} \/ decoder'.asked = decoder.asked)
  BY <1>3, Types
<1>5. /\ Ids(mPendingBuffersToWork') \subseteq Ids(mPendingBuffersToWork)
      /\ PicturesDiffer(mPendingBuffersToWork')
  <2>1. CASE onInputBufferDone
    <3>1. PICK i \in 1..Len(mPendingBuffersToWork) :
              mPendingBuffersToWork' = [mPendingBuffersToWork EXCEPT ![i].inputDone = TRUE]
      BY <2>1 DEF onInputBufferDone
    <3>2. /\ Len(mPendingBuffersToWork') = Len(mPendingBuffersToWork)
          /\ \A j \in 1..Len(mPendingBuffersToWork) :
                 mPendingBuffersToWork'[j].id = mPendingBuffersToWork[j].id
      BY <3>1, Types DEF Picture
    <3> QED BY <3>2 DEF Ids, PicturesDiffer, SurfaceInv
  <2>2. CASE ~onInputBufferDone
    <3>1. UNCHANGED mPendingBuffersToWork
      BY <2>2 DEF WaitOver, CancelAllocTask, onAllocBufferTask, FetchRetry, vars, Client, start, queue_nb,
         flush_sm, FlushReturn, stop, ReturnBuffer, ProvidePictureBuffers, NotifyFlushDone,
         NotifyFlushOrStopDone, blocks
    <3> QED BY <3>1 DEF SurfaceInv
  <2> QED BY <2>1, <2>2
<1>6. mCompHasError' \in {"none", "accAtChange"}
  BY <1>2 DEF SurfaceInv
<1> QED BY <1>1, <1>2, <1>4, <1>5, <1>6, SurfaceLess

\* A picture of one of the decoder's blocks.
LEMMA SurfacePicture ==
    ASSUME TypeInv, OrderInv, KnownInv, SurfaceInv, PictureReady
    PROVE  SurfaceInv'
<1>1. PICK id \in decoder.blocks, fate \in Fates, inputDone \in BOOLEAN :
          /\ mTaskQueue' = Append(mTaskQueue,
                 [type |-> "done", id |-> id, fate |-> fate, inputDone |-> inputDone])
          /\ decoder' = [decoder EXCEPT !.blocks = @ \ {id}]
  BY DEF PictureReady, Post
<1>2. PICK t \in Task : mTaskQueue' = Append(mTaskQueue, t) /\ t.type = "done" /\ t.id = id
  <2>1. [type |-> "done", id |-> id, fate |-> fate, inputDone |-> inputDone] \in Task
    BY Types, KindsOfTask, ChoicesAssumption
  <2> QED BY <1>1, <2>1
<1>3. Elements(mTaskQueue') \subseteq Elements(mTaskQueue) \cup {t}
  BY <1>2, Types, PostElements
<1>4. /\ ~decoder.asked
      /\ UNCHANGED <<mGraphicBlocks, mPendingBuffersToWork, mRawGraphicBlockInfo, mGraphicBufferId,
             mOutputFormat, mPendingOutputFormat, mPendingGraphicBlockBuffer, mCompHasError, client>>
  BY DEF PictureReady, Decoding, component, format, blocks, pool
<1>5. decoder'.blocks = decoder.blocks \ {id} /\ decoder'.asked = decoder.asked
  BY <1>1, Types
<1>6. /\ mGraphicBlocks[id].state = "ACCELERATOR" /\ id \notin Ids(mPendingBuffersToWork)
      /\ \A u \in Elements(mTaskQueue) : u.type = "done" => u.id # id
  BY <1>4 DEF SurfaceInv, OwnersOK
<1>7. OwnersOK(mGraphicBlocks, decoder'.blocks, mPendingBuffersToWork, mTaskQueue', decoder'.asked)
  BY <1>2, <1>3, <1>5, <1>6 DEF SurfaceInv, OwnersOK
<1>8. QueueOK(mTaskQueue', mOutputFormat.size)
  <2>1. t.type \notin Fetched
    BY <1>2 DEF Fetched
  <2> QED BY <1>2, <1>6, <2>1, Types, PostDiffers DEF SurfaceInv, QueueOK
<1>9. /\ BroughtOK(mGraphicBlocks, mRawGraphicBlockInfo, client, mTaskQueue', mOutputFormat.size)
      /\ Pending => OnlyOf(mTaskQueue', mOutputFormat.size)
  BY <1>2, <1>3 DEF SurfaceInv, BroughtOK, OnlyOf, Fetched
<1> QED BY <1>4, <1>7, <1>8, <1>9 DEF SurfaceInv, Pending

\* What the pool can give is with no one.
LEMMA FreeBuffer ==
    ASSUME TypeInv, mUseBufferQueue, NEW b \in Fetchable
    PROVE  /\ b \in Buffer /\ b.size = mOutputFormat.size /\ b \notin client
           /\ \A u \in Elements(mTaskQueue) : u.type \in Fetched => u.buf # b
           /\ \A id \in DOMAIN mGraphicBlocks : mGraphicBlocks[id].state # "CLIENT" => mGraphicBlocks[id].buf # b
           /\ b \in DOMAIN mRawGraphicBlockInfo => mRawGraphicBlockInfo[b] \in DOMAIN mGraphicBlocks
<1>1. b \in Buffer /\ b.size = mOutputFormat.size /\ b \notin client /\ b \notin InUse
  BY DEF Fetchable, Free
<1>2. ASSUME NEW i \in 1..Len(mTaskQueue), mTaskQueue[i].type \in Fetched PROVE mTaskQueue[i].buf \in InUse
  BY <1>2 DEF InUse, Fetched
<1>3. \A u \in Elements(mTaskQueue) : u.type \in Fetched => u.buf # b
  BY <1>1, <1>2 DEF Elements
<1>4. \A id \in DOMAIN mGraphicBlocks : mGraphicBlocks[id].state # "CLIENT" => mGraphicBlocks[id].buf # b
  BY <1>1 DEF InUse
<1>5. b \in DOMAIN mRawGraphicBlockInfo => mRawGraphicBlockInfo[b] \in DOMAIN mGraphicBlocks
  BY <1>1 DEF InUse
<1> QED BY <1>1, <1>3, <1>4, <1>5

LEMMA SurfaceFetch ==
    ASSUME TypeInv, OrderInv, KnownInv, SurfaceInv, mUseBufferQueue, FetchDone
    PROVE  SurfaceInv'
<1> DEFINE size == mOutputFormat.size
           bs == mGraphicBlocks
           raw == mRawGraphicBlockInfo
<1>1. PICK b \in Fetchable :
          /\ appendOutputGraphicBlock(b)
          /\ mTaskQueue' = Append(mTaskQueue,
                 [type |-> IF IdOf(b) \in DOMAIN bs THEN "returned" ELSE "fetched",
                  buf |-> b, id |-> IdOf(b)])
  BY DEF FetchDone, Post
<1>2. /\ UNCHANGED <<mGraphicBlocks, mPendingBuffersToWork, mOutputFormat, mPendingOutputFormat,
                     mPendingGraphicBlockBuffer, mCompHasError, client, decoder>>
  BY DEF FetchDone, component, format, blocks, outside
<1>3. /\ b \in Buffer /\ b.size = size /\ b \notin client
      /\ \A u \in Elements(mTaskQueue) : u.type \in Fetched => u.buf # b
      /\ \A id \in DOMAIN bs : bs[id].state # "CLIENT" => bs[id].buf # b
      /\ b \in DOMAIN raw => raw[b] \in DOMAIN bs
  BY FreeBuffer
<1>4. PICK t \in Task : /\ mTaskQueue' = Append(mTaskQueue, t)
                        /\ t.type = IF IdOf(b) \in DOMAIN bs THEN "returned" ELSE "fetched"
                        /\ t.buf = b /\ t.id = IdOf(b)
  <2>1. IdOf(b) \in Nat
    BY Types DEF TypeInv, IdOf
  <2>2. [type |-> IF IdOf(b) \in DOMAIN bs THEN "returned" ELSE "fetched", buf |-> b, id |-> IdOf(b)] \in Task
    BY <2>1, <1>3, KindsOfTask DEF Fetched
  <2> QED BY <1>1, <2>2
<1>5. t.type \in Fetched /\ t.type # "done" /\ t.buf.size = size
  BY <1>3, <1>4 DEF Fetched
<1>6. Elements(mTaskQueue') \subseteq Elements(mTaskQueue) \cup {t}
  BY <1>4, Types, PostElements
<1>7. QueueOK(mTaskQueue', size)
  BY <1>3, <1>4, <1>5, Types, PostDiffers DEF SurfaceInv, QueueOK
<1>8. Pending => OnlyOf(mTaskQueue', size)
  BY <1>5, <1>6 DEF SurfaceInv, OnlyOf
<1>9. OwnersOK(bs, decoder.blocks, mPendingBuffersToWork, mTaskQueue', decoder.asked)
  BY <1>5, <1>6 DEF SurfaceInv, OwnersOK
<1>10. /\ DOMAIN raw' = DOMAIN raw \cup {b} /\ raw'[b] = IdOf(b)
       /\ \A c \in DOMAIN raw : raw'[c] = raw[c]
       /\ mGraphicBufferId' >= mGraphicBufferId /\ IdOf(b) < mGraphicBufferId'
       /\ b \notin DOMAIN raw => IdOf(b) = mGraphicBufferId
  <2>1. CASE b \in DOMAIN raw
    <3>1. raw[b] < mGraphicBufferId
      BY <2>1 DEF SurfaceInv, NamesOK
    <3>2. UNCHANGED <<mRawGraphicBlockInfo, mGraphicBufferId>> /\ IdOf(b) = raw[b]
      BY <2>1, <1>1 DEF appendOutputGraphicBlock, IdOf, pool
    <3>3. DOMAIN raw = DOMAIN raw \cup {b}
      BY <2>1
    <3> QED BY <3>1, <3>2, <3>3, <2>1, Types
  <2>2. CASE b \notin DOMAIN raw
    BY <2>2, <1>1, Types DEF appendOutputGraphicBlock, IdOf
  <2> QED BY <2>1, <2>2
<1>11. b \notin DOMAIN raw => \A c \in DOMAIN raw : raw[c] # IdOf(b)
  BY <1>10, Types DEF SurfaceInv, NamesOK, TypeInv
<1>12. NamesOK(bs, raw', mGraphicBufferId', size, client)
  <2>1. \A id \in DOMAIN bs : bs[id].buf \in DOMAIN raw' /\ raw'[bs[id].buf] = id
    BY <1>10 DEF SurfaceInv, NamesOK
  <2>2. ASSUME NEW c \in DOMAIN raw', NEW e \in DOMAIN raw', raw'[c] = raw'[e] PROVE c = e
    <3>1. CASE c \in DOMAIN raw /\ e \in DOMAIN raw
      BY <3>1, <2>2, <1>10 DEF SurfaceInv, NamesOK
    <3>2. CASE c \notin DOMAIN raw \/ e \notin DOMAIN raw
      BY <3>2, <2>2, <1>10, <1>11
    <3> QED BY <3>1, <3>2
  <2>3. \A c \in DOMAIN raw' : raw'[c] < mGraphicBufferId' /\ c.size = size
    <3>1. \A c \in DOMAIN raw : raw[c] < mGraphicBufferId /\ raw[c] \in Nat /\ c.size = size
      BY DEF SurfaceInv, NamesOK, TypeInv
    <3>2. mGraphicBufferId \in Nat /\ mGraphicBufferId' \in Int
      <4>1. mGraphicBufferId' \in {mGraphicBufferId, mGraphicBufferId + 1}
        BY <1>1 DEF appendOutputGraphicBlock, pool
      <4> QED BY <4>1, Types
    <3> QED BY <3>1, <3>2, <1>10, <1>3
  <2>4. \A id \in DOMAIN bs : bs[id].fd = bs[id].buf /\ (bs[id].state # "CLIENT" => bs[id].buf \notin client)
    BY DEF SurfaceInv, NamesOK
  <2> HIDE DEF bs, raw
  <2> QED BY <2>1, <2>2, <2>3, <2>4 DEF NamesOK
<1>13. Brings(t, bs, raw', client)
  <2>1. t.buf \in DOMAIN raw' /\ raw'[t.buf] = t.id /\ t.buf \notin client
    BY <1>3, <1>4, <1>10
  <2>2. t.type = "returned" => t.id \in DOMAIN bs /\ bs[t.id].state = "CLIENT"
    <3>1. t.type = "returned" => t.id \in DOMAIN bs
      BY <1>4
    <3>2. ASSUME t.id \in DOMAIN bs PROVE bs[t.id].buf = b
      <4>1. bs[t.id].buf \in DOMAIN raw /\ raw[bs[t.id].buf] = t.id
        BY <3>2 DEF SurfaceInv, NamesOK
      <4>2. b \in DOMAIN raw
        BY <4>1, <1>11, <1>4
      <4>3. raw[b] = t.id
        BY <4>2, <1>10, <1>4
      <4> QED BY <4>1, <4>2, <4>3 DEF SurfaceInv, NamesOK
    <3> QED BY <3>1, <3>2, <1>3
  <2>3. t.type = "fetched" => t.id \notin DOMAIN bs
    BY <1>4
  <2> QED BY <2>1, <2>2, <2>3 DEF Brings
<1>14. BroughtOK(bs, raw', client, mTaskQueue', size)
  <2>1. ASSUME NEW u \in Elements(mTaskQueue), u.type \in Fetched, u.buf.size = size
        PROVE  Brings(u, bs, raw', client)
    <3>1. Brings(u, bs, raw, client)
      BY <2>1 DEF SurfaceInv, BroughtOK
    <3> QED BY <3>1, <1>10 DEF Brings
  <2> QED BY <2>1, <1>13, <1>6 DEF BroughtOK
<1> HIDE DEF bs, raw, size
<1>15. NamesOK(mGraphicBlocks', mRawGraphicBlockInfo', mGraphicBufferId', mOutputFormat'.size, client')
  BY <1>12, <1>2 DEF bs, raw, size
<1>16. BroughtOK(mGraphicBlocks', mRawGraphicBlockInfo', client', mTaskQueue', mOutputFormat'.size)
  BY <1>14, <1>2 DEF bs, raw, size
<1>17. OwnersOK(mGraphicBlocks', decoder'.blocks, mPendingBuffersToWork', mTaskQueue', decoder'.asked)
  BY <1>9, <1>2 DEF bs
<1> QED BY <1>2, <1>7, <1>8, <1>15, <1>16, <1>17 DEF SurfaceInv, Pending, size

\* A delivery keeps the blocks in order: the component owned those it gives away.
LEMMA DeliverOrder ==
    ASSUME NEW bs, NEW held, NEW pictures \in Seq(Picture), NEW raw, NEW next, NEW size, NEW s, NEW asked,
           mUseBufferQueue, NamesOK(bs, raw, next, size, client), BroughtOK(bs, raw, client, s, size),
           OwnersOK(bs, held, pictures, s, asked), PicturesDiffer(pictures),
           held \subseteq DOMAIN bs, Ids(pictures) \subseteq DOMAIN bs,
           \A t \in Elements(s) : t.type = "done" => t.id \in DOMAIN bs,
           NEW n \in 0..Len(pictures), NEW shown, NEW back, NEW d, Delivers(d, bs, held, pictures, n, shown, back)
    PROVE  /\ NamesOK(d.blocks, raw, next, size, d.client)
           /\ BroughtOK(d.blocks, raw, d.client, s, size)
           /\ OwnersOK(d.blocks, d.decoder, d.pictures, s, asked)
           /\ PicturesDiffer(d.pictures)
           /\ ~d.mistaken
<1>1. n \in Nat /\ Len(pictures) \in Nat /\ \A i \in 1..n : i \in 1..Len(pictures)
  OBVIOUS
<1>2. /\ shown \cup back = {pictures[i].id : i \in 1..n} /\ shown \cap back = {}
      /\ DOMAIN d.blocks = DOMAIN bs
      /\ \A i \in 1..Len(d.pictures) : n + i \in 1..Len(pictures) /\ d.pictures[i] = pictures[n + i]
      /\ d.decoder \subseteq held \cup back
      /\ d.client = client \cup {bs[id].buf : id \in shown}
      /\ Len(d.pictures) \in Nat
  BY DEF Delivers, WithBuffer
<1>3. /\ shown \cup back \subseteq Ids(pictures)
      /\ \A id \in Ids(pictures) : id \in DOMAIN bs /\ bs[id].state = "COMPONENT"
  BY <1>1, <1>2 DEF Ids, OwnersOK
<1>4. /\ Ids(d.pictures) \subseteq Ids(pictures)
      /\ \A id \in Ids(d.pictures) : id \notin shown \cup back
      /\ PicturesDiffer(d.pictures)
  <2>1. Ids(d.pictures) \subseteq Ids(pictures)
    BY <1>2 DEF Ids
  <2>2. ASSUME NEW i \in 1..Len(d.pictures) PROVE d.pictures[i].id \notin shown \cup back
    <3>1. ASSUME NEW j \in 1..n PROVE pictures[j].id # d.pictures[i].id
      <4>1. j \in 1..Len(pictures) /\ n + i \in 1..Len(pictures) /\ j # n + i
        BY <1>1, <1>2
      <4> QED BY <4>1, <1>2 DEF PicturesDiffer
    <3> QED BY <3>1, <1>2
  <2>3. PicturesDiffer(d.pictures)
    <3> SUFFICES ASSUME NEW i \in 1..Len(d.pictures), NEW j \in 1..Len(d.pictures), i # j
                 PROVE  d.pictures[i].id # d.pictures[j].id
      BY DEF PicturesDiffer
    <3>1. n + i \in 1..Len(pictures) /\ n + j \in 1..Len(pictures) /\ n + i # n + j
      BY <1>1, <1>2
    <3> QED BY <3>1, <1>2 DEF PicturesDiffer
  <2>4. \A id \in Ids(d.pictures) : id \notin shown \cup back
    BY <2>2 DEF Ids
  <2> QED BY <2>1, <2>3, <2>4
<1>5. \A id \in DOMAIN bs :
          /\ d.blocks[id].fd = bs[id].fd /\ d.blocks[id].buf = bs[id].buf
          /\ id \in shown => d.blocks[id].state = "CLIENT"
          /\ id \in back => d.blocks[id].state = "ACCELERATOR"
          /\ id \notin shown \cup back => d.blocks[id].state = bs[id].state
  BY DEF Delivers
<1>6. \A id, x \in DOMAIN bs : bs[id].buf = bs[x].buf => id = x
  BY DEF NamesOK
<1>7. NamesOK(d.blocks, raw, next, size, d.client)
  <2>1. ASSUME NEW id \in DOMAIN bs, d.blocks[id].state # "CLIENT" PROVE d.blocks[id].buf \notin d.client
    <3>1. id \notin shown /\ bs[id].state # "CLIENT"
      BY <2>1, <1>3, <1>5
    <3>2. bs[id].buf \notin client
      BY <3>1 DEF NamesOK
    <3>3. \A x \in shown : bs[x].buf # bs[id].buf
      BY <3>1, <1>3, <1>6
    <3> QED BY <3>2, <3>3, <1>2, <1>5
  <2> QED BY <2>1, <1>2, <1>5 DEF NamesOK
<1>8. BroughtOK(d.blocks, raw, d.client, s, size)
  <2> SUFFICES ASSUME NEW t \in Elements(s), t.type \in Fetched, t.buf.size = size
               PROVE  Brings(t, d.blocks, raw, d.client)
    BY DEF BroughtOK
  <2>1. Brings(t, bs, raw, client)
    BY DEF BroughtOK
  <2>2. t.id \notin Ids(pictures)
    BY <2>1, <1>3 DEF Brings, Fetched
  <2>3. \A x \in shown : bs[x].buf # t.buf
    BY <2>1, <2>2, <1>3 DEF Brings, NamesOK
  <2>4. t.buf \notin d.client
    BY <2>1, <2>3, <1>2 DEF Brings
  <2>5. t.type = "returned" => t.id \in DOMAIN d.blocks /\ d.blocks[t.id].state = "CLIENT"
    BY <2>1, <2>2, <1>2, <1>3, <1>5 DEF Brings
  <2> QED BY <2>1, <2>4, <2>5, <1>2 DEF Brings
<1>9. OwnersOK(d.blocks, d.decoder, d.pictures, s, asked)
  <2>1. ASSUME NEW id \in d.decoder
        PROVE  /\ d.blocks[id].state # "CLIENT"
               /\ ~asked => d.blocks[id].state = "ACCELERATOR"
               /\ id \notin Ids(d.pictures)
    <3>1. CASE id \in back
      BY <3>1, <1>3, <1>4, <1>5
    <3>2. CASE id \in held
      <4>1. id \notin Ids(pictures) /\ id \in DOMAIN bs
        BY <3>2 DEF OwnersOK
      <4>2. d.blocks[id].state = bs[id].state
        BY <4>1, <1>3, <1>5
      <4> QED BY <3>2, <4>1, <4>2, <1>4 DEF OwnersOK
    <3> QED BY <3>1, <3>2, <1>2
  <2>2. ASSUME NEW t \in Elements(s), t.type = "done"
        PROVE  t.id \notin d.decoder /\ d.blocks[t.id].state = "ACCELERATOR" /\ t.id \notin Ids(d.pictures)
    <3>1. t.id \notin held /\ bs[t.id].state = "ACCELERATOR" /\ t.id \notin Ids(pictures) /\ t.id \in DOMAIN bs
      BY <2>2 DEF OwnersOK
    <3> QED BY <3>1, <1>2, <1>3, <1>4, <1>5
  <2>3. \A id \in Ids(d.pictures) : d.blocks[id].state = "COMPONENT"
    BY <1>3, <1>4, <1>5
  <2> QED BY <2>1, <2>2, <2>3 DEF OwnersOK
<1>10. ~d.mistaken
  <2>1. pictures # <<>> => pictures[1].id \in Ids(pictures)
    BY <1>1 DEF Ids
  <2>2. d.mistaken = (pictures # <<>> /\ bs[pictures[1].id].state = "ACCELERATOR")
    BY DEF Delivers
  <2> QED BY <2>1, <2>2, <1>3
<1> QED BY <1>4, <1>7, <1>8, <1>9, <1>10

LEMMA SurfaceDelivered ==
    ASSUME TypeInv, SurfaceInv, mUseBufferQueue, NEW bs, Blocks(bs), NEW held, NEW pictures \in Seq(Picture),
           Delivered(mGraphicBlocks, Deliver(bs, held, pictures)),
           UNCHANGED <<mRawGraphicBlockInfo, mGraphicBufferId, mOutputFormat, mPendingOutputFormat,
                       mPendingGraphicBlockBuffer>>,
           QueueLess(mTaskQueue, mTaskQueue'),
           NamesOK(bs, mRawGraphicBlockInfo, mGraphicBufferId, mOutputFormat.size, client),
           BroughtOK(bs, mRawGraphicBlockInfo, client, mTaskQueue', mOutputFormat.size),
           OwnersOK(bs, held, pictures, mTaskQueue', decoder.asked), PicturesDiffer(pictures),
           held \subseteq DOMAIN bs, Ids(pictures) \subseteq DOMAIN bs,
           \A t \in Elements(mTaskQueue') : t.type = "done" => t.id \in DOMAIN bs
    PROVE  SurfaceInv'
<1> DEFINE d == Deliver(bs, held, pictures)
<1>1. PICK n, shown, back : n \in 0..Len(pictures) /\ Delivers(d, bs, held, pictures, n, shown, back)
  BY Types, Delivery
<1>2. /\ mGraphicBlocks' = d.blocks /\ mPendingBuffersToWork' = d.pictures /\ client' = d.client
      /\ decoder' = [decoder EXCEPT !.blocks = d.decoder]
      /\ mCompHasError' = IF d.mistaken THEN "accPending" ELSE "none"
  BY DEF Delivered, reportError
<1> HIDE DEF d
<1>3. decoder'.blocks = d.decoder /\ decoder'.asked = decoder.asked
  BY <1>2, Types
<1>4. /\ NamesOK(d.blocks, mRawGraphicBlockInfo, mGraphicBufferId, mOutputFormat.size, d.client)
      /\ BroughtOK(d.blocks, mRawGraphicBlockInfo, d.client, mTaskQueue', mOutputFormat.size)
      /\ OwnersOK(d.blocks, d.decoder, d.pictures, mTaskQueue', decoder.asked)
      /\ PicturesDiffer(d.pictures)
      /\ ~d.mistaken
  BY <1>1, DeliverOrder
<1>5. QueueOK(mTaskQueue', mOutputFormat.size) /\ (Pending => OnlyOf(mTaskQueue', mOutputFormat.size))
  BY DEF SurfaceInv, QueueLess, OnlyOf
<1> QED BY <1>2, <1>3, <1>4, <1>5 DEF SurfaceInv, Pending

LEMMA LessOrder ==
    ASSUME KnownInv, SurfaceInv, QueueLess(mTaskQueue, mTaskQueue')
    PROVE  /\ BroughtOK(mGraphicBlocks, mRawGraphicBlockInfo, client, mTaskQueue', mOutputFormat.size)
           /\ OwnersOK(mGraphicBlocks, decoder.blocks, mPendingBuffersToWork, mTaskQueue', decoder.asked)
           /\ \A t \in Elements(mTaskQueue') : t.type = "done" => t.id \in DOMAIN mGraphicBlocks
<1>1. BroughtOK(mGraphicBlocks, mRawGraphicBlockInfo, client, mTaskQueue', mOutputFormat.size)
  BY DEF SurfaceInv, BroughtOK, QueueLess
<1>2. OwnersOK(mGraphicBlocks, decoder.blocks, mPendingBuffersToWork, mTaskQueue', decoder.asked)
  BY DEF SurfaceInv, OwnersOK, QueueLess
<1>3. \A t \in Elements(mTaskQueue') : t.type = "done" => t.id \in DOMAIN mGraphicBlocks
  BY DEF KnownInv, QueueLess
<1> QED BY <1>1, <1>2, <1>3

LEMMA SurfaceSend ==
    ASSUME TypeInv, OrderInv, KnownInv, SurfaceInv, mUseBufferQueue,
           sendOutputBufferToWorkIfAnyTask \/ onDrainDone
    PROVE  SurfaceInv'
<1>1. mTaskQueue # <<>> /\ mTaskQueue' = Tail(mTaskQueue)
  BY DEF sendOutputBufferToWorkIfAnyTask, onDrainDone, Take
<1>2. QueueLess(mTaskQueue, mTaskQueue')
  BY <1>1, Types, LessTaken
<1>3. UNCHANGED <<mRawGraphicBlockInfo, mGraphicBufferId, mOutputFormat, mPendingOutputFormat,
                  mPendingGraphicBlockBuffer>>
  BY DEF sendOutputBufferToWorkIfAnyTask, onDrainDone, format, pool
<1>4. CASE onDrainDone /\ mComponentState = "STOPPING"
  <2>1. UNCHANGED <<mGraphicBlocks, mPendingBuffersToWork, decoder, client, mCompHasError>>
    BY <1>4 DEF onDrainDone, component
  <2> QED BY <2>1, <1>2, <1>3, SurfaceLess DEF SurfaceInv
<1>5. CASE ~(onDrainDone /\ mComponentState = "STOPPING")
  <2>1. Delivered(mGraphicBlocks, Deliver(mGraphicBlocks, decoder.blocks, mPendingBuffersToWork))
    BY <1>5 DEF sendOutputBufferToWorkIfAnyTask, onDrainDone
  <2>2. /\ NamesOK(mGraphicBlocks, mRawGraphicBlockInfo, mGraphicBufferId, mOutputFormat.size, client)
        /\ PicturesDiffer(mPendingBuffersToWork)
    BY DEF SurfaceInv
  <2>3. decoder.blocks \subseteq DOMAIN mGraphicBlocks /\ Ids(mPendingBuffersToWork) \subseteq DOMAIN mGraphicBlocks
    BY DEF KnownInv
  <2>4. Blocks(mGraphicBlocks) /\ mPendingBuffersToWork \in Seq(Picture)
    BY Types
  <2> QED BY <2>1, <2>2, <2>3, <2>4, <1>2, <1>3, LessOrder, SurfaceDelivered
<1> QED BY <1>4, <1>5

LEMMA SurfaceDone ==
    ASSUME TypeInv, OrderInv, KnownInv, SurfaceInv, mUseBufferQueue, onOutputBufferDone
    PROVE  SurfaceInv'
<1> DEFINE task == Head(mTaskQueue)
           bs == Taken(task.id)
           pictures == Done(task)
<1>1. /\ mTaskQueue # <<>> /\ task.type = "done" /\ mTaskQueue' = Tail(mTaskQueue)
      /\ task \in Elements(mTaskQueue) /\ task.id \in DOMAIN mGraphicBlocks
      /\ pictures \in Seq(Picture)
      /\ Len(pictures) = Len(mPendingBuffersToWork) + 1
      /\ \A i \in 1..Len(mPendingBuffersToWork) : pictures[i] = mPendingBuffersToWork[i]
      /\ pictures[Len(mPendingBuffersToWork) + 1].id = task.id
      /\ Ids(pictures) = Ids(mPendingBuffersToWork) \cup {task.id}
      /\ Delivered(mGraphicBlocks, Deliver(bs, decoder.blocks, pictures))
  BY DoneParts
<1> HIDE DEF task, pictures
<1>2. /\ Blocks(bs) /\ DOMAIN bs = DOMAIN mGraphicBlocks
      /\ \A i \in DOMAIN mGraphicBlocks :
             /\ bs[i].buf = mGraphicBlocks[i].buf /\ bs[i].fd = mGraphicBlocks[i].fd
             /\ i # task.id => bs[i].state = mGraphicBlocks[i].state
             /\ i = task.id /\ mGraphicBlocks[i].state = "ACCELERATOR" => bs[i].state = "COMPONENT"
  BY Types, TakenBlocks
<1> HIDE DEF bs
<1>3. QueueLess(mTaskQueue, mTaskQueue')
  BY <1>1, Types, LessTaken
<1>4. UNCHANGED <<mRawGraphicBlockInfo, mGraphicBufferId, mOutputFormat, mPendingOutputFormat,
                  mPendingGraphicBlockBuffer>>
  BY DEF onOutputBufferDone, format, pool
<1>5. /\ mGraphicBlocks[task.id].state = "ACCELERATOR"
      /\ task.id \notin decoder.blocks /\ task.id \notin Ids(mPendingBuffersToWork)
  BY <1>1 DEF SurfaceInv, OwnersOK
<1>6. \A t \in Elements(mTaskQueue') : t.type = "done" => t.id # task.id
  BY <1>1, Types, TakeDiffers DEF SurfaceInv, QueueOK, task
<1>7. /\ BroughtOK(mGraphicBlocks, mRawGraphicBlockInfo, client, mTaskQueue', mOutputFormat.size)
      /\ OwnersOK(mGraphicBlocks, decoder.blocks, mPendingBuffersToWork, mTaskQueue', decoder.asked)
      /\ \A t \in Elements(mTaskQueue') : t.type = "done" => t.id \in DOMAIN mGraphicBlocks
  BY <1>3, LessOrder
<1>8. NamesOK(bs, mRawGraphicBlockInfo, mGraphicBufferId, mOutputFormat.size, client)
  <2>1. \A i \in DOMAIN bs : bs[i].state # "CLIENT" => mGraphicBlocks[i].state # "CLIENT"
    BY <1>2, <1>5
  <2> QED BY <2>1, <1>2 DEF SurfaceInv, NamesOK
<1>9. BroughtOK(bs, mRawGraphicBlockInfo, client, mTaskQueue', mOutputFormat.size)
  <2>1. \A i \in DOMAIN bs : mGraphicBlocks[i].state = "CLIENT" => bs[i].state = "CLIENT"
    BY <1>2, <1>5
  <2> QED BY <2>1, <1>2, <1>7 DEF BroughtOK, Brings
<1>10. OwnersOK(bs, decoder.blocks, pictures, mTaskQueue', decoder.asked)
  <2>1. \A i \in decoder.blocks : i \in DOMAIN mGraphicBlocks /\ i # task.id
    BY <1>5 DEF KnownInv
  <2>2. Ids(mPendingBuffersToWork) \subseteq DOMAIN mGraphicBlocks
    BY DEF KnownInv
  <2> QED BY <2>1, <2>2, <1>1, <1>2, <1>5, <1>6, <1>7 DEF OwnersOK
<1>11. PicturesDiffer(pictures)
  <2>1. PicturesDiffer(mPendingBuffersToWork) /\ Len(mPendingBuffersToWork) \in Nat
    BY Types DEF SurfaceInv
  <2>2. \A i \in 1..Len(mPendingBuffersToWork) : pictures[i].id # task.id
    BY <1>1, <1>5 DEF Ids
  <2>3. \A i \in 1..Len(pictures) : i \in 1..Len(mPendingBuffersToWork) \/ i = Len(mPendingBuffersToWork) + 1
    BY <1>1, <2>1
  <2> QED BY <2>1, <2>2, <2>3, <1>1 DEF PicturesDiffer
<1>12. decoder.blocks \subseteq DOMAIN bs /\ Ids(pictures) \subseteq DOMAIN bs
  BY <1>1, <1>2 DEF KnownInv
<1>13. \A t \in Elements(mTaskQueue') : t.type = "done" => t.id \in DOMAIN bs
  BY <1>2, <1>7
<1> QED BY <1>1, <1>2, <1>3, <1>4, <1>8, <1>9, <1>10, <1>11, <1>12, <1>13, SurfaceDelivered

\* The block a task brings back: the pool's name for it is the block's.
LEMMA BroughtBack ==
    ASSUME SurfaceInv, NEW task \in Elements(mTaskQueue), task.type = "returned", ~Obsolete(task.buf)
    PROVE  /\ task.id \in DOMAIN mGraphicBlocks /\ mGraphicBlocks[task.id].state = "CLIENT"
           /\ task.buf \notin client /\ task.buf.size = mOutputFormat.size
           /\ mGraphicBlocks[task.id].buf = task.buf /\ mGraphicBlocks[task.id].fd = task.buf
           /\ task.buf \in DOMAIN mRawGraphicBlockInfo /\ mRawGraphicBlockInfo[task.buf] = task.id
           /\ task.id \notin Ids(mPendingBuffersToWork) /\ task.id \notin decoder.blocks
<1>1. task.buf.size = mOutputFormat.size
  BY DEF Obsolete
<1>2. Brings(task, mGraphicBlocks, mRawGraphicBlockInfo, client)
  BY <1>1 DEF SurfaceInv, BroughtOK, Fetched
<1>3. /\ task.id \in DOMAIN mGraphicBlocks /\ mGraphicBlocks[task.id].state = "CLIENT"
      /\ task.buf \notin client
      /\ task.buf \in DOMAIN mRawGraphicBlockInfo /\ mRawGraphicBlockInfo[task.buf] = task.id
  BY <1>2 DEF Brings
<1>4. mGraphicBlocks[task.id].buf = task.buf /\ mGraphicBlocks[task.id].fd = task.buf
  BY <1>3 DEF SurfaceInv, NamesOK
<1>5. task.id \notin Ids(mPendingBuffersToWork) /\ task.id \notin decoder.blocks
  BY <1>3 DEF SurfaceInv, OwnersOK
<1> QED BY <1>1, <1>3, <1>4, <1>5

\* No other task brings that block.
LEMMA BroughtOnce ==
    ASSUME TypeInv, SurfaceInv, mTaskQueue # <<>>, Head(mTaskQueue).type \in Fetched,
           ~Obsolete(Head(mTaskQueue).buf),
           NEW t \in Elements(Tail(mTaskQueue)), t.type \in Fetched, t.buf.size = mOutputFormat.size
    PROVE  /\ t.buf # Head(mTaskQueue).buf /\ t.id # Head(mTaskQueue).id
           /\ Brings(t, mGraphicBlocks, mRawGraphicBlockInfo, client)
<1> DEFINE task == Head(mTaskQueue)
<1>1. task \in Elements(mTaskQueue) /\ t \in Elements(mTaskQueue)
  BY Types, TakeElements
<1>2. task.buf.size = mOutputFormat.size
  BY DEF Obsolete
<1>3. Brings(task, mGraphicBlocks, mRawGraphicBlockInfo, client) /\ Brings(t, mGraphicBlocks, mRawGraphicBlockInfo, client)
  BY <1>1, <1>2 DEF SurfaceInv, BroughtOK
<1>4. t.buf # task.buf
  BY <1>2, Types, TakeDiffers DEF SurfaceInv, QueueOK
<1> HIDE DEF task
<1>5. t.id # task.id
  BY <1>3, <1>4 DEF Brings, SurfaceInv, NamesOK
<1> QED BY <1>3, <1>4, <1>5 DEF task

LEMMA SurfaceReturned ==
    ASSUME TypeInv, OrderInv, KnownInv, SurfaceInv, mUseBufferQueue,
           onOutputBufferReturned, mPendingOutputFormat = NoFormat
    PROVE  SurfaceInv'
<1> DEFINE task == Head(mTaskQueue)
           bs == BackSent(task)
           held == decoder.blocks \cup {task.id}
<1>1. /\ mTaskQueue # <<>> /\ task.type = "returned" /\ mTaskQueue' = Tail(mTaskQueue)
      /\ task \in Elements(mTaskQueue) /\ task.buf \in Buffer /\ ~Obsolete(task.buf)
      /\ task.id \in DOMAIN mGraphicBlocks
      /\ Delivered(mGraphicBlocks, Deliver(bs, held, mPendingBuffersToWork))
      /\ UNCHANGED <<format, mPendingGraphicBlockBuffer, pool>>
  BY ReturnedParts
<1>2. \A t \in Elements(mTaskQueue') : t.type \in Fetched /\ t.buf.size = mOutputFormat.size =>
          t.id # task.id /\ Brings(t, mGraphicBlocks, mRawGraphicBlockInfo, client)
  BY <1>1, BroughtOnce DEF Fetched
<1> HIDE DEF task
<1>3. /\ mGraphicBlocks[task.id].state = "CLIENT"
      /\ task.buf \notin client /\ task.buf.size = mOutputFormat.size
      /\ mGraphicBlocks[task.id].buf = task.buf /\ mGraphicBlocks[task.id].fd = task.buf
      /\ task.id \notin Ids(mPendingBuffersToWork) /\ task.id \notin decoder.blocks
  BY <1>1, BroughtBack
<1>4. /\ Blocks(bs) /\ DOMAIN bs = DOMAIN mGraphicBlocks
      /\ \A id \in DOMAIN mGraphicBlocks :
             /\ id # task.id => bs[id] = mGraphicBlocks[id]
             /\ bs[id].fd = mGraphicBlocks[id].fd
      /\ bs[task.id].buf = task.buf /\ bs[task.id].state = "ACCELERATOR"
  BY <1>1, <1>3, Types, BackBlocks
<1> HIDE DEF bs
<1>5. QueueLess(mTaskQueue, mTaskQueue')
  BY <1>1, Types, LessTaken
<1>6. /\ BroughtOK(mGraphicBlocks, mRawGraphicBlockInfo, client, mTaskQueue', mOutputFormat.size)
      /\ OwnersOK(mGraphicBlocks, decoder.blocks, mPendingBuffersToWork, mTaskQueue', decoder.asked)
      /\ \A t \in Elements(mTaskQueue') : t.type = "done" => t.id \in DOMAIN mGraphicBlocks
  BY <1>5, LessOrder
<1>7. NamesOK(bs, mRawGraphicBlockInfo, mGraphicBufferId, mOutputFormat.size, client)
  <2>1. \A id \in DOMAIN bs : bs[id].buf = mGraphicBlocks[id].buf
    BY <1>3, <1>4
  <2>2. \A id \in DOMAIN bs : bs[id].state # "CLIENT" => bs[id].buf \notin client
    BY <1>3, <1>4 DEF SurfaceInv, NamesOK
  <2> QED BY <2>1, <2>2, <1>4 DEF SurfaceInv, NamesOK
<1>8. BroughtOK(bs, mRawGraphicBlockInfo, client, mTaskQueue', mOutputFormat.size)
  BY <1>2, <1>4 DEF BroughtOK, Brings
<1>9. OwnersOK(bs, held, mPendingBuffersToWork, mTaskQueue', decoder.asked)
  <2>1. ASSUME NEW id \in held
        PROVE  /\ bs[id].state # "CLIENT" /\ id \notin Ids(mPendingBuffersToWork)
               /\ ~decoder.asked => bs[id].state = "ACCELERATOR"
    <3>1. id \in decoder.blocks => id \in DOMAIN mGraphicBlocks /\ id # task.id
      BY <1>3 DEF KnownInv
    <3> QED BY <3>1, <1>3, <1>4, <1>6 DEF OwnersOK
  <2>2. ASSUME NEW t \in Elements(mTaskQueue'), t.type = "done"
        PROVE  t.id \notin held /\ bs[t.id].state = "ACCELERATOR" /\ t.id \notin Ids(mPendingBuffersToWork)
    <3>1. mGraphicBlocks[t.id].state = "ACCELERATOR" /\ t.id \in DOMAIN mGraphicBlocks
      BY <2>2, <1>6 DEF OwnersOK
    <3>2. t.id # task.id
      BY <3>1, <1>3
    <3> QED BY <3>1, <3>2, <2>2, <1>4, <1>6 DEF OwnersOK
  <2>3. ASSUME NEW id \in Ids(mPendingBuffersToWork) PROVE bs[id].state = "COMPONENT"
    <3>1. id # task.id /\ id \in DOMAIN mGraphicBlocks
      BY <1>3 DEF KnownInv
    <3> QED BY <3>1, <1>4, <1>6 DEF OwnersOK
  <2> HIDE DEF held
  <2> QED BY <2>1, <2>2, <2>3 DEF OwnersOK
<1>10. held \subseteq DOMAIN bs /\ Ids(mPendingBuffersToWork) \subseteq DOMAIN bs
  BY <1>1, <1>4 DEF KnownInv
<1>11. \A t \in Elements(mTaskQueue') : t.type = "done" => t.id \in DOMAIN bs
  BY <1>4, <1>6
<1>12. /\ UNCHANGED <<mRawGraphicBlockInfo, mGraphicBufferId, mOutputFormat, mPendingOutputFormat,
                      mPendingGraphicBlockBuffer>>
       /\ PicturesDiffer(mPendingBuffersToWork) /\ mPendingBuffersToWork \in Seq(Picture)
  BY <1>1, Types DEF format, pool, SurfaceInv
<1> HIDE DEF held
<1> QED BY <1>1, <1>4, <1>5, <1>7, <1>8, <1>9, <1>10, <1>11, <1>12, SurfaceDelivered

LEMMA SurfaceLate ==
    ASSUME TypeInv, OrderInv, KnownInv, SurfaceInv, LatePicture
    PROVE  SurfaceInv'
<1> DEFINE task == Head(mTaskQueue)
           bs == Sent(mGraphicBlocks, {task.id})
<1>1. /\ mTaskQueue # <<>> /\ task.type = "done" /\ mTaskQueue' = Tail(mTaskQueue)
      /\ task.id \in DOMAIN mGraphicBlocks
      /\ mGraphicBlocks' = bs
      /\ decoder' = [decoder EXCEPT !.blocks = @ \cup WithBuffer(bs, {task.id})]
      /\ UNCHANGED <<mRawGraphicBlockInfo, mGraphicBufferId, mOutputFormat, mPendingOutputFormat,
                     mPendingGraphicBlockBuffer, mPendingBuffersToWork, client, mCompHasError>>
  BY DEF LatePicture, Take, component, format, pool
<1>2. \A t \in Elements(mTaskQueue') : t.type = "done" => t.id # task.id
  BY <1>1, Types, TakeDiffers DEF SurfaceInv, QueueOK
<1>3. task \in Elements(mTaskQueue) /\ QueueLess(mTaskQueue, mTaskQueue')
  BY <1>1, Types, TakeElements, LessTaken
<1> HIDE DEF task
<1>4. /\ mGraphicBlocks[task.id].state = "ACCELERATOR"
      /\ task.id \notin Ids(mPendingBuffersToWork)
  BY <1>1, <1>3 DEF SurfaceInv, OwnersOK
<1>5. /\ DOMAIN bs = DOMAIN mGraphicBlocks
      /\ \A id \in DOMAIN mGraphicBlocks :
             /\ bs[id].buf = mGraphicBlocks[id].buf /\ bs[id].fd = mGraphicBlocks[id].fd
             /\ bs[id].state = mGraphicBlocks[id].state
  BY <1>4, Types, SentBlocks
<1> HIDE DEF bs
<1>6. decoder'.blocks \subseteq decoder.blocks \cup {task.id} /\ decoder'.asked = decoder.asked
  BY <1>1, Types DEF WithBuffer
<1>7. /\ BroughtOK(mGraphicBlocks, mRawGraphicBlockInfo, client, mTaskQueue', mOutputFormat.size)
      /\ OwnersOK(mGraphicBlocks, decoder.blocks, mPendingBuffersToWork, mTaskQueue', decoder.asked)
      /\ \A t \in Elements(mTaskQueue') : t.type = "done" => t.id \in DOMAIN mGraphicBlocks
  BY <1>3, LessOrder
<1>8. NamesOK(bs, mRawGraphicBlockInfo, mGraphicBufferId, mOutputFormat.size, client)
  BY <1>5 DEF SurfaceInv, NamesOK
<1>9. BroughtOK(bs, mRawGraphicBlockInfo, client, mTaskQueue', mOutputFormat.size)
  BY <1>5, <1>7 DEF BroughtOK, Brings
<1>10. OwnersOK(bs, decoder'.blocks, mPendingBuffersToWork, mTaskQueue', decoder.asked)
  <2>1. decoder.blocks \subseteq DOMAIN mGraphicBlocks /\ Ids(mPendingBuffersToWork) \subseteq DOMAIN mGraphicBlocks
    BY DEF KnownInv
  <2>2. ASSUME NEW id \in decoder'.blocks
        PROVE  /\ bs[id].state # "CLIENT" /\ id \notin Ids(mPendingBuffersToWork)
               /\ ~decoder.asked => bs[id].state = "ACCELERATOR"
    <3>1. CASE id = task.id
      BY <3>1, <1>1, <1>4, <1>5
    <3>2. CASE id # task.id
      BY <3>2, <2>1, <1>5, <1>6, <1>7 DEF OwnersOK
    <3> QED BY <3>1, <3>2
  <2>3. ASSUME NEW t \in Elements(mTaskQueue'), t.type = "done"
        PROVE  t.id \notin decoder'.blocks /\ bs[t.id].state = "ACCELERATOR" /\ t.id \notin Ids(mPendingBuffersToWork)
    BY <2>3, <1>2, <1>5, <1>6, <1>7 DEF OwnersOK
  <2>4. \A id \in Ids(mPendingBuffersToWork) : bs[id].state = "COMPONENT"
    BY <2>1, <1>5, <1>7 DEF OwnersOK
  <2> QED BY <2>2, <2>3, <2>4 DEF OwnersOK
<1>11. /\ QueueOK(mTaskQueue', mOutputFormat.size) /\ (Pending => OnlyOf(mTaskQueue', mOutputFormat.size))
  BY <1>3 DEF SurfaceInv, QueueLess, OnlyOf
<1> QED BY <1>1, <1>6, <1>8, <1>9, <1>10, <1>11 DEF SurfaceInv, Pending

LEMMA SurfaceFetched ==
    ASSUME TypeInv, OrderInv, KnownInv, SurfaceInv, onNewBlockBufferFetched
    PROVE  SurfaceInv'
<1> DEFINE task == Head(mTaskQueue)
           bs == WithNew(task)
<1>1. /\ mTaskQueue # <<>> /\ task.type = "fetched" /\ mTaskQueue' = Tail(mTaskQueue)
      /\ ~Obsolete(task.buf)
      /\ IF task.buf \in DOMAIN mRawGraphicBlockInfo
         THEN /\ mGraphicBlocks' = bs
              /\ decoder' = [decoder EXCEPT !.blocks = @ \cup {task.id}]
              /\ UNCHANGED mCompHasError
         ELSE TRUE
      /\ UNCHANGED <<mRawGraphicBlockInfo, mGraphicBufferId, mOutputFormat, mPendingOutputFormat,
                     mPendingGraphicBlockBuffer, mPendingBuffersToWork, client>>
  BY DEF onNewBlockBufferFetched, Take, component, format, pool, WithNew
<1>2. \A t \in Elements(mTaskQueue') : t.type \in Fetched /\ t.buf.size = mOutputFormat.size =>
          t.id # task.id /\ Brings(t, mGraphicBlocks, mRawGraphicBlockInfo, client)
  BY <1>1, BroughtOnce DEF Fetched
<1>3. task \in Elements(mTaskQueue) /\ QueueLess(mTaskQueue, mTaskQueue')
  BY <1>1, Types, TakeElements, LessTaken
<1> HIDE DEF task
<1>4. /\ task.buf \in DOMAIN mRawGraphicBlockInfo /\ mRawGraphicBlockInfo[task.buf] = task.id
      /\ task.buf \notin client /\ task.id \notin DOMAIN mGraphicBlocks
  BY <1>1, <1>3 DEF SurfaceInv, BroughtOK, Brings, Fetched, Obsolete
<1>5. /\ DOMAIN bs = DOMAIN mGraphicBlocks \cup {task.id}
      /\ bs[task.id].buf = task.buf /\ bs[task.id].fd = task.buf /\ bs[task.id].state = "ACCELERATOR"
      /\ \A id \in DOMAIN mGraphicBlocks : bs[id] = mGraphicBlocks[id]
  BY <1>4 DEF WithNew
<1> HIDE DEF bs
<1>6. decoder'.blocks = decoder.blocks \cup {task.id} /\ decoder'.asked = decoder.asked
  BY <1>1, <1>4, Types
<1>7. /\ OwnersOK(mGraphicBlocks, decoder.blocks, mPendingBuffersToWork, mTaskQueue', decoder.asked)
      /\ \A t \in Elements(mTaskQueue') : t.type = "done" => t.id \in DOMAIN mGraphicBlocks
  BY <1>3, LessOrder
<1>8. NamesOK(bs, mRawGraphicBlockInfo, mGraphicBufferId, mOutputFormat.size, client)
  BY <1>4, <1>5 DEF SurfaceInv, NamesOK
<1>9. BroughtOK(bs, mRawGraphicBlockInfo, client, mTaskQueue', mOutputFormat.size)
  BY <1>2, <1>5 DEF BroughtOK, Brings
<1>10. OwnersOK(bs, decoder'.blocks, mPendingBuffersToWork, mTaskQueue', decoder.asked)
  <2>1. decoder.blocks \subseteq DOMAIN mGraphicBlocks /\ Ids(mPendingBuffersToWork) \subseteq DOMAIN mGraphicBlocks
    BY DEF KnownInv
  <2> QED BY <2>1, <1>4, <1>5, <1>6, <1>7 DEF OwnersOK
<1>11. /\ QueueOK(mTaskQueue', mOutputFormat.size) /\ (Pending => OnlyOf(mTaskQueue', mOutputFormat.size))
  BY <1>3 DEF SurfaceInv, QueueLess, OnlyOf
<1> QED BY <1>1, <1>4, <1>6, <1>8, <1>9, <1>10, <1>11 DEF SurfaceInv, Pending

LEMMA ReusedBlocks ==
    ASSUME Blocks(mGraphicBlocks)
    PROVE  LET bs == Reused(mGraphicBlocks)
           IN  /\ DOMAIN bs = DOMAIN mGraphicBlocks
               /\ \A id \in DOMAIN mGraphicBlocks :
                      /\ bs[id].buf = mGraphicBlocks[id].buf /\ bs[id].fd = mGraphicBlocks[id].fd
                      /\ bs[id].state = mGraphicBlocks[id].state
                         \/ (mGraphicBlocks[id].state = "COMPONENT" /\ bs[id].state = "ACCELERATOR")
<1> DEFINE own == mFlushDoneBufferOwnedByComp \cap With(mGraphicBlocks, "COMPONENT")
           again == Moved(mGraphicBlocks, own, "ACCELERATOR")
           bs == Sent(again, With(again, "ACCELERATOR"))
<1>1. /\ Blocks(again) /\ DOMAIN again = DOMAIN mGraphicBlocks
      /\ \A id \in DOMAIN mGraphicBlocks :
             /\ again[id].buf = mGraphicBlocks[id].buf /\ again[id].fd = mGraphicBlocks[id].fd
             /\ again[id].state = IF id \in own THEN "ACCELERATOR" ELSE mGraphicBlocks[id].state
  BY MovedBlocks DEF State
<1>2. \A id \in own : mGraphicBlocks[id].state = "COMPONENT"
  BY DEF With
<1> HIDE DEF own, again
<1>3. /\ DOMAIN bs = DOMAIN again
      /\ \A id \in DOMAIN again :
             /\ bs[id].buf = again[id].buf /\ bs[id].fd = again[id].fd
             /\ bs[id].state = IF id \in With(again, "ACCELERATOR") THEN "ACCELERATOR" ELSE again[id].state
  BY <1>1, SentBlocks
<1>4. \A id \in With(again, "ACCELERATOR") : again[id].state = "ACCELERATOR"
  BY DEF With
<1>5. bs = Reused(mGraphicBlocks)
  BY DEF Reused, own, again
<1> HIDE DEF bs
<1> QED BY <1>1, <1>2, <1>3, <1>4, <1>5

LEMMA SurfaceQueueWork ==
    ASSUME TypeInv, OrderInv, KnownInv, SurfaceInv, onQueueWork
    PROVE  SurfaceInv'
<1> DEFINE reuse == mHaveFlushDone /\ mBufferFirstAllocated
           bs == IF reuse THEN Reused(mGraphicBlocks) ELSE mGraphicBlocks
           more == IF reuse THEN WithBuffer(bs, With(bs, "ACCELERATOR")) ELSE {}
<1>1. /\ mTaskQueue # <<>> /\ mTaskQueue' = Tail(mTaskQueue)
      /\ mGraphicBlocks' = bs
      /\ decoder' = [decoder EXCEPT !.fed = TRUE, !.blocks = @ \cup more]
      /\ UNCHANGED <<mRawGraphicBlockInfo, mGraphicBufferId, mOutputFormat, mPendingOutputFormat,
                     mPendingGraphicBlockBuffer, mPendingBuffersToWork, client, mCompHasError>>
  BY DEF onQueueWork, Take, component, format, pool
<1>2. QueueLess(mTaskQueue, mTaskQueue')
  BY <1>1, Types, LessTaken
<1>3. decoder'.blocks = decoder.blocks \cup more /\ decoder'.asked = decoder.asked
  BY <1>1, Types
<1>4. CASE ~reuse
  <2>1. mGraphicBlocks' = mGraphicBlocks /\ decoder'.blocks = decoder.blocks
    BY <1>1, <1>3, <1>4
  <2> QED BY <2>1, <1>1, <1>2, <1>3, SurfaceLess DEF SurfaceInv
<1>5. CASE reuse
  <2>1. /\ DOMAIN bs = DOMAIN mGraphicBlocks
        /\ \A id \in DOMAIN mGraphicBlocks :
               /\ bs[id].buf = mGraphicBlocks[id].buf /\ bs[id].fd = mGraphicBlocks[id].fd
               /\ bs[id].state = mGraphicBlocks[id].state
                  \/ (mGraphicBlocks[id].state = "COMPONENT" /\ bs[id].state = "ACCELERATOR")
    BY <1>5, Types, ReusedBlocks
  <2>2. more \subseteq With(bs, "ACCELERATOR")
    BY DEF WithBuffer
  <2>3. mPendingBuffersToWork = <<>> /\ Lacks(mTaskQueue, "done")
    BY <1>5 DEF OrderInv, FlushInv, Quiet
  <2>4. Ids(mPendingBuffersToWork) = {}
    BY <2>3 DEF Ids
  <2> HIDE DEF bs, more
  <2>5. /\ BroughtOK(mGraphicBlocks, mRawGraphicBlockInfo, client, mTaskQueue', mOutputFormat.size)
        /\ OwnersOK(mGraphicBlocks, decoder.blocks, mPendingBuffersToWork, mTaskQueue', decoder.asked)
    BY <1>2, LessOrder
  <2>6. NamesOK(bs, mRawGraphicBlockInfo, mGraphicBufferId, mOutputFormat.size, client)
    BY <2>1 DEF SurfaceInv, NamesOK
  <2>7. BroughtOK(bs, mRawGraphicBlockInfo, client, mTaskQueue', mOutputFormat.size)
    BY <2>1, <2>5 DEF BroughtOK, Brings
  <2>8. OwnersOK(bs, decoder'.blocks, mPendingBuffersToWork, mTaskQueue', decoder.asked)
    <3>1. \A t \in Elements(mTaskQueue') : t.type # "done"
      <4>1. Lacks(mTaskQueue', "done")
        BY <2>3, <1>1, Types, TakeKeeps
      <4> QED BY <4>1 DEF Lacks, Elements
    <3>2. \A id \in more : bs[id].state = "ACCELERATOR"
      BY <2>2 DEF With
    <3>3. \A id \in decoder.blocks : bs[id].state # "CLIENT" /\ (~decoder.asked => bs[id].state = "ACCELERATOR")
      BY <2>1, <2>5 DEF OwnersOK, KnownInv
    <3> QED BY <3>1, <3>2, <3>3, <2>4, <1>3 DEF OwnersOK
  <2>9. /\ QueueOK(mTaskQueue', mOutputFormat.size) /\ (Pending => OnlyOf(mTaskQueue', mOutputFormat.size))
    BY <1>2 DEF SurfaceInv, QueueLess, OnlyOf
  <2> QED BY <1>1, <1>3, <2>6, <2>7, <2>8, <2>9 DEF SurfaceInv, Pending
<1> QED BY <1>4, <1>5

\* Where there is no block and no task brings one.
LEMMA SurfaceEmptied ==
    ASSUME DOMAIN mGraphicBlocks' = {}, DOMAIN mRawGraphicBlockInfo' = {}, decoder'.blocks = {},
           mPendingBuffersToWork' = <<>>,
           \A t \in Elements(mTaskQueue') : t.type \notin Fetched \cup {"done"},
           QueueOK(mTaskQueue', mOutputFormat'.size),
           mPendingGraphicBlockBuffer' = NoBuffer, mCompHasError' \in {"none", "accAtChange"}
    PROVE  SurfaceInv'
<1>1. Ids(mPendingBuffersToWork') = {} /\ PicturesDiffer(mPendingBuffersToWork')
  BY DEF Ids, PicturesDiffer
<1>2. NamesOK(mGraphicBlocks', mRawGraphicBlockInfo', mGraphicBufferId', mOutputFormat'.size, client')
  BY DEF NamesOK
<1>3. BroughtOK(mGraphicBlocks', mRawGraphicBlockInfo', client', mTaskQueue', mOutputFormat'.size)
  BY DEF BroughtOK
<1>4. OwnersOK(mGraphicBlocks', decoder'.blocks, mPendingBuffersToWork', mTaskQueue', decoder'.asked)
  BY <1>1 DEF OwnersOK
<1>5. OnlyOf(mTaskQueue', mOutputFormat'.size)
  BY DEF OnlyOf
<1> QED BY <1>1, <1>2, <1>3, <1>4, <1>5 DEF SurfaceInv

LEMMA SurfaceStopDone ==
    ASSUME TypeInv, OrderInv, KnownInv, SurfaceInv, onStopDone
    PROVE  SurfaceInv'
<1>1. /\ mTaskQueue # <<>> /\ mTaskQueue' = Tail(mTaskQueue) /\ Head(mTaskQueue).type = "resetDone"
      /\ mComponentState = "STOPPING"
      /\ mGraphicBlocks' = NoBlocks /\ mRawGraphicBlockInfo' = NoBlocks
      /\ mPendingBuffersToWork' = <<>> /\ mPendingGraphicBlockBuffer' = NoBuffer
      /\ decoder'.blocks = {} /\ UNCHANGED <<mOutputFormat, mCompHasError>>
  BY Types DEF onStopDone, Take
<1>2. \A type \in Fetched \cup {"done"} : Lacks(mTaskQueue', type)
  BY <1>1, Types, TakeKeeps DEF OrderInv, ResetInv, Fetched
<1>3. \A t \in Elements(mTaskQueue') : t.type \notin Fetched \cup {"done"}
  BY <1>2 DEF Lacks, Elements
<1>4. QueueOK(mTaskQueue', mOutputFormat'.size)
  <2>1. QueueLess(mTaskQueue, mTaskQueue')
    BY <1>1, Types, LessTaken
  <2> QED BY <2>1, <1>1 DEF QueueLess, SurfaceInv
<1>5. DOMAIN mGraphicBlocks' = {} /\ DOMAIN mRawGraphicBlockInfo' = {}
  BY <1>1, NoBlocksHere
<1>6. mCompHasError' \in {"none", "accAtChange"}
  BY <1>1 DEF SurfaceInv
<1> QED BY <1>1, <1>3, <1>4, <1>5, <1>6, SurfaceEmptied

-----------------------------------------------------------------------------
(* A change of the format of a surface. *)

\* The blocks bs a change starts with are in order, and so are the tasks behind its own.
ChangeOK(bs) ==
    /\ NamesOK(bs, mRawGraphicBlockInfo, mGraphicBufferId, mOutputFormat.size, client)
    /\ BroughtOK(bs, mRawGraphicBlockInfo, client, Tail(mTaskQueue), mOutputFormat.size)
    /\ OnlyOf(Tail(mTaskQueue), mOutputFormat.size)
    /\ \A id \in Ids(mPendingBuffersToWork) : bs[id].state = "COMPONENT"
    /\ \A id \in decoder.blocks : bs[id].state # "CLIENT" /\ id \notin Ids(mPendingBuffersToWork)

\* No picture is behind a change.
LEMMA ChangeAlone ==
    ASSUME TypeInv, OrderInv, mTaskQueue # <<>>, Pending \/ Head(mTaskQueue).type = "format"
    PROVE  /\ decoder.asked
           /\ Lacks(Tail(mTaskQueue), "done") /\ Lacks(Tail(mTaskQueue), "format")
<1>1. CASE Pending
  BY <1>1, Types, TakeKeeps DEF OrderInv, FormatInv
<1>2. CASE Head(mTaskQueue).type = "format"
  BY <1>2, Types, TakeKeeps DEF OrderInv, FormatInv
<1> QED BY <1>1, <1>2

LEMMA ChangeWaits ==
    ASSUME TypeInv, OrderInv, SurfaceInv, NEW bs, NEW fmt, ChangeOK(bs),
           tryChangeOutputFormat(bs, fmt), WaitsForPictures \/ With(bs, "ACCELERATOR") # {},
           mTaskQueue # <<>>, Pending \/ Head(mTaskQueue).type = "format",
           UNCHANGED <<mPendingBuffersToWork, client>>
    PROVE  SurfaceInv'
<1>1. /\ mGraphicBlocks' = bs
      /\ UNCHANGED <<mOutputFormat, mPendingGraphicBlockBuffer, mRawGraphicBlockInfo, mGraphicBufferId, decoder>>
      /\ mCompHasError' \in {mCompHasError, "accAtChange"}
      /\ \/ mTaskQueue' = Tail(mTaskQueue)
         \/ mTaskQueue' = Append(Tail(mTaskQueue), [type |-> "tryChange"])
  BY DEF tryChangeOutputFormat, component, pool, reportError
<1>2. /\ QueueLess(mTaskQueue, Tail(mTaskQueue)) /\ QueueLess(Tail(mTaskQueue), mTaskQueue')
      /\ QueueLess(mTaskQueue, mTaskQueue')
  <2>1. QueueLess(mTaskQueue, Tail(mTaskQueue)) /\ Tail(mTaskQueue) \in Seq(Task)
    BY Types, LessTaken
  <2>2. QueueLess(Tail(mTaskQueue), Append(Tail(mTaskQueue), [type |-> "tryChange"]))
    <3>1. PICK t \in Task : t = [type |-> "tryChange"]
      BY KindsOfTask
    <3> QED BY <2>1, <3>1, LessPosted DEF Fetched
  <2>3. QueueLess(Tail(mTaskQueue), mTaskQueue')
    BY <1>1, <2>2, LessSame
  <2> QED BY <2>1, <2>3, LessBoth
<1>3. decoder.asked /\ \A t \in Elements(mTaskQueue') : t.type # "done"
  <2>1. decoder.asked /\ Lacks(Tail(mTaskQueue), "done")
    BY ChangeAlone
  <2>2. \A t \in Elements(Tail(mTaskQueue)) : t.type # "done"
    BY <2>1 DEF Lacks, Elements
  <2> QED BY <2>1, <2>2, <1>2 DEF QueueLess
<1>4. BroughtOK(bs, mRawGraphicBlockInfo, client, mTaskQueue', mOutputFormat.size)
  BY <1>2 DEF ChangeOK, BroughtOK, QueueLess
<1>5. OnlyOf(mTaskQueue', mOutputFormat.size)
  BY <1>2 DEF ChangeOK, OnlyOf, QueueLess
<1>6. OwnersOK(bs, decoder.blocks, mPendingBuffersToWork, mTaskQueue', decoder.asked)
  BY <1>3 DEF ChangeOK, OwnersOK
<1>7. QueueOK(mTaskQueue', mOutputFormat.size)
  BY <1>2 DEF SurfaceInv, QueueLess
<1>8. NamesOK(bs, mRawGraphicBlockInfo, mGraphicBufferId, mOutputFormat.size, client)
  BY DEF ChangeOK
<1>9. mCompHasError' \in {"none", "accAtChange"} /\ PicturesDiffer(mPendingBuffersToWork)
  BY <1>1 DEF SurfaceInv
<1> QED BY <1>1, <1>4, <1>5, <1>6, <1>7, <1>8, <1>9 DEF SurfaceInv

\* A queue whose tasks bring blocks of no such size.
LEMMA NoneOfSize ==
    ASSUME NEW s, NEW size, Lacks(s, "done"), Lacks(s, "format"),
           \A t \in Elements(s) : t.type \in Fetched => t.buf.size # size
    PROVE  QueueOK(s, size)
<1>1. \A i \in 1..Len(s) : s[i].type \in Fetched => s[i].buf.size # size
  BY DEF Elements
<1> QED BY <1>1 DEF QueueOK, BufsDiffer, IdsDiffer, OldFirst, Lacks

\* The first blocks all have buffers of their own.
LEMMA FirstDiffer ==
    ASSUME NEW S, NEW first \in [0..FirstBlocks - 1 -> S],
           Cardinality({first[id] : id \in DOMAIN first}) = FirstBlocks
    PROVE  \A id, x \in DOMAIN first : first[id] = first[x] => id = x
<1> DEFINE I == 0..FirstBlocks - 1
           G == {first[id] : id \in DOMAIN first}
<1>1. FirstBlocks \in Nat
  BY NumsAssumption
<1>2. IsFiniteSet(I) /\ Cardinality(I) = FirstBlocks
  <2>1. IsFiniteSet(0..FirstBlocks - 1)
        /\ Cardinality(0..FirstBlocks - 1) = IF 0 > FirstBlocks - 1 THEN 0 ELSE (FirstBlocks - 1) - 0 + 1
    BY <1>1, FS_Interval
  <2> QED BY <1>1, <2>1
<1>3. first \in Surjection(I, G)
  BY DEF Surjection
<1> HIDE DEF I
<1>4. Cardinality(G) = Cardinality(I)
  BY <1>2
<1>5. first \in Injection(I, G)
  <2> HIDE DEF G
  <2> QED BY <1>2, <1>3, <1>4, FS_Surjection
<1> QED BY <1>5 DEF Injection, IsInjective, I

LEMMA ChangeFirst ==
    ASSUME TypeInv, OrderInv, SurfaceInv, ~mBufferFirstAllocated, NEW fmt \in Format,
           allocateBuffersFromBlockPool(fmt), mOutputFormat' = fmt, mPendingOutputFormat' = NoFormat,
           mTaskQueue # <<>>, mTaskQueue' = Tail(mTaskQueue),
           UNCHANGED <<mPendingBuffersToWork, client, mCompHasError>>
    PROVE  SurfaceInv'
<1>1. PICK first \in [0..FirstBlocks - 1 -> {b \in Buffer : b.size = fmt.size} \ client] :
        LET bs == [id \in DOMAIN first |->
                      [buf |-> first[id], fd |-> first[id], state |-> "ACCELERATOR", fdSet |-> TRUE]]
            given == {first[id] : id \in DOMAIN first}
        IN  /\ Cardinality(given) = FirstBlocks
            /\ mGraphicBlocks' = bs
            /\ mRawGraphicBlockInfo' = [b \in given |-> CHOOSE id \in DOMAIN first : first[id] = b]
            /\ mGraphicBufferId' = FirstBlocks
            /\ decoder' = [decoder EXCEPT !.blocks = DOMAIN bs, !.asked = FALSE]
            /\ UNCHANGED mPendingGraphicBlockBuffer
  BY DEF allocateBuffersFromBlockPool
<1> DEFINE bs == [id \in DOMAIN first |->
                      [buf |-> first[id], fd |-> first[id], state |-> "ACCELERATOR", fdSet |-> TRUE]]
           given == {first[id] : id \in DOMAIN first}
           raw == [b \in given |-> CHOOSE id \in DOMAIN first : first[id] = b]
<1>2. /\ mGraphicBlocks' = bs /\ mRawGraphicBlockInfo' = raw /\ mGraphicBufferId' = FirstBlocks
      /\ decoder' = [decoder EXCEPT !.blocks = DOMAIN bs, !.asked = FALSE]
      /\ UNCHANGED mPendingGraphicBlockBuffer
      /\ Cardinality(given) = FirstBlocks
  BY <1>1
<1>3. /\ DOMAIN bs = DOMAIN first
      /\ \A id \in DOMAIN first : bs[id].buf = first[id] /\ bs[id].fd = first[id] /\ bs[id].state = "ACCELERATOR"
  OBVIOUS
<1>4. /\ DOMAIN first = 0..FirstBlocks - 1 /\ FirstBlocks \in Nat
      /\ \A id \in DOMAIN first : first[id].size = fmt.size /\ first[id] \notin client
  BY NumsAssumption
<1>5. \A id, x \in DOMAIN first : first[id] = first[x] => id = x
  <2> DEFINE S == {b \in Buffer : b.size = fmt.size} \ client
  <2>1. Cardinality(given) = FirstBlocks /\ first \in [0..FirstBlocks - 1 -> S]
    BY <1>2
  <2> HIDE DEF S
  <2> QED BY <2>1, FirstDiffer
<1>6. DOMAIN raw = given /\ \A id \in DOMAIN first : first[id] \in given /\ raw[first[id]] = id
  <2> SUFFICES ASSUME NEW id \in DOMAIN first PROVE raw[first[id]] = id
    OBVIOUS
  <2>1. raw[first[id]] = CHOOSE x \in DOMAIN first : first[x] = first[id]
    OBVIOUS
  <2>2. (CHOOSE x \in DOMAIN first : first[x] = first[id]) = id
    BY <1>5
  <2> QED BY <2>1, <2>2
<1>7. decoder'.blocks = DOMAIN first /\ decoder'.asked = FALSE
  <2>1. decoder' = [decoder EXCEPT !.blocks = DOMAIN first, !.asked = FALSE]
    BY <1>2, <1>3
  <2> QED BY <2>1, Types
<1>8. \A b \in given : \E id \in DOMAIN first : b = first[id]
  OBVIOUS
<1> HIDE DEF bs, raw, given
<1>9. /\ mPendingBuffersToWork = <<>>
      /\ \A type \in {"returned", "fetched", "done"} : Lacks(mTaskQueue', type)
  <2>1. /\ mPendingBuffersToWork = <<>>
        /\ \A type \in {"returned", "fetched", "done"} : Lacks(mTaskQueue, type)
    BY DEF OrderInv, EmptyInv
  <2> QED BY <2>1, Types, TakeKeeps
<1>10. \A t \in Elements(mTaskQueue') : t.type \notin Fetched /\ t.type # "done"
  BY <1>9 DEF Lacks, Elements, Fetched
<1>11. NamesOK(bs, raw, FirstBlocks, fmt.size, client)
  <2>1. \A b, c \in DOMAIN raw : raw[b] = raw[c] => b = c
    BY <1>6, <1>8
  <2>2. \A b \in DOMAIN raw : raw[b] < FirstBlocks /\ b.size = fmt.size
    BY <1>4, <1>6, <1>8
  <2> QED BY <2>1, <2>2, <1>3, <1>4, <1>6 DEF NamesOK
<1>12. BroughtOK(bs, raw, client, mTaskQueue', fmt.size)
  BY <1>10 DEF BroughtOK
<1>13. Ids(<<>>) = {} /\ PicturesDiffer(<<>>)
  BY DEF Ids, PicturesDiffer
<1>14. OwnersOK(bs, decoder'.blocks, <<>>, mTaskQueue', decoder'.asked)
  BY <1>3, <1>7, <1>10, <1>13 DEF OwnersOK
<1>15. QueueOK(mTaskQueue', fmt.size)
  BY <1>9 DEF QueueOK, BufsDiffer, IdsDiffer, OldFirst, Lacks, Fetched
<1>16. UNCHANGED <<mPendingBuffersToWork, client, mCompHasError>> /\ ~Pending'
  BY DEF Pending
<1> QED BY <1>2, <1>9, <1>11, <1>12, <1>13, <1>14, <1>15, <1>16 DEF SurfaceInv

LEMMA ChangeDrops ==
    ASSUME TypeInv, OrderInv, SurfaceInv, NEW bs, ChangeOK(bs), NEW fmt \in Format,
           fmt.size # mOutputFormat.size, DropBlocks(bs, fmt), mUseBufferQueue,
           mOutputFormat' = fmt, mPendingOutputFormat' = NoFormat,
           mTaskQueue # <<>>, mTaskQueue' = Tail(mTaskQueue), mPendingBuffersToWork = <<>>,
           Pending \/ Head(mTaskQueue).type = "format",
           UNCHANGED <<mPendingBuffersToWork, client, mCompHasError>>
    PROVE  SurfaceInv'
<1>1. /\ mGraphicBlocks' = NoBlocks /\ mRawGraphicBlockInfo' = NoBlocks
      /\ mPendingGraphicBlockBuffer' \in {NoBuffer, mPendingGraphicBlockBuffer}
      /\ decoder' = [decoder EXCEPT !.blocks = {}, !.asked = FALSE]
  BY DEF DropBlocks
<1>2. decoder'.blocks = {} /\ mPendingGraphicBlockBuffer' = NoBuffer
      /\ DOMAIN mGraphicBlocks' = {} /\ DOMAIN mRawGraphicBlockInfo' = {}
  BY <1>1, Types, NoBlocksHere DEF SurfaceInv
<1>3. Lacks(mTaskQueue', "done") /\ Lacks(mTaskQueue', "format")
  BY ChangeAlone
<1>4. \A t \in Elements(mTaskQueue') : t.type # "done" /\ (t.type \in Fetched => t.buf.size # fmt.size)
  BY <1>3 DEF ChangeOK, OnlyOf, Lacks, Elements
<1>5. QueueOK(mTaskQueue', fmt.size)
  BY <1>3, <1>4, NoneOfSize
<1>6. Ids(<<>>) = {} /\ PicturesDiffer(<<>>)
  BY DEF Ids, PicturesDiffer
<1>7. NamesOK(mGraphicBlocks', mRawGraphicBlockInfo', mGraphicBufferId', fmt.size, client)
  BY <1>2 DEF NamesOK
<1>8. BroughtOK(mGraphicBlocks', mRawGraphicBlockInfo', client, mTaskQueue', fmt.size)
  BY <1>4 DEF BroughtOK
<1>9. OwnersOK(mGraphicBlocks', decoder'.blocks, <<>>, mTaskQueue', decoder'.asked)
  BY <1>2, <1>4, <1>6 DEF OwnersOK
<1> QED BY <1>2, <1>5, <1>6, <1>7, <1>8, <1>9 DEF SurfaceInv, Pending

LEMMA ChangeSends ==
    ASSUME TypeInv, OrderInv, SurfaceInv, NEW bs, Blocks(bs), ChangeOK(bs), NEW fmt \in Format,
           fmt.size = mOutputFormat.size, SendBlocks(bs),
           mOutputFormat' = fmt, mPendingOutputFormat' = NoFormat,
           mTaskQueue # <<>>, mTaskQueue' = Tail(mTaskQueue), mPendingBuffersToWork = <<>>,
           Pending \/ Head(mTaskQueue).type = "format",
           UNCHANGED <<mPendingBuffersToWork, client, mCompHasError>>
    PROVE  SurfaceInv'
<1> DEFINE own == With(bs, "COMPONENT")
           after == Sent(Unset(bs), own)
<1>1. /\ mGraphicBlocks' = after
      /\ decoder' = [decoder EXCEPT !.blocks = WithBuffer(bs, own), !.asked = FALSE]
      /\ UNCHANGED <<mPendingGraphicBlockBuffer, mRawGraphicBlockInfo, mGraphicBufferId>>
  BY DEF SendBlocks, Unset, pool
<1>2. decoder'.blocks = WithBuffer(bs, own) /\ decoder'.asked = FALSE
  <2> HIDE DEF own
  <2> QED BY <1>1, Types
<1>3. /\ Blocks(Unset(bs)) /\ DOMAIN Unset(bs) = DOMAIN bs
      /\ \A id \in DOMAIN bs :
             /\ Unset(bs)[id].buf = bs[id].buf /\ Unset(bs)[id].fd = bs[id].fd
             /\ Unset(bs)[id].state = bs[id].state
  BY UnsetBlocks
<1>4. \A id \in own : bs[id].state = "COMPONENT"
  BY DEF With
<1> HIDE DEF own
<1>5. /\ DOMAIN after = DOMAIN bs
      /\ \A id \in DOMAIN bs :
             /\ after[id].buf = bs[id].buf /\ after[id].fd = bs[id].fd
             /\ after[id].state = IF id \in own THEN "ACCELERATOR" ELSE bs[id].state
  BY <1>3, SentBlocks
<1> HIDE DEF after
<1>6. NamesOK(after, mRawGraphicBlockInfo, mGraphicBufferId, fmt.size, client)
  <2>1. \A id \in DOMAIN bs : after[id].state # "CLIENT" => bs[id].state # "CLIENT"
    BY <1>4, <1>5
  <2> QED BY <2>1, <1>5 DEF ChangeOK, NamesOK
<1>7. BroughtOK(after, mRawGraphicBlockInfo, client, mTaskQueue', fmt.size)
  <2>1. \A id \in DOMAIN bs : bs[id].state = "CLIENT" => after[id].state = "CLIENT"
    BY <1>4, <1>5
  <2> QED BY <2>1, <1>5 DEF ChangeOK, BroughtOK, Brings
<1>8. Ids(<<>>) = {} /\ PicturesDiffer(<<>>)
  BY DEF Ids, PicturesDiffer
<1>9. OwnersOK(after, decoder'.blocks, <<>>, mTaskQueue', decoder'.asked)
  <2>1. \A id \in decoder'.blocks : id \in own /\ id \in DOMAIN bs
    BY <1>2 DEF WithBuffer
  <2>2. \A t \in Elements(mTaskQueue') : t.type # "done"
    BY ChangeAlone DEF Lacks, Elements
  <2> QED BY <2>1, <2>2, <1>5, <1>8 DEF OwnersOK
<1>10. QueueOK(mTaskQueue', fmt.size)
  BY Types, LessTaken DEF SurfaceInv, QueueLess
<1>11. UNCHANGED <<mPendingBuffersToWork, client, mCompHasError>> /\ ~Pending'
  BY DEF Pending
<1> QED BY <1>1, <1>6, <1>7, <1>8, <1>9, <1>10, <1>11 DEF SurfaceInv

LEMMA ChangeSurface ==
    ASSUME TypeInv, OrderInv, SurfaceInv, mUseBufferQueue, NEW bs, Blocks(bs), ChangeOK(bs), NEW fmt \in Format,
           tryChangeOutputFormat(bs, fmt), mTaskQueue # <<>>, Pending \/ Head(mTaskQueue).type = "format",
           UNCHANGED <<mPendingBuffersToWork, client>>
    PROVE  SurfaceInv'
<1>1. CASE WaitsForPictures \/ With(bs, "ACCELERATOR") # {}
  BY <1>1, ChangeWaits
<1>2. CASE ~(WaitsForPictures \/ With(bs, "ACCELERATOR") # {})
  <2>1. /\ mTaskQueue' = Tail(mTaskQueue)
        /\ mPendingOutputFormat' = NoFormat /\ mOutputFormat' = fmt
        /\ IF mBufferFirstAllocated THEN videoResolutionChange(bs, fmt)
                                    ELSE allocateBuffersFromBlockPool(fmt)
        /\ UNCHANGED mCompHasError
        /\ mPendingBuffersToWork = <<>>
    BY <1>2 DEF tryChangeOutputFormat, component, WaitsForPictures
  <2>2. CASE ~mBufferFirstAllocated
    BY <2>1, <2>2, ChangeFirst
  <2>3. CASE mBufferFirstAllocated
    <3>1. \/ (fmt.size # mOutputFormat.size /\ DropBlocks(bs, fmt))
          \/ (fmt.size = mOutputFormat.size /\ SendBlocks(bs))
      BY <2>1, <2>3 DEF videoResolutionChange, isReallocateOutputBuffer
    <3> QED BY <3>1, <2>1, ChangeDrops, ChangeSends
  <2> QED BY <2>2, <2>3
<1> QED BY <1>1, <1>2

LEMMA SurfaceChanges ==
    ASSUME TypeInv, OrderInv, KnownInv, SurfaceInv, mUseBufferQueue, Changes
    PROVE  SurfaceInv'
<1> DEFINE rest == Tail(mTaskQueue)
<1>1. UNCHANGED <<mPendingBuffersToWork, client>>
  BY DEF Changes, TryChange, onOutputFormatChanged, onOutputBufferReturned
<1>2. mTaskQueue # <<>>
  BY DEF Changes, TryChange, onOutputFormatChanged, onOutputBufferReturned
<1>3. QueueLess(mTaskQueue, rest)
  BY <1>2, Types, LessTaken
<1> HIDE DEF rest
<1>4. /\ NamesOK(mGraphicBlocks, mRawGraphicBlockInfo, mGraphicBufferId, mOutputFormat.size, client)
      /\ BroughtOK(mGraphicBlocks, mRawGraphicBlockInfo, client, rest, mOutputFormat.size)
      /\ Pending => OnlyOf(rest, mOutputFormat.size)
      /\ \A id \in Ids(mPendingBuffersToWork) :
             id \in DOMAIN mGraphicBlocks /\ mGraphicBlocks[id].state = "COMPONENT"
      /\ \A id \in decoder.blocks :
             /\ id \in DOMAIN mGraphicBlocks /\ mGraphicBlocks[id].state # "CLIENT"
             /\ id \notin Ids(mPendingBuffersToWork)
  <2>1. BroughtOK(mGraphicBlocks, mRawGraphicBlockInfo, client, rest, mOutputFormat.size)
    BY <1>3 DEF SurfaceInv, BroughtOK, QueueLess
  <2>2. Pending => OnlyOf(rest, mOutputFormat.size)
    BY <1>3 DEF SurfaceInv, OnlyOf, QueueLess
  <2>3. /\ \A id \in Ids(mPendingBuffersToWork) : mGraphicBlocks[id].state = "COMPONENT"
        /\ \A id \in decoder.blocks :
               mGraphicBlocks[id].state # "CLIENT" /\ id \notin Ids(mPendingBuffersToWork)
    BY DEF SurfaceInv, OwnersOK
  <2>4. Ids(mPendingBuffersToWork) \subseteq DOMAIN mGraphicBlocks /\ decoder.blocks \subseteq DOMAIN mGraphicBlocks
    BY DEF KnownInv
  <2> QED BY <2>1, <2>2, <2>3, <2>4 DEF SurfaceInv
<1>5. CASE TryChange /\ mPendingOutputFormat # NoFormat
  <2>1. tryChangeOutputFormat(mGraphicBlocks, mPendingOutputFormat) /\ Pending
    BY <1>5 DEF TryChange, Pending
  <2>2. ChangeOK(mGraphicBlocks)
    BY <2>1, <1>4 DEF ChangeOK, rest
  <2>3. mPendingOutputFormat \in Format /\ Blocks(mGraphicBlocks)
    BY <1>5, Types
  <2> QED BY <2>1, <2>2, <2>3, <1>1, <1>2, ChangeSurface
<1>6. CASE onOutputFormatChanged
  <2> DEFINE bs == Moved(mGraphicBlocks, With(mGraphicBlocks, "ACCELERATOR"), "COMPONENT")
  <2>1. /\ tryChangeOutputFormat(bs, Head(mTaskQueue).fmt)
        /\ Head(mTaskQueue).type = "format"
    BY <1>6 DEF onOutputFormatChanged
  <2>2. Head(mTaskQueue).fmt \in Format
    BY <1>2, <2>1, Types, TailElements, TaskKinds
  <2>3. /\ Blocks(bs) /\ DOMAIN bs = DOMAIN mGraphicBlocks
        /\ \A id \in DOMAIN mGraphicBlocks :
               /\ bs[id].buf = mGraphicBlocks[id].buf /\ bs[id].fd = mGraphicBlocks[id].fd
               /\ bs[id].state = IF id \in With(mGraphicBlocks, "ACCELERATOR") THEN "COMPONENT"
                                                                               ELSE mGraphicBlocks[id].state
    <3>1. "COMPONENT" \in State
      BY DEF State
    <3> QED BY <3>1, Types, MovedBlocks
  <2> HIDE DEF bs
  <2>4. \A id \in DOMAIN mGraphicBlocks :
            /\ mGraphicBlocks[id].state = "CLIENT" <=> bs[id].state = "CLIENT"
            /\ mGraphicBlocks[id].state = "COMPONENT" => bs[id].state = "COMPONENT"
    BY <2>3 DEF With
  <2>5. OnlyOf(rest, mOutputFormat.size)
    BY <1>2, <2>1, Types, TakeDiffers DEF SurfaceInv, QueueOK, OnlyOf, rest
  <2>6. ChangeOK(bs)
    <3>1. NamesOK(bs, mRawGraphicBlockInfo, mGraphicBufferId, mOutputFormat.size, client)
      BY <1>4, <2>3, <2>4 DEF NamesOK
    <3>2. BroughtOK(bs, mRawGraphicBlockInfo, client, rest, mOutputFormat.size)
      BY <1>4, <2>3, <2>4 DEF BroughtOK, Brings
    <3> QED BY <3>1, <3>2, <2>4, <2>5, <1>4 DEF ChangeOK, rest
  <2> QED BY <2>1, <2>2, <2>3, <2>6, <1>1, <1>2, ChangeSurface
<1>7. CASE onOutputBufferReturned /\ mPendingOutputFormat # NoFormat
  <2> DEFINE task == Head(mTaskQueue)
             bs == Back(task)
  <2>1. /\ tryChangeOutputFormat(bs, mPendingOutputFormat) /\ Pending
        /\ task.type = "returned" /\ task \in Elements(mTaskQueue)
        /\ task.buf \in Buffer /\ task.id \in DOMAIN mGraphicBlocks /\ ~Obsolete(task.buf)
    BY <1>7, ReturnedParts DEF Pending
  <2>2. \A t \in Elements(rest) : t.type \in Fetched /\ t.buf.size = mOutputFormat.size =>
            t.id # task.id /\ Brings(t, mGraphicBlocks, mRawGraphicBlockInfo, client)
    BY <1>2, <2>1, BroughtOnce DEF Fetched, rest
  <2> HIDE DEF task
  <2>3. /\ task.buf \notin client
        /\ mGraphicBlocks[task.id].buf = task.buf /\ mGraphicBlocks[task.id].fd = task.buf
        /\ task.id \notin Ids(mPendingBuffersToWork) /\ task.id \notin decoder.blocks
    BY <2>1, BroughtBack
  <2>4. /\ Blocks(bs) /\ DOMAIN bs = DOMAIN mGraphicBlocks
        /\ \A id \in DOMAIN mGraphicBlocks :
               /\ id # task.id => bs[id] = mGraphicBlocks[id]
               /\ bs[id].fd = mGraphicBlocks[id].fd
        /\ bs[task.id].buf = task.buf
    BY <2>1, Types, BackBlocks
  <2> HIDE DEF bs
  <2>5. NamesOK(bs, mRawGraphicBlockInfo, mGraphicBufferId, mOutputFormat.size, client)
    <3>1. \A id \in DOMAIN bs : bs[id].buf = mGraphicBlocks[id].buf
      BY <2>3, <2>4
    <3>2. \A id \in DOMAIN bs : bs[id].state # "CLIENT" => bs[id].buf \notin client
      BY <2>3, <2>4, <1>4 DEF NamesOK
    <3> QED BY <3>1, <3>2, <2>4, <1>4 DEF NamesOK
  <2>6. BroughtOK(bs, mRawGraphicBlockInfo, client, rest, mOutputFormat.size)
    BY <2>2, <2>4 DEF BroughtOK, Brings
  <2>7. ChangeOK(bs)
    <3>1. /\ \A id \in Ids(mPendingBuffersToWork) : bs[id].state = "COMPONENT"
          /\ \A id \in decoder.blocks : bs[id].state # "CLIENT" /\ id \notin Ids(mPendingBuffersToWork)
      BY <2>3, <2>4, <1>4
    <3> QED BY <3>1, <2>1, <2>5, <2>6, <1>4 DEF ChangeOK, rest
  <2>8. mPendingOutputFormat \in Format
    BY <1>7, Types
  <2> QED BY <2>1, <2>4, <2>7, <2>8, <1>1, <1>2, ChangeSurface
<1> QED BY <1>5, <1>6, <1>7 DEF Changes

LEMMA SurfaceStep ==
    ASSUME TypeInv, OrderInv, KnownInv, SurfaceInv, mUseBufferQueue, [Next]_vars
    PROVE  SurfaceInv'
<1>1. CASE MainThread
  <2>1. CASE Changes
    BY <2>1, SurfaceChanges
  <2>2. CASE ~Changes /\ onOutputBufferReturned
    BY <2>2, SurfaceReturned DEF Changes
  <2>3. CASE ~Changes /\ TryChange
    BY <2>3, SurfaceMain DEF Changes
  <2> QED BY <2>1, <2>2, <2>3, <1>1, SurfaceMain, SurfaceFetched, SurfaceLate, SurfaceDone, SurfaceSend,
         SurfaceQueueWork, SurfaceStopDone DEF MainThread, Changes
<1>2. CASE DequeueThread
  BY <1>2, SurfaceOthers, SurfaceFetch DEF DequeueThread
<1>3. CASE DecoderThread
  BY <1>3, SurfaceOthers, SurfacePicture DEF DecoderThread
<1>4. CASE Client \/ UNCHANGED vars
  BY <1>4, SurfaceOthers
<1> QED BY <1>1, <1>2, <1>3, <1>4 DEF Next

LEMMA SurfaceInit == Init => SurfaceInv
<1> SUFFICES ASSUME Init PROVE SurfaceInv
  OBVIOUS
<1>1. /\ mTaskQueue = <<>> /\ mPendingBuffersToWork = <<>> /\ decoder.blocks = {}
      /\ DOMAIN mGraphicBlocks = {} /\ DOMAIN mRawGraphicBlockInfo = {}
      /\ mPendingGraphicBlockBuffer = NoBuffer /\ mCompHasError = "none" /\ mPendingOutputFormat = NoFormat
  BY NoBlocksHere DEF Init
<1>2. Ids(<<>>) = {} /\ PicturesDiffer(<<>>) /\ Elements(<<>>) = {}
  BY DEF Ids, PicturesDiffer, Elements
<1>3. QueueOK(mTaskQueue, mOutputFormat.size)
  BY <1>1 DEF QueueOK, BufsDiffer, IdsDiffer, OldFirst
<1>4. NamesOK(mGraphicBlocks, mRawGraphicBlockInfo, mGraphicBufferId, mOutputFormat.size, client)
  BY <1>1 DEF NamesOK
<1>5. BroughtOK(mGraphicBlocks, mRawGraphicBlockInfo, client, mTaskQueue, mOutputFormat.size)
  BY <1>1, <1>2 DEF BroughtOK
<1>6. OwnersOK(mGraphicBlocks, decoder.blocks, mPendingBuffersToWork, mTaskQueue, decoder.asked)
  BY <1>1, <1>2 DEF OwnersOK
<1> QED BY <1>1, <1>2, <1>3, <1>4, <1>5, <1>6 DEF SurfaceInv, Pending

\* The pool stays what it is.
LEMMA PoolStays ==
    ASSUME [Next]_vars
    PROVE  UNCHANGED mUseBufferQueue
<1>1. CASE MainThread
  BY <1>1 DEF MainThread, Skip, TryChange, onOutputFormatChanged, DropReturned, ReturnedUnknown,
     ReturnedNotOwned, onOutputBufferReturned, DropFetched, onNewBlockBufferFetched, LatePicture,
     onOutputBufferDone, DropPicture, sendOutputBufferToWorkIfAnyTask, onDrainDone, onFlush, onFlushDone,
     onQueueWork, onStart, onStop, onStopDone, format
<1>2. CASE DequeueThread \/ DecoderThread \/ Client \/ UNCHANGED vars
  BY <1>2 DEF DequeueThread, WaitOver, CancelAllocTask, onAllocBufferTask, FetchDone, FetchRetry,
     DecoderThread, onInputBufferDone, ProvidePictureBuffers, PictureReady, NotifyFlushDone,
     NotifyFlushOrStopDone, Client, start, queue_nb, flush_sm, FlushReturn, stop, ReturnBuffer, vars, format
<1> QED BY <1>1, <1>2 DEF Next

LEMMA SurfaceAlways == Spec => [](TypeInv /\ OrderInv /\ KnownInv /\ (mUseBufferQueue => SurfaceInv))
<1>1. Init => TypeInv /\ OrderInv /\ KnownInv /\ (mUseBufferQueue => SurfaceInv)
  BY TypeInit, SurfaceInit
<1>2. TypeInv /\ OrderInv /\ KnownInv /\ (mUseBufferQueue => SurfaceInv) /\ [Next]_vars =>
          (TypeInv /\ OrderInv /\ KnownInv /\ (mUseBufferQueue => SurfaceInv))'
  <2> SUFFICES ASSUME TypeInv, OrderInv, KnownInv, mUseBufferQueue => SurfaceInv, [Next]_vars
               PROVE  TypeInv' /\ OrderInv' /\ KnownInv' /\ (mUseBufferQueue' => SurfaceInv')
    OBVIOUS
  <2>1. TypeInv' /\ OrderInv' /\ KnownInv'
    BY TypeStep, OrderStep, KnownStep
  <2>2. mUseBufferQueue' => SurfaceInv'
    BY SurfaceStep, PoolStays
  <2> QED BY <2>1, <2>2
<1> QED BY <1>1, <1>2, PTL DEF Spec

\* Of a surface, every picture that waits for its input holds a block the component
\* owns, through each change of the format, flush, end of stream and stop; and no error
\* is reported but that of a change that finds a block with the decoder.
THEOREM PendingBlocksCorrect == Spec => []PendingBlocksOwned
<1>1. TypeInv /\ OrderInv /\ KnownInv /\ (mUseBufferQueue => SurfaceInv) => PendingBlocksOwned
  <2> SUFFICES ASSUME KnownInv, SurfaceInv, mUseBufferQueue PROVE PendingBlocksOwned
    BY DEF PendingBlocksOwned
  <2>1. \A i \in 1..Len(mPendingBuffersToWork) : mPendingBuffersToWork[i].id \in Ids(mPendingBuffersToWork)
    BY DEF Ids
  <2> QED BY <2>1 DEF PendingBlocksOwned, KnownInv, SurfaceInv, OwnersOK
<1> QED BY <1>1, SurfaceAlways, PTL

\* Of a surface, the buffers the decoder may write into are not the client's, have the
\* size of the stream and are those whose files it imported.
THEOREM DecoderWritesCorrect == Spec => []DecoderWritesItsBlocks
<1>1. TypeInv /\ OrderInv /\ KnownInv /\ (mUseBufferQueue => SurfaceInv) => DecoderWritesItsBlocks
  <2> SUFFICES ASSUME KnownInv, SurfaceInv, NEW id \in decoder.blocks
               PROVE  /\ mGraphicBlocks[id].buf \notin client
                      /\ mGraphicBlocks[id].buf.size = mOutputFormat.size
                      /\ mGraphicBlocks[id].fd = mGraphicBlocks[id].buf
    BY DEF DecoderWritesItsBlocks
  <2>1. id \in DOMAIN mGraphicBlocks /\ mGraphicBlocks[id].state # "CLIENT"
    BY DEF KnownInv, SurfaceInv, OwnersOK
  <2> QED BY <2>1 DEF SurfaceInv, NamesOK
<1> QED BY <1>1, SurfaceAlways, PTL

-----------------------------------------------------------------------------
(* The decoder is supplied: the end of the stream. *)

Finished(pictures) == \A i \in 1..Len(pictures) : pictures[i].inputDone
InputsDone(s) == \A t \in Elements(s) : t.type = "done" => t.inputDone
InSession(state) == state \in {"STARTED", "FLUSHING"}

\* A work is queued only when the decoder has none; behind the end of the stream
\* comes no picture, and none waits for its input.  Once it is reported, nothing is
\* left of the stream, so that the work that starts the dequeue thread again finds
\* no picture that waits.
DrainInv ==
    /\ decoder.fed => Lacks(mTaskQueue, "queue")
    /\ Apart(mTaskQueue, "queue", "queue") /\ Apart(mTaskQueue, "queue", "drainDone")
    /\ Apart(mTaskQueue, "drainDone", "done")
    /\ ~Lacks(mTaskQueue, "drainDone") =>
           ~decoder.fed /\ Finished(mPendingBuffersToWork) /\ InputsDone(mTaskQueue)
    /\ mReportEosWork /\ InSession(mComponentState) => Quiet
    /\ mComponentState = "FLUSHING" => flushing

\* What the queue keeps when no work, no picture and no end of stream joins it.
DrainKeeps(s, r) ==
    /\ \A type \in {"queue", "drainDone", "done"} : Lacks(s, type) => Lacks(r, type)
    /\ \A before, after \in {"queue", "drainDone", "done"} : Apart(s, before, after) => Apart(r, before, after)
    /\ InputsDone(s) => InputsDone(r)

LEMMA DrainKeepsTaken ==
    ASSUME NEW s \in Seq(Task), s # <<>>
    PROVE  DrainKeeps(s, Tail(s)) /\ Tail(s) \in Seq(Task)
<1>1. InputsDone(s) => InputsDone(Tail(s))
  BY TakeElements DEF InputsDone
<1> QED BY <1>1, TakeKeeps, TakeElements DEF DrainKeeps

LEMMA DrainKeepsPosted ==
    ASSUME NEW s \in Seq(Task), NEW t \in Task, t.type \notin {"queue", "drainDone", "done"}
    PROVE  DrainKeeps(s, Append(s, t))
<1>1. InputsDone(s) => InputsDone(Append(s, t))
  BY PostElements DEF InputsDone
<1> QED BY <1>1, PostKeeps DEF DrainKeeps

LEMMA DrainKeepsSame ==
    ASSUME NEW s
    PROVE  DrainKeeps(s, s)
  BY DEF DrainKeeps

LEMMA DrainKeepsBoth ==
    ASSUME NEW s, NEW r, NEW u, DrainKeeps(s, r), DrainKeeps(r, u)
    PROVE  DrainKeeps(s, u)
  BY DEF DrainKeeps

\* Steps that feed the decoder nothing and report nothing.
LEMMA DrainKept ==
    ASSUME DrainInv, DrainKeeps(mTaskQueue, mTaskQueue'), decoder'.fed => decoder.fed,
           Finished(mPendingBuffersToWork) => Finished(mPendingBuffersToWork'),
           mPendingBuffersToWork = <<>> => mPendingBuffersToWork' = <<>>,
           mReportEosWork' /\ InSession(mComponentState') =>
               (mReportEosWork /\ InSession(mComponentState)) \/ Quiet',
           mComponentState' = "FLUSHING" => flushing'
    PROVE  DrainInv'
<1>1. Quiet => Quiet'
  BY DEF Quiet, DrainKeeps
<1>2. mReportEosWork' /\ InSession(mComponentState') => Quiet'
  BY <1>1 DEF DrainInv
<1>3. decoder'.fed => Lacks(mTaskQueue', "queue")
  BY DEF DrainInv, DrainKeeps
<1>4. /\ Apart(mTaskQueue', "queue", "queue") /\ Apart(mTaskQueue', "queue", "drainDone")
      /\ Apart(mTaskQueue', "drainDone", "done")
  BY DEF DrainInv, DrainKeeps
<1>5. ~Lacks(mTaskQueue', "drainDone") =>
          ~decoder'.fed /\ Finished(mPendingBuffersToWork') /\ InputsDone(mTaskQueue')
  BY DEF DrainInv, DrainKeeps
<1> QED BY <1>2, <1>3, <1>4, <1>5 DEF DrainInv

\* A delivery of pictures whose inputs are done leaves none.
LEMMA DeliverAll ==
    ASSUME NEW bs, NEW held, NEW pictures \in Seq(Picture), Finished(pictures)
    PROVE  Deliver(bs, held, pictures).pictures = <<>>
<1> DEFINE n == Len(pictures)
           P(k) == /\ \A i \in 1..k : pictures[i].inputDone
                   /\ k < n => ~pictures[k + 1].inputDone
<1>1. n \in Nat /\ n \in 0..n /\ P(n)
  BY DEF Finished
<1>2. \A k \in 0..n : P(k) => k = n
  <2> SUFFICES ASSUME NEW k \in 0..n, P(k) PROVE k = n
    OBVIOUS
  <2>1. k < n => k + 1 \in 1..n
    BY <1>1
  <2> QED BY <2>1, <1>1 DEF Finished
<1>3. (CHOOSE k \in 0..n : P(k)) = n
  <2> HIDE DEF P, n
  <2> QED BY <1>1, <1>2
<1>4. Ready(pictures) = n
  BY <1>3 DEF Ready
<1>5. Deliver(bs, held, pictures).pictures = SubSeq(pictures, Ready(pictures) + 1, Len(pictures))
  BY DEF Deliver, Ready
<1>6. SubSeq(pictures, n + 1, n) = <<>>
  BY <1>1
<1> QED BY <1>4, <1>5, <1>6

\* The same, as the handlers use it.
LEMMA DeliveredFinished ==
    ASSUME NEW before, NEW bs, NEW held, NEW pictures \in Seq(Picture),
           Delivered(before, Deliver(bs, held, pictures)), TypeInv
    PROVE  /\ decoder'.fed = decoder.fed
           /\ Finished(pictures) => mPendingBuffersToWork' = <<>> /\ Finished(mPendingBuffersToWork')
<1>1. /\ mPendingBuffersToWork' = Deliver(bs, held, pictures).pictures
      /\ decoder' = [decoder EXCEPT !.blocks = Deliver(bs, held, pictures).decoder]
  BY DEF Delivered
<1>2. Finished(<<>>)
  BY DEF Finished
<1> QED BY <1>1, <1>2, DeliverAll, Types

LEMMA NoneFinished ==
    ASSUME NEW pictures, pictures = <<>>
    PROVE  Finished(pictures) /\ pictures \in Seq(Picture)
  BY DEF Finished

\* Tasks that add nothing to the stream.
LEMMA DrainMain ==
    ASSUME TypeInv, OrderInv, DrainInv,
           \/ Skip \/ DropReturned \/ ReturnedUnknown \/ ReturnedNotOwned \/ DropFetched \/ DropPicture
           \/ onNewBlockBufferFetched \/ LatePicture \/ onFlush \/ onFlushDone \/ onStart \/ onStop \/ onStopDone
           \/ TryChange /\ mPendingOutputFormat = NoFormat
    PROVE  DrainInv'
<1>1. mTaskQueue # <<>> /\ mTaskQueue' = Tail(mTaskQueue)
  BY DEF Skip, DropReturned, ReturnedUnknown, ReturnedNotOwned, DropFetched, DropPicture,
     onNewBlockBufferFetched, LatePicture, onFlush, onFlushDone, onStart, onStop, onStopDone, TryChange, Take
<1>2. DrainKeeps(mTaskQueue, mTaskQueue')
  BY <1>1, Types, DrainKeepsTaken
<1>3. UNCHANGED <<mReportEosWork, flushing>>
  BY DEF Skip, DropReturned, ReturnedUnknown, ReturnedNotOwned, DropFetched, DropPicture,
     onNewBlockBufferFetched, LatePicture, onFlush, onFlushDone, onStart, onStop, onStopDone, TryChange,
     flags, outside
<1>4. /\ mPendingBuffersToWork' \in {mPendingBuffersToWork, <<>>}
      /\ Finished(mPendingBuffersToWork) => Finished(mPendingBuffersToWork')
  <2>1. mPendingBuffersToWork' \in {mPendingBuffersToWork, <<>>}
    BY DEF Skip, DropReturned, ReturnedUnknown, ReturnedNotOwned, DropFetched, DropPicture,
       onNewBlockBufferFetched, LatePicture, onFlush, onFlushDone, onStart, onStop, onStopDone, TryChange,
       blocks
  <2> QED BY <2>1, NoneFinished
<1>5. decoder'.fed => decoder.fed
  <2>1. CASE onFlush \/ onStop
    BY <2>1, Types DEF onFlush, onStop
  <2>2. CASE onStart
    BY <2>2 DEF onStart
  <2>3. CASE onStopDone
    BY <2>3, Types DEF onStopDone
  <2>4. CASE onNewBlockBufferFetched \/ LatePicture
    BY <2>4, Types DEF onNewBlockBufferFetched, LatePicture
  <2>5. CASE ~(onFlush \/ onStop \/ onStart \/ onStopDone \/ onNewBlockBufferFetched \/ LatePicture)
    BY <2>5 DEF Skip, DropReturned, ReturnedUnknown, ReturnedNotOwned, DropFetched, DropPicture,
       onFlushDone, TryChange, outside
  <2> QED BY <2>1, <2>2, <2>3, <2>4, <2>5
<1>6. CASE onStart
  <2>1. ~mBufferFirstAllocated
    <3>1. mComponentState = "UNINITIALIZED"
      BY <1>1, <1>6, Types, TakeKeeps DEF onStart, OrderInv, CallsInv
    <3> QED BY <3>1 DEF OrderInv, ResetInv
  <2>2. mPendingBuffersToWork = <<>> /\ Lacks(mTaskQueue, "done")
    BY <2>1 DEF OrderInv, EmptyInv
  <2>3. Quiet'
    BY <1>2, <1>4, <1>6, <2>2 DEF onStart, Quiet, DrainKeeps
  <2>4. mComponentState' = "STARTED"
    BY <1>6 DEF onStart
  <2> QED BY <1>2, <1>4, <1>5, <2>3, <2>4, DrainKept
<1>7. CASE onFlush
  <2>1. flushing
    BY <1>1, <1>7, Types, TakeKeeps DEF onFlush, Take, OrderInv, CallsInv
  <2>2. mComponentState' \in {mComponentState, "FLUSHING"} /\ (mComponentState' = "FLUSHING" =>
            mComponentState = "STARTED" \/ mComponentState = "FLUSHING")
    BY <1>7 DEF onFlush
  <2> QED BY <1>2, <1>3, <1>4, <1>5, <2>1, <2>2, DrainKept DEF InSession
<1>8. CASE ~onStart /\ ~onFlush
  <2>1. /\ mComponentState' # "FLUSHING" \/ mComponentState = "FLUSHING"
        /\ InSession(mComponentState') => InSession(mComponentState)
    BY <1>8 DEF Skip, DropReturned, ReturnedUnknown, ReturnedNotOwned, DropFetched, DropPicture,
       onNewBlockBufferFetched, LatePicture, onFlushDone, onStop, onStopDone, TryChange,
       component, InSession
  <2>2. mComponentState' = "FLUSHING" => flushing'
    BY <1>3, <2>1 DEF DrainInv
  <2> QED BY <1>2, <1>3, <1>4, <1>5, <2>1, <2>2, DrainKept
<1> QED BY <1>6, <1>7, <1>8

LEMMA DrainKeepsChanged ==
    ASSUME TypeInv, mTaskQueue # <<>>, NEW bs, NEW fmt, tryChangeOutputFormat(bs, fmt)
    PROVE  DrainKeeps(mTaskQueue, mTaskQueue')
<1>1. DrainKeeps(mTaskQueue, Tail(mTaskQueue)) /\ Tail(mTaskQueue) \in Seq(Task)
  BY Types, DrainKeepsTaken
<1>2. PICK t \in Task : t = [type |-> "tryChange"]
  BY KindsOfTask
<1>3. DrainKeeps(Tail(mTaskQueue), Append(Tail(mTaskQueue), t))
  BY <1>1, <1>2, DrainKeepsPosted
<1>4. DrainKeeps(mTaskQueue, Append(Tail(mTaskQueue), t))
  BY <1>1, <1>3, DrainKeepsBoth
<1> QED BY <1>1, <1>2, <1>4 DEF tryChangeOutputFormat

LEMMA FirstControl ==
    ASSUME TypeInv, NEW fmt, allocateBuffersFromBlockPool(fmt)
    PROVE  decoder'.fed = decoder.fed
<1>1. PICK first \in [0..FirstBlocks - 1 -> {b \in Buffer : b.size = fmt.size} \ client] :
        LET bs == [id \in DOMAIN first |->
                      [buf |-> first[id], fd |-> first[id], state |-> "ACCELERATOR", fdSet |-> TRUE]]
            given == {first[id] : id \in DOMAIN first}
        IN  /\ Cardinality(given) = FirstBlocks
            /\ mGraphicBlocks' = bs
            /\ decoder' = [decoder EXCEPT !.blocks = DOMAIN bs, !.asked = FALSE]
  BY DEF allocateBuffersFromBlockPool
<1>2. decoder' = [decoder EXCEPT !.blocks = DOMAIN first, !.asked = FALSE]
  BY <1>1
<1> QED BY <1>2, Types

\* A change of the format leaves the works and the pictures alone.
LEMMA ChangeControl ==
    ASSUME TypeInv, NEW bs, NEW fmt, tryChangeOutputFormat(bs, fmt)
    PROVE  UNCHANGED mComponentState /\ decoder'.fed = decoder.fed
<1>1. UNCHANGED mComponentState
  BY DEF tryChangeOutputFormat, component
<1>2. CASE WaitsForPictures \/ With(bs, "ACCELERATOR") # {}
  BY <1>1, <1>2 DEF tryChangeOutputFormat
<1>3. CASE ~(WaitsForPictures \/ With(bs, "ACCELERATOR") # {})
  <2>1. IF mBufferFirstAllocated THEN videoResolutionChange(bs, fmt)
                                 ELSE allocateBuffersFromBlockPool(fmt)
    BY <1>3 DEF tryChangeOutputFormat
  <2>2. decoder'.fed = decoder.fed
    <3>1. CASE ~mBufferFirstAllocated
      BY <2>1, <3>1, FirstControl
    <3>2. CASE mBufferFirstAllocated
      <4>1. DropBlocks(bs, fmt) \/ SendBlocks(bs) \/ ForgetBlocks(bs)
        BY <2>1, <3>2 DEF videoResolutionChange
      <4> QED BY <4>1, Types DEF DropBlocks, SendBlocks, ForgetBlocks
    <3> QED BY <3>1, <3>2
  <2> QED BY <1>1, <2>2
<1> QED BY <1>1, <1>2, <1>3

LEMMA DrainChanges ==
    ASSUME TypeInv, DrainInv, Changes
    PROVE  DrainInv'
<1>1. /\ mTaskQueue # <<>>
      /\ \E bs, fmt : tryChangeOutputFormat(bs, fmt)
      /\ UNCHANGED <<mPendingBuffersToWork, mReportEosWork, flushing>>
  BY DEF Changes, TryChange, onOutputFormatChanged, onOutputBufferReturned, flags
<1>2. DrainKeeps(mTaskQueue, mTaskQueue') /\ UNCHANGED mComponentState /\ decoder'.fed = decoder.fed
  BY <1>1, DrainKeepsChanged, ChangeControl
<1>3. mComponentState' = "FLUSHING" => flushing'
  BY <1>1, <1>2 DEF DrainInv
<1> QED BY <1>1, <1>2, <1>3, DrainKept

\* A picture that joins those that wait: in front of the end of the stream its input is done.
LEMMA DrainDone ==
    ASSUME TypeInv, DrainInv, onOutputBufferDone
    PROVE  DrainInv'
<1> DEFINE task == Head(mTaskQueue)
           pictures == Done(task)
<1>1. /\ mTaskQueue # <<>> /\ task.type = "done" /\ mTaskQueue' = Tail(mTaskQueue)
      /\ task \in Elements(mTaskQueue)
      /\ pictures \in Seq(Picture)
      /\ Len(pictures) = Len(mPendingBuffersToWork) + 1
      /\ \A i \in 1..Len(mPendingBuffersToWork) : pictures[i] = mPendingBuffersToWork[i]
      /\ Delivered(mGraphicBlocks, Deliver(Taken(task.id), decoder.blocks, pictures))
  BY DoneParts
<1>2. pictures[Len(mPendingBuffersToWork) + 1].inputDone = task.inputDone
  <2>1. Len(mPendingBuffersToWork) \in Nat
    BY Types
  <2> QED BY <2>1, Types DEF Done
<1> HIDE DEF pictures
<1>3. DrainKeeps(mTaskQueue, mTaskQueue') /\ ~Lacks(mTaskQueue, "done")
  BY <1>1, Types, DrainKeepsTaken, TakeKeeps
<1>4. /\ decoder'.fed = decoder.fed
      /\ Finished(pictures) => Finished(mPendingBuffersToWork')
  BY <1>1, DeliveredFinished
<1>5. UNCHANGED <<mReportEosWork, mComponentState, flushing>>
  BY DEF onOutputBufferDone, Delivered
<1>6. ~(mReportEosWork' /\ InSession(mComponentState'))
  BY <1>3, <1>5 DEF DrainInv, Quiet
<1>7. Finished(mPendingBuffersToWork) /\ InputsDone(mTaskQueue) => Finished(mPendingBuffersToWork')
  <2>1. ASSUME Finished(mPendingBuffersToWork), InputsDone(mTaskQueue) PROVE Finished(pictures)
    <3>1. \A i \in 1..Len(pictures) :
              i \in 1..Len(mPendingBuffersToWork) \/ i = Len(mPendingBuffersToWork) + 1
      BY <1>1, Types
    <3>2. task.inputDone
      BY <2>1, <1>1 DEF InputsDone
    <3> QED BY <2>1, <3>1, <3>2, <1>1, <1>2 DEF Finished
  <2> QED BY <2>1, <1>4
<1> HIDE DEF task
<1>8. /\ decoder'.fed => Lacks(mTaskQueue', "queue")
      /\ Apart(mTaskQueue', "queue", "queue") /\ Apart(mTaskQueue', "queue", "drainDone")
      /\ Apart(mTaskQueue', "drainDone", "done")
  BY <1>3, <1>4 DEF DrainInv, DrainKeeps
<1>9. ~Lacks(mTaskQueue', "drainDone") =>
          ~decoder'.fed /\ Finished(mPendingBuffersToWork') /\ InputsDone(mTaskQueue')
  BY <1>3, <1>4, <1>7 DEF DrainInv, DrainKeeps
<1> QED BY <1>5, <1>6, <1>8, <1>9 DEF DrainInv

\* Tasks that only deliver; the report of the end of the stream leaves no picture.
LEMMA DrainDelivered ==
    ASSUME TypeInv, OrderInv, KnownInv, DrainInv,
           \/ sendOutputBufferToWorkIfAnyTask \/ onDrainDone
           \/ onOutputBufferReturned /\ mPendingOutputFormat = NoFormat
    PROVE  DrainInv'
<1>1. mTaskQueue # <<>> /\ mTaskQueue' = Tail(mTaskQueue)
  BY ReturnedParts DEF sendOutputBufferToWorkIfAnyTask, onDrainDone, Take
<1>2. DrainKeeps(mTaskQueue, mTaskQueue')
  BY <1>1, Types, DrainKeepsTaken
<1>3. /\ decoder'.fed = decoder.fed
      /\ Finished(mPendingBuffersToWork) => Finished(mPendingBuffersToWork')
      /\ mPendingBuffersToWork = <<>> => mPendingBuffersToWork' = <<>>
      /\ onDrainDone /\ mComponentState # "STOPPING" /\ Finished(mPendingBuffersToWork) =>
             mPendingBuffersToWork' = <<>>
  <2>1. CASE onDrainDone /\ mComponentState = "STOPPING"
    BY <2>1 DEF onDrainDone
  <2>2. CASE ~(onDrainDone /\ mComponentState = "STOPPING")
    <3>1. \E bs, held : Delivered(mGraphicBlocks, Deliver(bs, held, mPendingBuffersToWork))
      BY <2>2, ReturnedParts DEF sendOutputBufferToWorkIfAnyTask, onDrainDone
    <3>2. mPendingBuffersToWork \in Seq(Picture) /\ Finished(<<>>)
      BY Types, NoneFinished
    <3> QED BY <3>1, <3>2, DeliveredFinished
  <2> QED BY <2>1, <2>2
<1>4. UNCHANGED <<mComponentState, flushing>> /\ (~onDrainDone => UNCHANGED mReportEosWork)
  BY ReturnedParts DEF sendOutputBufferToWorkIfAnyTask, onDrainDone, Delivered, component, flags
<1>5. mComponentState' = "FLUSHING" => flushing'
  BY <1>4 DEF DrainInv
<1>6. CASE onDrainDone
  <2>1. ~Lacks(mTaskQueue, "drainDone") /\ Lacks(mTaskQueue', "done")
    BY <1>1, <1>6, Types, TakeKeeps DEF onDrainDone, Take, DrainInv
  <2>2. mComponentState # "STOPPING" => Quiet'
    BY <2>1, <1>3, <1>6 DEF DrainInv, Quiet
  <2>3. InSession(mComponentState') => Quiet'
    BY <2>2, <1>4 DEF InSession
  <2> QED BY <1>2, <1>3, <1>5, <2>3, DrainKept
<1>7. CASE ~onDrainDone
  BY <1>2, <1>3, <1>4, <1>5, <1>7, DrainKept
<1> QED BY <1>6, <1>7

LEMMA DrainQueueWork ==
    ASSUME TypeInv, DrainInv, onQueueWork
    PROVE  DrainInv'
<1>1. /\ mTaskQueue # <<>> /\ mTaskQueue' = Tail(mTaskQueue) /\ Head(mTaskQueue).type = "queue"
      /\ mReportEosWork' = FALSE
      /\ UNCHANGED <<mComponentState, flushing, mPendingBuffersToWork>>
  BY DEF onQueueWork, Take, component
<1>2. DrainKeeps(mTaskQueue, mTaskQueue')
  BY <1>1, Types, DrainKeepsTaken
<1>3. Lacks(mTaskQueue', "queue") /\ Lacks(mTaskQueue', "drainDone")
  BY <1>1, Types, TakeKeeps DEF DrainInv
<1> QED BY <1>1, <1>2, <1>3 DEF DrainInv, DrainKeeps

\* Calls and the decoder's thread: a work, a picture and an end of stream join the queue
\* where they may.
LEMMA DrainPosted ==
    ASSUME TypeInv, DrainInv, NEW type \in {"queue", "drainDone", "done"},
           NEW t \in Task, t.type = type, mTaskQueue' = Append(mTaskQueue, t),
           UNCHANGED <<mPendingBuffersToWork, mReportEosWork, mComponentState, flushing>>,
           decoder'.fed => decoder.fed,
           type = "queue" => ~decoder.fed /\ Lacks(mTaskQueue, "queue"),
           type # "queue" => decoder.fed,
           type = "drainDone" => ~decoder'.fed /\ Finished(mPendingBuffersToWork) /\ InputsDone(mTaskQueue)
    PROVE  DrainInv'
<1>1. /\ \A kind : Lacks(mTaskQueue, kind) /\ type # kind => Lacks(mTaskQueue', kind)
      /\ \A before, after : Apart(mTaskQueue, before, after) /\ (type = after => Lacks(mTaskQueue, before)) =>
             Apart(mTaskQueue', before, after)
  BY Types, PostKeeps
<1>2. decoder.fed => Lacks(mTaskQueue, "queue") /\ Lacks(mTaskQueue, "drainDone")
  BY DEF DrainInv
<1>3. /\ Apart(mTaskQueue', "queue", "queue") /\ Apart(mTaskQueue', "queue", "drainDone")
      /\ Apart(mTaskQueue', "drainDone", "done")
  BY <1>1, <1>2 DEF DrainInv
<1>4. decoder'.fed => Lacks(mTaskQueue', "queue")
  BY <1>1, <1>2
<1>5. type # "done" /\ InputsDone(mTaskQueue) => InputsDone(mTaskQueue')
  BY Types, PostElements DEF InputsDone
<1>6. ~Lacks(mTaskQueue', "drainDone") =>
          ~decoder'.fed /\ Finished(mPendingBuffersToWork) /\ InputsDone(mTaskQueue')
  <2>1. CASE type = "drainDone"
    BY <2>1, <1>5
  <2>2. CASE type = "done"
    BY <2>2, <1>1, <1>2
  <2>3. CASE type = "queue"
    BY <2>3, <1>1, <1>5 DEF DrainInv
  <2> QED BY <2>1, <2>2, <2>3
<1>7. Quiet => type # "done" /\ Quiet'
  <2>1. Quiet => type # "done"
    BY DEF Quiet
  <2> QED BY <2>1, <1>1 DEF Quiet
<1>8. /\ mReportEosWork /\ InSession(mComponentState) => Quiet'
      /\ mComponentState = "FLUSHING" => flushing
  BY <1>7 DEF DrainInv
<1> QED BY <1>3, <1>4, <1>6, <1>8 DEF DrainInv

LEMMA DrainCalls ==
    ASSUME TypeInv, DrainInv, PictureReady \/ NotifyFlushDone \/ queue_nb
    PROVE  DrainInv'
<1>1. UNCHANGED <<mPendingBuffersToWork, mReportEosWork, mComponentState, flushing>>
  BY DEF PictureReady, NotifyFlushDone, queue_nb, component, flags, blocks, outside
<1>2. CASE PictureReady
  <2>1. PICK id \in decoder.blocks, fate \in Fates, inputDone \in BOOLEAN :
            /\ mTaskQueue' = Append(mTaskQueue,
                   [type |-> "done", id |-> id, fate |-> fate, inputDone |-> inputDone])
            /\ decoder' = [decoder EXCEPT !.blocks = @ \ {id}]
    BY <1>2 DEF PictureReady, Post
  <2>2. [type |-> "done", id |-> id, fate |-> fate, inputDone |-> inputDone] \in Task
    BY Types, KindsOfTask, ChoicesAssumption
  <2>3. PICK t \in Task : mTaskQueue' = Append(mTaskQueue, t) /\ t.type = "done"
    BY <2>1, <2>2
  <2>4. decoder.fed /\ decoder'.fed = decoder.fed
    BY <1>2, <2>1, Types DEF PictureReady, Decoding
  <2> QED BY <1>1, <2>3, <2>4, DrainPosted
<1>3. CASE NotifyFlushDone
  <2>1. PICK t \in Task : mTaskQueue' = Append(mTaskQueue, t) /\ t.type = "drainDone"
    BY <1>3, KindsOfTask DEF NotifyFlushDone, Post
  <2>2. decoder.fed /\ ~decoder'.fed
    BY <1>3, Types DEF NotifyFlushDone, Decoding
  <2>3. Finished(mPendingBuffersToWork) /\ InputsDone(mTaskQueue)
    BY <1>3 DEF NotifyFlushDone, Finished, InputsDone, Elements
  <2> QED BY <1>1, <2>1, <2>2, <2>3, DrainPosted
<1>4. CASE queue_nb
  <2>1. PICK t \in Task : mTaskQueue' = Append(mTaskQueue, t) /\ t.type = "queue"
    BY <1>4, KindsOfTask DEF queue_nb, Post
  <2>2. ~decoder.fed /\ UNCHANGED decoder /\ Lacks(mTaskQueue, "queue")
    BY <1>4 DEF queue_nb, outside, Queued, Lacks
  <2> QED BY <1>1, <2>1, <2>2, DrainPosted
<1> QED BY <1>2, <1>3, <1>4

LEMMA DrainOthers ==
    ASSUME TypeInv, OrderInv, DrainInv,
           \/ DequeueThread \/ UNCHANGED vars \/ onInputBufferDone \/ ProvidePictureBuffers
           \/ NotifyFlushOrStopDone \/ start \/ flush_sm \/ FlushReturn \/ stop \/ ReturnBuffer
    PROVE  DrainInv'
<1>1. DrainKeeps(mTaskQueue, mTaskQueue')
  <2>1. CASE UNCHANGED mTaskQueue
    BY <2>1, DrainKeepsSame
  <2>2. CASE ProvidePictureBuffers
    <3>1. PICK size \in Sizes, num \in Nums :
              mTaskQueue' = Append(mTaskQueue, [type |-> "format", fmt |-> [size |-> size, num |-> num]])
      BY <2>2 DEF ProvidePictureBuffers, Post
    <3>2. [type |-> "format", fmt |-> [size |-> size, num |-> num]] \in Task
      BY KindsOfTask DEF Format
    <3>3. PICK t \in Task : mTaskQueue' = Append(mTaskQueue, t) /\ t.type = "format"
      BY <3>1, <3>2
    <3> QED BY <3>3, Types, DrainKeepsPosted
  <2>3. CASE onInputBufferDone \/ NotifyFlushOrStopDone \/ start \/ flush_sm \/ stop
    <3>1. PICK type \in {"start", "flush", "stop", "resetDone", "send"} :
              mTaskQueue' = Append(mTaskQueue, [type |-> type])
      BY <2>3 DEF onInputBufferDone, NotifyFlushOrStopDone, start, flush_sm, stop, Post
    <3>2. PICK t \in Task : mTaskQueue' = Append(mTaskQueue, t) /\ t.type = type
      BY <3>1, KindsOfTask
    <3> QED BY <3>2, Types, DrainKeepsPosted
  <2>4. CASE FetchDone
    <3>1. PICK b \in Fetchable :
              mTaskQueue' = Append(mTaskQueue,
                  [type |-> IF IdOf(b) \in DOMAIN mGraphicBlocks THEN "returned" ELSE "fetched",
                   buf |-> b, id |-> IdOf(b)])
      BY <2>4 DEF FetchDone, Post
    <3>2. b \in Buffer /\ IdOf(b) \in Nat
      BY Types DEF Fetchable, Free, IdOf, TypeInv
    <3>3. PICK t \in Task : mTaskQueue' = Append(mTaskQueue, t) /\ t.type \in Fetched
      BY <3>1, <3>2, KindsOfTask DEF Fetched
    <3> QED BY <3>3, Types, DrainKeepsPosted DEF Fetched
  <2>5. CASE WaitOver \/ CancelAllocTask \/ onAllocBufferTask \/ FetchRetry \/ FlushReturn \/ ReturnBuffer
             \/ UNCHANGED vars
    <3>1. UNCHANGED mTaskQueue
      BY <2>5 DEF WaitOver, CancelAllocTask, onAllocBufferTask, FetchRetry, FlushReturn, ReturnBuffer, vars
    <3> QED BY <3>1, DrainKeepsSame
  <2> QED BY <2>2, <2>3, <2>4, <2>5 DEF DequeueThread
<1>2. UNCHANGED <<mReportEosWork, mComponentState>>
  BY DEF DequeueThread, WaitOver, CancelAllocTask, onAllocBufferTask, FetchDone, FetchRetry, vars,
     onInputBufferDone, ProvidePictureBuffers, NotifyFlushOrStopDone, start, flush_sm, FlushReturn,
     stop, ReturnBuffer, component, flags
<1>3. mComponentState' = "FLUSHING" => flushing'
  BY <1>2 DEF DrainInv, DequeueThread, WaitOver, CancelAllocTask, onAllocBufferTask, FetchDone,
     FetchRetry, vars, onInputBufferDone, ProvidePictureBuffers, NotifyFlushOrStopDone, start, flush_sm,
     FlushReturn, stop, ReturnBuffer, outside
<1>4. decoder'.fed = decoder.fed
  <2>1. \/ UNCHANGED decoder
        \/ decoder' = [decoder EXCEPT !.asked = TRUE, !.blocks = {}]
        \/ decoder' = [decoder EXCEPT !.resetting = FALSE]
    BY DEF DequeueThread, WaitOver, CancelAllocTask, onAllocBufferTask, FetchDone, FetchRetry, vars,
       onInputBufferDone, ProvidePictureBuffers, NotifyFlushOrStopDone, start, flush_sm, FlushReturn,
       stop, ReturnBuffer, outside
  <2> QED BY <2>1, Types
<1>5. /\ Finished(mPendingBuffersToWork) => Finished(mPendingBuffersToWork')
      /\ mPendingBuffersToWork = <<>> => mPendingBuffersToWork' = <<>>
  <2>1. CASE onInputBufferDone
    <3>1. PICK i \in 1..Len(mPendingBuffersToWork) :
              mPendingBuffersToWork' = [mPendingBuffersToWork EXCEPT ![i].inputDone = TRUE]
      BY <2>1 DEF onInputBufferDone
    <3>2. /\ Len(mPendingBuffersToWork') = Len(mPendingBuffersToWork)
          /\ \A j \in 1..Len(mPendingBuffersToWork) :
                 mPendingBuffersToWork[j].inputDone => mPendingBuffersToWork'[j].inputDone
          /\ mPendingBuffersToWork # <<>>
      BY <3>1, Types DEF Picture
    <3> QED BY <3>2 DEF Finished
  <2>2. CASE ~onInputBufferDone
    <3>1. UNCHANGED mPendingBuffersToWork
      BY <2>2 DEF DequeueThread, WaitOver, CancelAllocTask, onAllocBufferTask, FetchDone, FetchRetry, vars,
         ProvidePictureBuffers, NotifyFlushOrStopDone, start, flush_sm, FlushReturn, stop, ReturnBuffer, blocks
    <3> QED BY <3>1
  <2> QED BY <2>1, <2>2
<1> QED BY <1>1, <1>2, <1>3, <1>4, <1>5, DrainKept

LEMMA DrainStep ==
    ASSUME TypeInv, OrderInv, KnownInv, DrainInv, [Next]_vars
    PROVE  DrainInv'
<1>1. CASE MainThread
  <2>1. CASE Changes
    BY <2>1, DrainChanges
  <2>2. CASE ~Changes /\ (TryChange \/ onOutputBufferReturned)
    BY <2>2, DrainMain, DrainDelivered DEF Changes
  <2> QED BY <2>1, <2>2, <1>1, DrainMain, DrainDone, DrainDelivered, DrainQueueWork DEF MainThread, Changes
<1>2. CASE DequeueThread \/ UNCHANGED vars
  BY <1>2, DrainOthers
<1>3. CASE DecoderThread
  BY <1>3, DrainCalls, DrainOthers DEF DecoderThread
<1>4. CASE Client
  BY <1>4, DrainCalls, DrainOthers DEF Client
<1> QED BY <1>1, <1>2, <1>3, <1>4 DEF Next

LEMMA DrainInit == Init => DrainInv
<1> SUFFICES ASSUME Init PROVE DrainInv
  OBVIOUS
<1>1. /\ mTaskQueue = <<>> /\ decoder.fed = FALSE /\ mReportEosWork = FALSE
      /\ mComponentState = "UNINITIALIZED"
  BY DEF Init
<1> QED BY <1>1 DEF DrainInv, Lacks, Apart

-----------------------------------------------------------------------------
(* The decoder is supplied: the blocks and the tasks that stand for them. *)

\* The blocks of the decoder and of the component, without those of the pictures that
\* wait: for those a task fetches a block already.
Owned(bs, ids) == {id \in DOMAIN bs : bs[id].state # "CLIENT"} \ ids

\* The buffers of the size that tasks bring.
Brought(s, size) == {b \in Buffer : b.size = size /\ \E t \in Elements(s) : t.type \in Fetched /\ t.buf = b}

\* Each of these is, or will be, one block for the decoder.
OwnedCount == Cardinality(Owned(mGraphicBlocks, Ids(mPendingBuffersToWork)))
BroughtCount == Cardinality(Brought(mTaskQueue, mOutputFormat.size))
Supply == OwnedCount + BroughtCount + allocTasks + waitTasks + IF fetching THEN 1 ELSE 0

\* While the client's flush has not returned there is no restart of the dequeue thread yet.
Supplying ==
    /\ CountsRight /\ Alive /\ mComponentState = "STARTED" /\ mBufferFirstAllocated
    /\ ~mHaveFlushDone /\ ~mHaveDrainDone /\ ~mResolutionChanging
    /\ ~(flushing /\ Lacks(mTaskQueue, "flush"))

Supplied == mRunTaskLoop /\ mAllocBufferLoop /\ Supply >= mOutputFormat.num

SupplyInv == Supplying => Supplied

LEMMA CardLess ==
    ASSUME NEW A, NEW B, IsFiniteSet(B), A \subseteq B
    PROVE  IsFiniteSet(A) /\ Cardinality(A) \in Nat /\ Cardinality(B) \in Nat /\ Cardinality(A) <= Cardinality(B)
<1>1. A \in SUBSET B
  OBVIOUS
<1>2. IsFiniteSet(A) /\ Cardinality(A) <= Cardinality(B)
  BY <1>1, FS_Subset
<1> QED BY <1>2, FS_CardinalityType

\* One element may go.
LEMMA CardLost ==
    ASSUME NEW A, NEW B, NEW x, IsFiniteSet(A), IsFiniteSet(B), A \ {x} \subseteq B
    PROVE  Cardinality(A) \in Nat /\ Cardinality(B) \in Nat /\ Cardinality(A) <= Cardinality(B) + 1
<1>1. /\ IsFiniteSet(A \ {x})
      /\ Cardinality(A \ {x}) = IF x \in A THEN Cardinality(A) - 1 ELSE Cardinality(A)
  BY FS_RemoveElement
<1>2. Cardinality(A \ {x}) <= Cardinality(B)
  BY CardLess
<1>3. Cardinality(A) \in Nat /\ Cardinality(B) \in Nat
  BY FS_CardinalityType
<1> QED BY <1>1, <1>2, <1>3

\* One element comes.
LEMMA CardWon ==
    ASSUME NEW A, NEW B, NEW x, IsFiniteSet(B), A \cup {x} \subseteq B, x \notin A
    PROVE  Cardinality(A) \in Nat /\ Cardinality(B) \in Nat /\ Cardinality(A) + 1 <= Cardinality(B)
<1>1. IsFiniteSet(A) /\ Cardinality(A) \in Nat
  BY CardLess
<1>2. Cardinality(A \cup {x}) = Cardinality(A) + 1
  BY <1>1, FS_AddElement
<1>3. Cardinality(A \cup {x}) <= Cardinality(B) /\ Cardinality(B) \in Nat
  BY CardLess
<1> QED BY <1>1, <1>2, <1>3

LEMMA OwnedFinite ==
    ASSUME NEW bs, Blocks(bs), NEW ids
    PROVE  IsFiniteSet(Owned(bs, ids)) /\ Cardinality(Owned(bs, ids)) \in Nat
<1>1. Owned(bs, ids) \subseteq DOMAIN bs
  BY DEF Owned
<1> QED BY <1>1, CardLess DEF Blocks

\* There are no more buffers than tasks that bring them.
LEMMA BroughtFinite ==
    ASSUME NEW s \in Seq(Task), NEW size
    PROVE  LET I == {i \in 1..Len(s) : s[i].type \in Fetched}
           IN  /\ IsFiniteSet(I) /\ Cardinality(I) \in Nat
               /\ IsFiniteSet(Brought(s, size)) /\ Cardinality(Brought(s, size)) \in Nat
               /\ Cardinality(Brought(s, size)) <= Cardinality(I)
<1> DEFINE I == {i \in 1..Len(s) : s[i].type \in Fetched}
           J == {i \in I : s[i].buf \in Brought(s, size)}
           f == [i \in J |-> s[i].buf]
<1>1. IsFiniteSet(1..Len(s))
  BY FS_Interval
<1>2. IsFiniteSet(I) /\ Cardinality(I) \in Nat
  BY <1>1, CardLess
<1>3. IsFiniteSet(J) /\ Cardinality(J) \in Nat /\ Cardinality(J) <= Cardinality(I)
  <2> HIDE DEF I
  <2> QED BY <1>2, CardLess
<1>4. ASSUME NEW b \in Brought(s, size) PROVE \E i \in J : f[i] = b
  <2>1. PICK t \in Elements(s) : t.type \in Fetched /\ t.buf = b
    BY <1>4 DEF Brought
  <2>2. PICK i \in 1..Len(s) : s[i] = t
    BY <2>1 DEF Elements
  <2>3. i \in J
    BY <2>1, <2>2
  <2> QED BY <2>1, <2>2, <2>3
<1>5. f \in Surjection(J, Brought(s, size))
  <2>1. f \in [J -> Brought(s, size)]
    OBVIOUS
  <2> HIDE DEF f, J
  <2> QED BY <2>1, <1>4 DEF Surjection
<1>6. IsFiniteSet(Brought(s, size)) /\ Cardinality(Brought(s, size)) <= Cardinality(J)
  <2> HIDE DEF f, J
  <2> QED BY <1>3, <1>5, FS_Surjection
<1>7. Cardinality(Brought(s, size)) \in Nat
  BY <1>6, FS_CardinalityType
<1> HIDE DEF I, J, f
<1>8. Cardinality(Brought(s, size)) <= Cardinality(I)
  BY <1>2, <1>3, <1>6, <1>7
<1> QED BY <1>2, <1>6, <1>7, <1>8 DEF I

\* Only the head's buffer goes with the head, and only if the head brings one.
LEMMA BroughtTaken ==
    ASSUME NEW s \in Seq(Task), s # <<>>, NEW size
    PROVE  /\ Brought(s, size) \ {Head(s).buf} \subseteq Brought(Tail(s), size)
           /\ Head(s).type \notin Fetched \/ Head(s).buf.size # size =>
                  Brought(s, size) \subseteq Brought(Tail(s), size)
<1>1. ASSUME NEW t \in Elements(s) PROVE t = Head(s) \/ t \in Elements(Tail(s))
  <2>1. PICK i \in 1..Len(s) : t = s[i]
    BY DEF Elements
  <2>2. CASE i = 1
    BY <2>1, <2>2, TailElements
  <2>3. CASE i # 1
    <3>1. i - 1 \in 1..Len(Tail(s)) /\ Tail(s)[i - 1] = s[i]
      BY <2>3, TailElements
    <3> QED BY <2>1, <3>1 DEF Elements
  <2> QED BY <2>2, <2>3
<1>2. ASSUME NEW b \in Brought(s, size), b # Head(s).buf \/ Head(s).type \notin Fetched \/ Head(s).buf.size # size
      PROVE  b \in Brought(Tail(s), size)
  <2>1. /\ b \in Buffer /\ b.size = size
        /\ \E t \in Elements(s) : t.type \in Fetched /\ t.buf = b
    BY <1>2 DEF Brought
  <2>2. PICK t \in Elements(s) : t.type \in Fetched /\ t.buf = b
    BY <2>1
  <2>3. t # Head(s)
    BY <1>2, <2>1, <2>2
  <2>4. t \in Elements(Tail(s))
    BY <1>1, <2>3
  <2> QED BY <2>1, <2>2, <2>4 DEF Brought
<1> QED BY <1>2

LEMMA BroughtPosted ==
    ASSUME NEW s \in Seq(Task), NEW t \in Task, NEW size
    PROVE  /\ Brought(s, size) \subseteq Brought(Append(s, t), size)
           /\ t.type \in Fetched /\ t.buf.size = size => t.buf \in Brought(Append(s, t), size)
<1> DEFINE r == Append(s, t)
<1>1. ASSUME NEW u \in Elements(s) PROVE u \in Elements(r)
  <2>1. PICK i \in 1..Len(s) : u = s[i]
    BY DEF Elements
  <2>2. i \in 1..Len(r) /\ r[i] = s[i]
    BY AppendElements
  <2> QED BY <2>1, <2>2 DEF Elements
<1>2. t \in Elements(r)
  <2>1. Len(s) + 1 \in 1..Len(r) /\ r[Len(s) + 1] = t
    BY AppendElements
  <2> QED BY <2>1 DEF Elements
<1>3. t.type \in Fetched => t.buf \in Buffer
  BY TaskKinds
<1> HIDE DEF r
<1> QED BY <1>1, <1>2, <1>3 DEF Brought, r

SupplyTyped ==
    /\ Blocks(mGraphicBlocks) /\ mGraphicBlockStateCount \in [State -> Int]
    /\ IsFiniteSet(Owned(mGraphicBlocks, Ids(mPendingBuffersToWork))) /\ OwnedCount \in Nat
    /\ IsFiniteSet(Brought(mTaskQueue, mOutputFormat.size)) /\ BroughtCount \in Nat
    /\ allocTasks \in Nat /\ waitTasks \in Nat /\ fetching \in BOOLEAN /\ mOutputFormat.num \in Nat
    /\ Supply \in Nat

LEMMA SupplyTypes == TypeInv => SupplyTyped
<1> SUFFICES ASSUME TypeInv PROVE SupplyTyped
  OBVIOUS
<1>1. /\ Blocks(mGraphicBlocks) /\ mGraphicBlockStateCount \in [State -> Int]
      /\ mTaskQueue \in Seq(Task)
      /\ allocTasks \in Nat /\ waitTasks \in Nat /\ fetching \in BOOLEAN
      /\ mOutputFormat \in Format \cup {NoFormat}
  BY Types
<1>2. mOutputFormat.num \in Nat
  <2>1. CASE mOutputFormat \in Format
    BY <2>1, NumsAssumption DEF Format
  <2>2. CASE mOutputFormat = NoFormat
    BY <2>2 DEF NoFormat
  <2> QED BY <1>1, <2>1, <2>2
<1>3. IsFiniteSet(Owned(mGraphicBlocks, Ids(mPendingBuffersToWork))) /\ OwnedCount \in Nat
  BY <1>1, OwnedFinite DEF OwnedCount
<1>4. IsFiniteSet(Brought(mTaskQueue, mOutputFormat.size)) /\ BroughtCount \in Nat
  BY <1>1, BroughtFinite DEF BroughtCount
<1>5. Supply \in Nat
  BY <1>1, <1>3, <1>4 DEF Supply
<1> QED BY <1>1, <1>2, <1>3, <1>4, <1>5 DEF SupplyTyped

LEMMA SupplyTypesNext == TypeInv' => SupplyTyped'
  BY SupplyTypes, PTL

\* Counts that are right after a step that counts what it does were right before it.
LEMMA CountsKept ==
    ASSUME SupplyTyped, SupplyTyped',
           \/ Counted(mGraphicBlocks, mGraphicBlocks')
           \/ UNCHANGED <<mGraphicBlocks, mGraphicBlockStateCount>>,
           CountsRight'
    PROVE  CountsRight
<1>1. CASE UNCHANGED <<mGraphicBlocks, mGraphicBlockStateCount>>
  BY <1>1 DEF CountsRight
<1>2. CASE Counted(mGraphicBlocks, mGraphicBlocks')
  <2> DEFINE bs == mGraphicBlocks'
  <2>1. Blocks(mGraphicBlocks) /\ Blocks(bs) /\ mGraphicBlockStateCount \in [State -> Int]
    BY DEF SupplyTyped
  <2>2. Counted(mGraphicBlocks, bs) /\ \A s \in State : mGraphicBlockStateCount'[s] = Cardinality(With(bs, s))
    BY <1>2 DEF CountsRight
  <2> HIDE DEF bs
  <2> SUFFICES ASSUME NEW s \in State
               PROVE  mGraphicBlockStateCount[s] = Cardinality(With(mGraphicBlocks, s))
    BY DEF CountsRight
  <2>3. mGraphicBlockStateCount'[s] =
            mGraphicBlockStateCount[s] + Cardinality(With(bs, s)) - Cardinality(With(mGraphicBlocks, s))
    BY <2>1, <2>2, Counting
  <2>4. mGraphicBlockStateCount[s] \in Int /\ Cardinality(With(bs, s)) \in Nat
        /\ Cardinality(With(mGraphicBlocks, s)) \in Nat
    BY <2>1, WithFinite
  <2> QED BY <2>2, <2>3, <2>4
<1> QED BY <1>1, <1>2

\* Steps that lose nothing.
LEMMA SupplyKept ==
    ASSUME SupplyTyped, SupplyTyped', SupplyInv,
           \/ Counted(mGraphicBlocks, mGraphicBlocks')
           \/ UNCHANGED <<mGraphicBlocks, mGraphicBlockStateCount>>,
           Alive' /\ mComponentState' = "STARTED" => Alive /\ mComponentState = "STARTED",
           UNCHANGED <<mBufferFirstAllocated, mHaveFlushDone, mHaveDrainDone, mResolutionChanging,
                       mOutputFormat>>,
           flushing => flushing', Lacks(mTaskQueue, "flush") => Lacks(mTaskQueue', "flush"),
           mRunTaskLoop /\ mAllocBufferLoop => mRunTaskLoop' /\ mAllocBufferLoop' /\ Supply' >= Supply
    PROVE  SupplyInv'
<1> SUFFICES ASSUME Supplying' PROVE Supplied'
  BY DEF SupplyInv
<1>1. CountsRight
  BY CountsKept DEF Supplying
<1>2. Supplying
  BY <1>1 DEF Supplying
<1>3. Supplied
  BY <1>2 DEF SupplyInv
<1>4. Supply \in Nat /\ Supply' \in Nat /\ mOutputFormat.num \in Nat
  BY DEF SupplyTyped
<1>5. mRunTaskLoop' /\ mAllocBufferLoop' /\ Supply' >= Supply /\ Supply >= mOutputFormat.num
  BY <1>3 DEF Supplied
<1>6. Supply' >= mOutputFormat.num
  BY <1>4, <1>5
<1> QED BY <1>5, <1>6 DEF Supplied

\* The parts of what a step keeps.
LEMMA OwnedMore ==
    ASSUME SupplyTyped',
           Owned(mGraphicBlocks, Ids(mPendingBuffersToWork)) \subseteq
               Owned(mGraphicBlocks', Ids(mPendingBuffersToWork'))
    PROVE  OwnedCount' >= OwnedCount
<1> DEFINE before == Owned(mGraphicBlocks, Ids(mPendingBuffersToWork))
           after == Owned(mGraphicBlocks', Ids(mPendingBuffersToWork'))
<1>1. /\ IsFiniteSet(after) /\ before \subseteq after
      /\ OwnedCount' = Cardinality(after) /\ OwnedCount = Cardinality(before)
  BY DEF SupplyTyped, OwnedCount
<1> HIDE DEF before, after
<1> QED BY <1>1, CardLess

LEMMA BroughtMore ==
    ASSUME SupplyTyped',
           Brought(mTaskQueue, mOutputFormat.size) \subseteq Brought(mTaskQueue', mOutputFormat'.size)
    PROVE  BroughtCount' >= BroughtCount
<1> DEFINE before == Brought(mTaskQueue, mOutputFormat.size)
           after == Brought(mTaskQueue', mOutputFormat'.size)
<1>1. /\ IsFiniteSet(after) /\ before \subseteq after
      /\ BroughtCount' = Cardinality(after) /\ BroughtCount = Cardinality(before)
  BY DEF SupplyTyped, BroughtCount
<1> HIDE DEF before, after
<1> QED BY <1>1, CardLess

\* The head of the queue is taken.
LEMMA SupplyTaken ==
    ASSUME TypeInv, SupplyTyped, SupplyTyped', mTaskQueue # <<>>, mTaskQueue' = Tail(mTaskQueue),
           UNCHANGED mOutputFormat
    PROVE  /\ BroughtCount' + 1 >= BroughtCount
           /\ Head(mTaskQueue).type \notin Fetched \/ Obsolete(Head(mTaskQueue).buf) =>
                  BroughtCount' >= BroughtCount
           /\ Lacks(mTaskQueue, "flush") => Lacks(mTaskQueue', "flush")
<1> DEFINE size == mOutputFormat.size
           before == Brought(mTaskQueue, size)
           after == Brought(Tail(mTaskQueue), size)
           buf == Head(mTaskQueue).buf
<1>1. /\ before \ {buf} \subseteq after
      /\ Head(mTaskQueue).type \notin Fetched \/ Head(mTaskQueue).buf.size # size => before \subseteq after
  BY Types, BroughtTaken
<1>2. Lacks(mTaskQueue, "flush") => Lacks(mTaskQueue', "flush")
  BY Types, TakeKeeps
<1>3. /\ IsFiniteSet(before) /\ BroughtCount = Cardinality(before)
      /\ IsFiniteSet(after) /\ BroughtCount' = Cardinality(after)
      /\ BroughtCount \in Nat /\ BroughtCount' \in Nat
  BY DEF SupplyTyped, BroughtCount
<1> HIDE DEF before, after, buf, size
<1>4. BroughtCount <= BroughtCount' + 1
  BY <1>1, <1>3, CardLost
<1>5. before \subseteq after => BroughtCount <= BroughtCount'
  BY <1>3, CardLess
<1> QED BY <1>1, <1>2, <1>3, <1>4, <1>5 DEF Obsolete, size

\* A task joins the queue.
LEMMA SupplyPosted ==
    ASSUME TypeInv, SupplyTyped, SupplyTyped', NEW t \in Task, mTaskQueue' = Append(mTaskQueue, t),
           UNCHANGED mOutputFormat
    PROVE  /\ BroughtCount' >= BroughtCount
           /\ t.type # "flush" /\ Lacks(mTaskQueue, "flush") => Lacks(mTaskQueue', "flush")
<1>1. Brought(mTaskQueue, mOutputFormat.size) \subseteq Brought(mTaskQueue', mOutputFormat'.size)
  BY Types, BroughtPosted
<1>2. t.type # "flush" /\ Lacks(mTaskQueue, "flush") => Lacks(mTaskQueue', "flush")
  BY Types, PostKeeps
<1> QED BY <1>1, <1>2, BroughtMore

LEMMA SupplyNat ==
    ASSUME SupplyTyped, SupplyTyped'
    PROVE  /\ OwnedCount \in Nat /\ BroughtCount \in Nat /\ allocTasks \in Nat /\ waitTasks \in Nat
           /\ OwnedCount' \in Nat /\ BroughtCount' \in Nat /\ allocTasks' \in Nat /\ waitTasks' \in Nat
           /\ fetching \in BOOLEAN /\ fetching' \in BOOLEAN
  BY DEF SupplyTyped

LEMMA SupplyMore ==
    ASSUME SupplyTyped, SupplyTyped', OwnedCount' >= OwnedCount, BroughtCount' >= BroughtCount,
           UNCHANGED <<allocTasks, waitTasks, fetching>>
    PROVE  Supply' >= Supply
  BY SupplyNat DEF Supply

-----------------------------------------------------------------------------
(* The decoder is supplied: steps that move no block. *)

\* After these nothing is promised.
LEMMA SupplyVoid ==
    ASSUME TypeInv, OrderInv, KnownInv, SurfaceInv, DrainInv,
           \/ Skip \/ ReturnedUnknown \/ ReturnedNotOwned \/ DropPicture
           \/ onFlush \/ onFlushDone \/ onStart \/ onStop \/ onStopDone
           \/ ProvidePictureBuffers \/ NotifyFlushDone \/ FlushReturn \/ start
    PROVE  ~Supplying'
<1> DEFINE task == Head(mTaskQueue)
<1>1. CASE Skip \/ start
  BY <1>1 DEF Skip, start, component, Alive, Supplying
<1>2. ~ReturnedUnknown /\ ~ReturnedNotOwned
  <2>1. CASE mTaskQueue # <<>> /\ task.type = "returned" /\ ~Obsolete(task.buf)
    <3>1. task \in Elements(mTaskQueue)
      BY <2>1, Types, TakeElements
    <3>2. Brings(task, mGraphicBlocks, mRawGraphicBlockInfo, client)
      BY <2>1, <3>1 DEF SurfaceInv, BroughtOK, Fetched, Obsolete
    <3> QED BY <3>2, <2>1 DEF Brings, ReturnedUnknown, ReturnedNotOwned
  <2>2. CASE ~(mTaskQueue # <<>> /\ task.type = "returned" /\ ~Obsolete(task.buf))
    BY <2>2 DEF ReturnedUnknown, ReturnedNotOwned, Take
  <2> QED BY <2>1, <2>2
<1>3. CASE DropPicture
  BY <1>3 DEF DropPicture, reportError, Supplying, Alive
<1>4. CASE onFlush
  BY <1>4 DEF onFlush, Supplying
<1>5. CASE onFlushDone
  <2>1. mTaskQueue # <<>> /\ mTaskQueue' = Tail(mTaskQueue) /\ mComponentState = "FLUSHING"
        /\ UNCHANGED flushing
    BY <1>5 DEF onFlushDone, Take, outside
  <2>2. flushing /\ Lacks(mTaskQueue, "flush")
    BY <2>1 DEF DrainInv, OrderInv, CallsInv
  <2>3. Lacks(mTaskQueue', "flush")
    BY <2>1, <2>2, Types, TakeKeeps
  <2> QED BY <2>1, <2>2, <2>3 DEF Supplying
<1>6. CASE onStart
  <2>1. mTaskQueue # <<>> /\ task.type = "start" /\ UNCHANGED mBufferFirstAllocated
    BY <1>6 DEF onStart, format
  <2>2. mComponentState = "UNINITIALIZED"
    BY <2>1, Types, TakeKeeps DEF OrderInv, CallsInv
  <2>3. ~mBufferFirstAllocated
    BY <2>2 DEF OrderInv, ResetInv
  <2> QED BY <2>1, <2>3 DEF Supplying
<1>7. CASE onStop \/ onStopDone
  BY <1>7 DEF onStop, onStopDone, Supplying
<1>8. CASE ProvidePictureBuffers \/ NotifyFlushDone \/ FlushReturn
  BY <1>8 DEF ProvidePictureBuffers, NotifyFlushDone, FlushReturn, Supplying
<1> QED BY <1>1, <1>2, <1>3, <1>4, <1>5, <1>6, <1>7, <1>8

\* Tasks of mThread that find nothing to do.
LEMMA SupplyDropped ==
    ASSUME TypeInv, SupplyTyped, SupplyTyped', SupplyInv,
           DropReturned \/ DropFetched \/ (TryChange /\ mPendingOutputFormat = NoFormat)
    PROVE  SupplyInv'
<1> DEFINE task == Head(mTaskQueue)
<1>1. /\ mTaskQueue # <<>> /\ mTaskQueue' = Tail(mTaskQueue)
      /\ UNCHANGED <<mComponentState, mCompHasError, mBufferFirstAllocated, mOutputFormat, mResolutionChanging,
                     mHaveFlushDone, mHaveDrainDone, flushing, mGraphicBlocks, mGraphicBlockStateCount,
                     mPendingBuffersToWork, mRunTaskLoop, mAllocBufferLoop, allocTasks, waitTasks, fetching>>
  BY DEF DropReturned, DropFetched, TryChange, Take, component, format, flags, blocks, dequeue, outside
<1>2. CASE mHaveDrainDone \/ mResolutionChanging \/ mComponentState = "STOPPING"
  BY <1>1, <1>2 DEF SupplyInv, Supplying
<1>3. CASE ~(mHaveDrainDone \/ mResolutionChanging \/ mComponentState = "STOPPING")
  <2>1. task.type \notin Fetched \/ Obsolete(task.buf)
    BY <1>3 DEF DropReturned, DropFetched, TryChange, Fetched
  <2>2. BroughtCount' >= BroughtCount /\ (Lacks(mTaskQueue, "flush") => Lacks(mTaskQueue', "flush"))
    BY <1>1, <2>1, SupplyTaken
  <2>3. OwnedCount' = OwnedCount
    BY <1>1 DEF OwnedCount
  <2>4. Supply' >= Supply
    BY <1>1, <2>2, <2>3, SupplyNat, SupplyMore
  <2> QED BY <1>1, <2>2, <2>4, SupplyKept DEF Alive
<1> QED BY <1>2, <1>3

\* The tasks of the dequeue thread: none is given up while the decoder is supplied.
LEMMA SupplyDequeue ==
    ASSUME TypeInv, SupplyTyped, SupplyTyped', SupplyInv,
           WaitOver \/ CancelAllocTask \/ onAllocBufferTask \/ FetchRetry
    PROVE  SupplyInv'
<1>1. UNCHANGED <<mComponentState, mCompHasError, mBufferFirstAllocated, mOutputFormat, mResolutionChanging,
                  mHaveFlushDone, mHaveDrainDone, flushing, mGraphicBlocks, mGraphicBlockStateCount,
                  mPendingBuffersToWork, mTaskQueue, mRunTaskLoop, mAllocBufferLoop>>
  BY DEF WaitOver, CancelAllocTask, onAllocBufferTask, FetchRetry, component, format, flags, blocks, outside
<1>2. OwnedCount' = OwnedCount /\ BroughtCount' = BroughtCount
  BY <1>1 DEF OwnedCount, BroughtCount
<1>3. CASE CancelAllocTask
  <2>1. ~mAllocBufferLoop \/ mComponentState = "STOPPING"
    BY <1>3 DEF CancelAllocTask
  <2>2. Supplying' => Supplying
    BY <1>1 DEF Supplying, CountsRight, Alive
  <2>3. ~Supplying
    BY <2>1 DEF SupplyInv, Supplied, Supplying
  <2> QED BY <2>2, <2>3 DEF SupplyInv
<1>4. CASE WaitOver \/ onAllocBufferTask \/ FetchRetry
  <2>1. Supply' >= Supply
    BY <1>2, <1>4, SupplyNat DEF WaitOver, onAllocBufferTask, FetchRetry, Supply
  <2> QED BY <1>1, <2>1, SupplyKept DEF Alive
<1> QED BY <1>3, <1>4

\* A fetched buffer is one no other task brings.
LEMMA SupplyFetch ==
    ASSUME TypeInv, SupplyTyped, SupplyTyped', SupplyInv, mUseBufferQueue, FetchDone
    PROVE  SupplyInv'
<1>1. /\ fetching /\ ~fetching'
      /\ UNCHANGED <<mComponentState, mCompHasError, mBufferFirstAllocated, mOutputFormat, mResolutionChanging,
                     mHaveFlushDone, mHaveDrainDone, flushing, mGraphicBlocks, mGraphicBlockStateCount,
                     mPendingBuffersToWork, mRunTaskLoop, mAllocBufferLoop, allocTasks, waitTasks>>
  BY DEF FetchDone, component, format, flags, blocks, outside
<1>2. PICK b \in Fetchable :
          mTaskQueue' = Append(mTaskQueue,
              [type |-> IF IdOf(b) \in DOMAIN mGraphicBlocks THEN "returned" ELSE "fetched",
               buf |-> b, id |-> IdOf(b)])
  BY DEF FetchDone, Post
<1>3. /\ b \in Buffer /\ b.size = mOutputFormat.size
      /\ \A u \in Elements(mTaskQueue) : u.type \in Fetched => u.buf # b
  BY FreeBuffer
<1>4. [type |-> IF IdOf(b) \in DOMAIN mGraphicBlocks THEN "returned" ELSE "fetched", buf |-> b, id |-> IdOf(b)] \in Task
  <2>1. IdOf(b) \in Nat
    BY Types DEF TypeInv, IdOf
  <2> QED BY <2>1, <1>3, KindsOfTask DEF Fetched
<1>5. PICK t \in Task : mTaskQueue' = Append(mTaskQueue, t) /\ t.type \in Fetched /\ t.buf = b
  BY <1>2, <1>4 DEF Fetched
<1>6. Lacks(mTaskQueue, "flush") => Lacks(mTaskQueue', "flush")
  BY <1>1, <1>5, SupplyPosted DEF Fetched
<1>7. BroughtCount' >= BroughtCount + 1
  <2> DEFINE before == Brought(mTaskQueue, mOutputFormat.size)
             after == Brought(mTaskQueue', mOutputFormat'.size)
  <2>1. before \cup {b} \subseteq after
    BY <1>1, <1>3, <1>5, Types, BroughtPosted
  <2>2. b \notin before
    BY <1>3 DEF Brought
  <2>3. IsFiniteSet(after) /\ BroughtCount = Cardinality(before) /\ BroughtCount' = Cardinality(after)
    BY DEF SupplyTyped, BroughtCount
  <2> HIDE DEF before, after
  <2>4. BroughtCount \in Nat /\ BroughtCount' \in Nat /\ BroughtCount + 1 <= BroughtCount'
    BY <2>1, <2>2, <2>3, CardWon
  <2> QED BY <2>4
<1>8. OwnedCount' = OwnedCount
  BY <1>1 DEF OwnedCount
<1>9. Supply' >= Supply
  BY <1>1, <1>7, <1>8, SupplyNat DEF Supply
<1> QED BY <1>1, <1>6, <1>9, SupplyKept DEF Alive

\* Calls and reports that move no block.
LEMMA SupplyCalls ==
    ASSUME TypeInv, SupplyTyped, SupplyTyped', SupplyInv,
           \/ onInputBufferDone \/ PictureReady \/ NotifyFlushOrStopDone
           \/ queue_nb \/ flush_sm \/ stop \/ ReturnBuffer \/ UNCHANGED vars
    PROVE  SupplyInv'
<1>1. UNCHANGED <<mComponentState, mCompHasError, mBufferFirstAllocated, mOutputFormat, mResolutionChanging,
                  mHaveFlushDone, mHaveDrainDone, mGraphicBlocks, mGraphicBlockStateCount,
                  mRunTaskLoop, mAllocBufferLoop, allocTasks, waitTasks, fetching>>
  BY DEF onInputBufferDone, PictureReady, NotifyFlushOrStopDone, queue_nb, flush_sm, stop, ReturnBuffer, vars,
     component, format, flags, blocks, dequeue
<1>2. flushing => flushing'
  BY DEF onInputBufferDone, PictureReady, NotifyFlushOrStopDone, queue_nb, flush_sm, stop, ReturnBuffer, vars,
     outside
<1>3. Ids(mPendingBuffersToWork') = Ids(mPendingBuffersToWork)
  <2>1. CASE onInputBufferDone
    <3>1. PICK i \in 1..Len(mPendingBuffersToWork) :
              mPendingBuffersToWork' = [mPendingBuffersToWork EXCEPT ![i].inputDone = TRUE]
      BY <2>1 DEF onInputBufferDone
    <3>2. /\ Len(mPendingBuffersToWork') = Len(mPendingBuffersToWork)
          /\ \A j \in 1..Len(mPendingBuffersToWork) :
                 mPendingBuffersToWork'[j].id = mPendingBuffersToWork[j].id
      BY <3>1, Types DEF Picture
    <3> QED BY <3>2 DEF Ids
  <2>2. CASE ~onInputBufferDone
    BY <2>2 DEF PictureReady, NotifyFlushOrStopDone, queue_nb, flush_sm, stop, ReturnBuffer, vars, blocks
  <2> QED BY <2>1, <2>2
<1>4. OwnedCount' = OwnedCount
  BY <1>1, <1>3 DEF OwnedCount
<1>5. /\ BroughtCount' >= BroughtCount
      /\ ~flush_sm /\ Lacks(mTaskQueue, "flush") => Lacks(mTaskQueue', "flush")
  <2>1. CASE UNCHANGED mTaskQueue
    BY <1>1, <2>1 DEF BroughtCount, SupplyTyped
  <2>2. CASE PictureReady
    <3>1. PICK id \in decoder.blocks, fate \in Fates, inputDone \in BOOLEAN :
              mTaskQueue' = Append(mTaskQueue,
                  [type |-> "done", id |-> id, fate |-> fate, inputDone |-> inputDone])
      BY <2>2 DEF PictureReady, Post
    <3>2. [type |-> "done", id |-> id, fate |-> fate, inputDone |-> inputDone] \in Task
      BY Types, KindsOfTask, ChoicesAssumption
    <3>3. PICK t \in Task : mTaskQueue' = Append(mTaskQueue, t) /\ t.type = "done"
      BY <3>1, <3>2
    <3> QED BY <1>1, <3>3, SupplyPosted
  <2>3. CASE onInputBufferDone \/ NotifyFlushOrStopDone \/ queue_nb \/ flush_sm \/ stop
    <3>1. PICK type \in {"queue", "flush", "stop", "resetDone", "send"} :
              /\ mTaskQueue' = Append(mTaskQueue, [type |-> type])
              /\ flush_sm \/ type # "flush"
      BY <2>3 DEF onInputBufferDone, NotifyFlushOrStopDone, queue_nb, flush_sm, stop, Post
    <3>2. PICK t \in Task : mTaskQueue' = Append(mTaskQueue, t) /\ t.type = type
      BY <3>1, KindsOfTask
    <3> QED BY <1>1, <3>1, <3>2, SupplyPosted
  <2>4. CASE ReturnBuffer \/ UNCHANGED vars
    <3>1. UNCHANGED mTaskQueue
      BY <2>4 DEF ReturnBuffer, vars
    <3> QED BY <2>1, <3>1
  <2> QED BY <2>2, <2>3, <2>4
<1>6. Supply' >= Supply
  BY <1>1, <1>4, <1>5, SupplyNat, SupplyMore
<1>7. CASE ~flush_sm
  BY <1>1, <1>2, <1>5, <1>6, <1>7, SupplyKept DEF Alive
<1>8. CASE flush_sm
  <2>1. ~flushing /\ (Supplying' => CountsRight')
    BY <1>8 DEF flush_sm, Supplying
  <2>2. Supplying' => Supplying
    BY <1>1, <2>1, CountsKept DEF Supplying, Alive
  <2>3. Supplied => Supplied'
    BY <1>1, <1>6 DEF Supplied, SupplyTyped
  <2> QED BY <2>2, <2>3 DEF SupplyInv
<1> QED BY <1>7, <1>8

-----------------------------------------------------------------------------
(* The decoder is supplied: steps that move blocks. *)

\* A delivery takes only blocks of pictures that waited.
LEMMA DeliverOwned ==
    ASSUME NEW bs, Blocks(bs), NEW held, NEW pictures \in Seq(Picture), mUseBufferQueue \in BOOLEAN
    PROVE  LET d == Deliver(bs, held, pictures)
           IN  Owned(bs, Ids(pictures)) \subseteq Owned(d.blocks, Ids(d.pictures))
<1> DEFINE d == Deliver(bs, held, pictures)
<1>1. PICK n, shown, back : n \in 0..Len(pictures) /\ Delivers(d, bs, held, pictures, n, shown, back)
  BY Delivery
<1> HIDE DEF d
<1>2. /\ shown \cup back = {pictures[i].id : i \in 1..n}
      /\ DOMAIN d.blocks = DOMAIN bs
      /\ \A id \in DOMAIN bs : id \notin shown \cup back => d.blocks[id] = bs[id]
      /\ \A i \in 1..Len(d.pictures) : n + i \in 1..Len(pictures) /\ d.pictures[i] = pictures[n + i]
  BY <1>1 DEF Delivers
<1>3. shown \cup back \subseteq Ids(pictures)
  <2>1. \A i \in 1..n : i \in 1..Len(pictures)
    BY <1>1
  <2> QED BY <1>2, <2>1 DEF Ids
<1>4. Ids(d.pictures) \subseteq Ids(pictures)
  BY <1>2 DEF Ids
<1> QED BY <1>2, <1>3, <1>4 DEF Owned, d

LEMMA SupplyDelivered ==
    ASSUME TypeInv, NEW bs, Blocks(bs), NEW held, NEW pictures \in Seq(Picture),
           Delivered(mGraphicBlocks, Deliver(bs, held, pictures))
    PROVE  /\ Counted(mGraphicBlocks, mGraphicBlocks') /\ UNCHANGED mComponentState
           /\ Owned(bs, Ids(pictures)) \subseteq Owned(mGraphicBlocks', Ids(mPendingBuffersToWork'))
<1> DEFINE d == Deliver(bs, held, pictures)
<1>1. Owned(bs, Ids(pictures)) \subseteq Owned(d.blocks, Ids(d.pictures))
  BY Types, DeliverOwned
<1>2. /\ mGraphicBlocks' = d.blocks /\ Counted(mGraphicBlocks, d.blocks)
      /\ mPendingBuffersToWork' = d.pictures /\ UNCHANGED mComponentState
  BY DEF Delivered
<1> HIDE DEF d
<1> QED BY <1>1, <1>2

LEMMA SupplySend ==
    ASSUME TypeInv, SupplyTyped, SupplyTyped', SupplyInv, sendOutputBufferToWorkIfAnyTask \/ onDrainDone
    PROVE  SupplyInv'
<1>1. /\ mTaskQueue # <<>> /\ mTaskQueue' = Tail(mTaskQueue) /\ Head(mTaskQueue).type \notin Fetched /\ Alive
      /\ UNCHANGED <<mBufferFirstAllocated, mOutputFormat, mResolutionChanging,
                     mHaveFlushDone, mHaveDrainDone, flushing, mRunTaskLoop, mAllocBufferLoop,
                     allocTasks, waitTasks, fetching>>
      /\ \/ Delivered(mGraphicBlocks, Deliver(mGraphicBlocks, decoder.blocks, mPendingBuffersToWork))
         \/ UNCHANGED <<mComponentState, mGraphicBlocks, mGraphicBlockStateCount, mPendingBuffersToWork>>
  BY DEF sendOutputBufferToWorkIfAnyTask, onDrainDone, Take, Fetched, component, format, flags, dequeue
<1>2. /\ Counted(mGraphicBlocks, mGraphicBlocks') \/ UNCHANGED <<mGraphicBlocks, mGraphicBlockStateCount>>
      /\ UNCHANGED mComponentState
      /\ OwnedCount' >= OwnedCount
  <2>1. CASE Delivered(mGraphicBlocks, Deliver(mGraphicBlocks, decoder.blocks, mPendingBuffersToWork))
    BY <2>1, Types, SupplyDelivered, OwnedMore
  <2>2. CASE UNCHANGED <<mComponentState, mGraphicBlocks, mGraphicBlockStateCount, mPendingBuffersToWork>>
    <3>1. OwnedCount' = OwnedCount
      BY <2>2 DEF OwnedCount
    <3> QED BY <2>2, <3>1, SupplyNat
  <2> QED BY <1>1, <2>1, <2>2
<1>3. BroughtCount' >= BroughtCount /\ (Lacks(mTaskQueue, "flush") => Lacks(mTaskQueue', "flush"))
  BY <1>1, SupplyTaken
<1>4. Supply' >= Supply
  BY <1>1, <1>2, <1>3, SupplyMore
<1> QED BY <1>1, <1>2, <1>3, <1>4, SupplyKept

\* For the picture that takes a block a task fetches another one.
LEMMA SupplyDone ==
    ASSUME TypeInv, SupplyTyped, SupplyTyped', SupplyInv, onOutputBufferDone
    PROVE  SupplyInv'
<1> DEFINE task == Head(mTaskQueue)
           bs == Taken(task.id)
           pictures == Done(task)
<1>1. /\ Alive /\ mTaskQueue # <<>> /\ task.type = "done" /\ mTaskQueue' = Tail(mTaskQueue)
      /\ task.id \in DOMAIN mGraphicBlocks
      /\ pictures \in Seq(Picture)
      /\ Ids(pictures) = Ids(mPendingBuffersToWork) \cup {task.id}
      /\ Delivered(mGraphicBlocks, Deliver(bs, decoder.blocks, pictures))
  BY DoneParts
<1>2. /\ UNCHANGED <<mBufferFirstAllocated, mOutputFormat, mResolutionChanging, mHaveFlushDone,
                     mHaveDrainDone, flushing, mRunTaskLoop, fetching>>
      /\ mAllocBufferLoop => mAllocBufferLoop'
      /\ PostAllocTasks(IF mRunTaskLoop THEN 1 ELSE 0, allocTasks, waitTasks, mAllocBufferLoop')
  BY DEF onOutputBufferDone, format
<1>3. task.type \notin Fetched
  BY <1>1 DEF Fetched
<1>4. BroughtCount' >= BroughtCount /\ (Lacks(mTaskQueue, "flush") => Lacks(mTaskQueue', "flush"))
  BY <1>1, <1>2, <1>3, SupplyTaken
<1> HIDE DEF task
<1>5. /\ Blocks(bs) /\ DOMAIN bs = DOMAIN mGraphicBlocks
      /\ \A i \in DOMAIN mGraphicBlocks : i # task.id => bs[i].state = mGraphicBlocks[i].state
  BY Types, TakenBlocks
<1> HIDE DEF bs, pictures
<1>6. /\ Counted(mGraphicBlocks, mGraphicBlocks') /\ UNCHANGED mComponentState
      /\ Owned(bs, Ids(pictures)) \subseteq Owned(mGraphicBlocks', Ids(mPendingBuffersToWork'))
  BY <1>1, <1>5, SupplyDelivered
<1>7. OwnedCount' + 1 >= OwnedCount
  <2> DEFINE before == Owned(mGraphicBlocks, Ids(mPendingBuffersToWork))
             after == Owned(mGraphicBlocks', Ids(mPendingBuffersToWork'))
  <2>1. before \ {task.id} \subseteq Owned(bs, Ids(pictures))
    BY <1>1, <1>5 DEF Owned
  <2>2. before \ {task.id} \subseteq after
    BY <2>1, <1>6
  <2>3. /\ IsFiniteSet(before) /\ IsFiniteSet(after)
        /\ OwnedCount = Cardinality(before) /\ OwnedCount' = Cardinality(after)
    BY DEF SupplyTyped, OwnedCount
  <2> HIDE DEF before, after
  <2>4. OwnedCount \in Nat /\ OwnedCount' \in Nat /\ OwnedCount <= OwnedCount' + 1
    BY <2>2, <2>3, CardLost
  <2> QED BY <2>4
<1>8. mRunTaskLoop /\ mAllocBufferLoop => mRunTaskLoop' /\ mAllocBufferLoop' /\ Supply' >= Supply
  <2> SUFFICES ASSUME mRunTaskLoop, mAllocBufferLoop PROVE Supply' >= Supply
    BY <1>2
  <2>1. allocTasks' = allocTasks + 1 /\ waitTasks' = waitTasks
    BY <1>2 DEF PostAllocTasks
  <2>2. fetching' = fetching
    BY <1>2
  <2> QED BY <1>4, <1>7, <2>1, <2>2, SupplyNat DEF Supply
<1> QED BY <1>1, <1>2, <1>4, <1>6, <1>8, SupplyKept

\* A block that comes takes the place of the task that brought it.
LEMMA SupplyBack ==
    ASSUME TypeInv, SupplyTyped, SupplyTyped', SurfaceInv,
           NEW task \in Elements(mTaskQueue), task.type = "returned", ~Obsolete(task.buf), task.buf \in Buffer,
           NEW bs \in {Back(task), BackSent(task)}
    PROVE  /\ Blocks(bs)
           /\ Owned(mGraphicBlocks, Ids(mPendingBuffersToWork)) \cup {task.id} \subseteq
                  Owned(bs, Ids(mPendingBuffersToWork))
           /\ task.id \notin Owned(mGraphicBlocks, Ids(mPendingBuffersToWork))
<1>1. /\ task.id \in DOMAIN mGraphicBlocks /\ mGraphicBlocks[task.id].state = "CLIENT"
      /\ task.id \notin Ids(mPendingBuffersToWork)
  BY BroughtBack
<1>2. /\ Blocks(Back(task)) /\ DOMAIN Back(task) = DOMAIN mGraphicBlocks
      /\ Blocks(BackSent(task)) /\ DOMAIN BackSent(task) = DOMAIN mGraphicBlocks
      /\ \A id \in DOMAIN mGraphicBlocks :
             id # task.id => Back(task)[id] = mGraphicBlocks[id] /\ BackSent(task)[id] = mGraphicBlocks[id]
      /\ Back(task)[task.id].state = "COMPONENT" /\ BackSent(task)[task.id].state = "ACCELERATOR"
  BY <1>1, Types, BackBlocks
<1>3. /\ Blocks(bs) /\ DOMAIN bs = DOMAIN mGraphicBlocks /\ bs[task.id].state # "CLIENT"
      /\ \A id \in DOMAIN mGraphicBlocks : id # task.id => bs[id] = mGraphicBlocks[id]
  BY <1>2
<1> QED BY <1>1, <1>3 DEF Owned

LEMMA OwnedWon ==
    ASSUME SupplyTyped, SupplyTyped', NEW id,
           id \notin Owned(mGraphicBlocks, Ids(mPendingBuffersToWork)),
           Owned(mGraphicBlocks, Ids(mPendingBuffersToWork)) \cup {id} \subseteq
               Owned(mGraphicBlocks', Ids(mPendingBuffersToWork'))
    PROVE  OwnedCount' >= OwnedCount + 1
<1> DEFINE before == Owned(mGraphicBlocks, Ids(mPendingBuffersToWork))
           after == Owned(mGraphicBlocks', Ids(mPendingBuffersToWork'))
<1>1. /\ IsFiniteSet(after) /\ before \cup {id} \subseteq after /\ id \notin before
      /\ OwnedCount = Cardinality(before) /\ OwnedCount' = Cardinality(after)
  BY DEF SupplyTyped, OwnedCount
<1> HIDE DEF before, after
<1>2. OwnedCount \in Nat /\ OwnedCount' \in Nat /\ OwnedCount + 1 <= OwnedCount'
  BY <1>1, CardWon
<1> QED BY <1>2

LEMMA SupplyReturned ==
    ASSUME TypeInv, SurfaceInv, SupplyTyped, SupplyTyped', SupplyInv,
           onOutputBufferReturned, mPendingOutputFormat = NoFormat
    PROVE  SupplyInv'
<1> DEFINE task == Head(mTaskQueue)
           bs == BackSent(task)
<1>1. /\ Alive /\ mTaskQueue # <<>> /\ task.type = "returned" /\ mTaskQueue' = Tail(mTaskQueue)
      /\ task \in Elements(mTaskQueue) /\ task.buf \in Buffer /\ ~Obsolete(task.buf)
      /\ Delivered(mGraphicBlocks, Deliver(bs, decoder.blocks \cup {task.id}, mPendingBuffersToWork))
      /\ UNCHANGED <<format, mResolutionChanging, flags, dequeue, flushing>>
  BY ReturnedParts
<1>2. UNCHANGED <<mBufferFirstAllocated, mOutputFormat, mResolutionChanging, mHaveFlushDone, mHaveDrainDone,
                  flushing, mRunTaskLoop, mAllocBufferLoop, allocTasks, waitTasks, fetching>>
  BY <1>1 DEF format, flags, dequeue
<1>3. BroughtCount' + 1 >= BroughtCount /\ (Lacks(mTaskQueue, "flush") => Lacks(mTaskQueue', "flush"))
  BY <1>1, <1>2, SupplyTaken
<1> HIDE DEF task
<1>4. /\ Blocks(bs)
      /\ Owned(mGraphicBlocks, Ids(mPendingBuffersToWork)) \cup {task.id} \subseteq
             Owned(bs, Ids(mPendingBuffersToWork))
      /\ task.id \notin Owned(mGraphicBlocks, Ids(mPendingBuffersToWork))
  BY <1>1, SupplyBack
<1> HIDE DEF bs
<1>5. /\ Counted(mGraphicBlocks, mGraphicBlocks') /\ UNCHANGED mComponentState
      /\ Owned(bs, Ids(mPendingBuffersToWork)) \subseteq Owned(mGraphicBlocks', Ids(mPendingBuffersToWork'))
  BY <1>1, <1>4, Types, SupplyDelivered
<1>6. OwnedCount' >= OwnedCount + 1
  BY <1>4, <1>5, OwnedWon
<1>7. Supply' >= Supply
  BY <1>2, <1>3, <1>6, SupplyNat DEF Supply
<1> QED BY <1>1, <1>2, <1>3, <1>5, <1>7, SupplyKept

LEMMA SupplyFetched ==
    ASSUME TypeInv, KnownInv, SurfaceInv, SupplyTyped, SupplyTyped', SupplyInv, onNewBlockBufferFetched
    PROVE  SupplyInv'
<1> DEFINE task == Head(mTaskQueue)
           bs == WithNew(task)
<1>1. /\ Alive /\ mTaskQueue # <<>> /\ task.type = "fetched" /\ mTaskQueue' = Tail(mTaskQueue)
      /\ ~Obsolete(task.buf)
      /\ task.buf \in DOMAIN mRawGraphicBlockInfo =>
             mGraphicBlocks' = bs /\ Counted(mGraphicBlocks, mGraphicBlocks')
      /\ UNCHANGED <<mComponentState, mBufferFirstAllocated, mOutputFormat, mResolutionChanging, mHaveFlushDone,
                     mHaveDrainDone, mPendingBuffersToWork, flushing, mRunTaskLoop, mAllocBufferLoop,
                     allocTasks, waitTasks, fetching>>
  BY DEF onNewBlockBufferFetched, Take, WithNew, format, flags, dequeue
<1>2. BroughtCount' + 1 >= BroughtCount /\ (Lacks(mTaskQueue, "flush") => Lacks(mTaskQueue', "flush"))
  BY <1>1, SupplyTaken
<1>3. task \in Elements(mTaskQueue)
  BY <1>1, Types, TakeElements
<1> HIDE DEF task
<1>4. task.buf \in DOMAIN mRawGraphicBlockInfo /\ task.id \notin DOMAIN mGraphicBlocks
  BY <1>1, <1>3 DEF SurfaceInv, BroughtOK, Brings, Fetched, Obsolete
<1>5. /\ DOMAIN bs = DOMAIN mGraphicBlocks \cup {task.id}
      /\ bs[task.id].state = "ACCELERATOR"
      /\ \A id \in DOMAIN mGraphicBlocks : bs[id] = mGraphicBlocks[id]
  BY <1>4 DEF WithNew
<1> HIDE DEF bs
<1>6. task.id \notin Ids(mPendingBuffersToWork)
  BY <1>4 DEF KnownInv
<1>7. /\ Owned(mGraphicBlocks, Ids(mPendingBuffersToWork)) \cup {task.id} \subseteq
             Owned(mGraphicBlocks', Ids(mPendingBuffersToWork'))
      /\ task.id \notin Owned(mGraphicBlocks, Ids(mPendingBuffersToWork))
  BY <1>1, <1>4, <1>5, <1>6 DEF Owned
<1>8. OwnedCount' >= OwnedCount + 1
  BY <1>7, OwnedWon
<1>9. Supply' >= Supply
  BY <1>1, <1>2, <1>8, SupplyNat DEF Supply
<1> QED BY <1>1, <1>2, <1>4, <1>9, SupplyKept

LEMMA SupplyLate ==
    ASSUME TypeInv, SupplyTyped, SupplyTyped', SupplyInv, LatePicture
    PROVE  SupplyInv'
<1> DEFINE task == Head(mTaskQueue)
           bs == Sent(mGraphicBlocks, {task.id})
<1>1. /\ Alive /\ mTaskQueue # <<>> /\ task.type \notin Fetched /\ mTaskQueue' = Tail(mTaskQueue)
      /\ mGraphicBlocks' = bs /\ Counted(mGraphicBlocks, mGraphicBlocks')
      /\ UNCHANGED <<mComponentState, mBufferFirstAllocated, mOutputFormat, mResolutionChanging, mHaveFlushDone,
                     mHaveDrainDone, mPendingBuffersToWork, flushing, mRunTaskLoop, mAllocBufferLoop,
                     allocTasks, waitTasks, fetching>>
  BY DEF LatePicture, Take, Fetched, component, format, flags, dequeue
<1>2. BroughtCount' >= BroughtCount /\ (Lacks(mTaskQueue, "flush") => Lacks(mTaskQueue', "flush"))
  BY <1>1, SupplyTaken
<1>3. /\ DOMAIN bs = DOMAIN mGraphicBlocks
      /\ \A id \in DOMAIN mGraphicBlocks : bs[id].state \in {mGraphicBlocks[id].state, "ACCELERATOR"}
  BY Types, SentBlocks
<1> HIDE DEF task, bs
<1>4. Owned(mGraphicBlocks, Ids(mPendingBuffersToWork)) \subseteq
          Owned(mGraphicBlocks', Ids(mPendingBuffersToWork'))
  BY <1>1, <1>3 DEF Owned
<1>5. Supply' >= Supply
  BY <1>1, <1>2, <1>4, OwnedMore, SupplyMore
<1> QED BY <1>1, <1>2, <1>5, SupplyKept

-----------------------------------------------------------------------------
(* The decoder is supplied: the dequeue thread starts again. *)

\* Where no picture waits, a block is the decoder's, the component's or the client's.
LEMMA OwnedParts ==
    ASSUME NEW bs, Blocks(bs)
    PROVE  Cardinality(Owned(bs, {})) =
               Cardinality(With(bs, "COMPONENT")) + Cardinality(With(bs, "ACCELERATOR"))
<1> DEFINE component1 == With(bs, "COMPONENT")
           accelerator == With(bs, "ACCELERATOR")
<1>1. Owned(bs, {}) = component1 \cup accelerator
  <2>1. \A id \in DOMAIN bs : bs[id].state \in State
    BY BlockFields DEF Blocks
  <2> QED BY <2>1 DEF Owned, With, State
<1>2. component1 \cap accelerator = {}
  BY DEF With
<1>3. /\ IsFiniteSet(component1) /\ Cardinality(component1) \in Nat
      /\ IsFiniteSet(accelerator) /\ Cardinality(accelerator) \in Nat
  BY WithFinite
<1> HIDE DEF component1, accelerator
<1>4. Cardinality(component1 \cup accelerator) =
          Cardinality(component1) + Cardinality(accelerator) - Cardinality(component1 \cap accelerator)
  BY <1>3, FS_Union
<1>5. Cardinality(component1 \cap accelerator) = 0
  BY <1>2, FS_EmptySet
<1>6. Cardinality(component1 \cup accelerator) = Cardinality(component1) + Cardinality(accelerator)
  BY <1>3, <1>4, <1>5
<1> QED BY <1>1, <1>6 DEF component1, accelerator

\* The first work after a flush or an end of stream: the counts tell how many blocks
\* are missing.
LEMMA SupplyRestart ==
    ASSUME TypeInv, OrderInv, DrainInv, SupplyTyped, SupplyTyped', onQueueWork,
           mHaveFlushDone \/ mReportEosWork, Supplying'
    PROVE  Supplied'
<1>1. /\ mComponentState = "STARTED" /\ mBufferFirstAllocated
      /\ UNCHANGED <<mOutputFormat, mPendingBuffersToWork>>
      /\ mRunTaskLoop' = TRUE /\ mAllocBufferLoop' = TRUE
      /\ PostAllocTasks(Missing(mGraphicBlockStateCount'), allocTasks, waitTasks, TRUE)
  BY DEF onQueueWork, component, format, Supplying
<1>2. mPendingBuffersToWork = <<>>
  BY <1>1 DEF OrderInv, FlushInv, DrainInv, InSession, Quiet
<1>3. Ids(mPendingBuffersToWork') = {}
  BY <1>1, <1>2 DEF Ids
<1> DEFINE bs == mGraphicBlocks'
           c == Cardinality(With(bs, "CLIENT"))
           p == Cardinality(With(bs, "COMPONENT"))
           a == Cardinality(With(bs, "ACCELERATOR"))
<1>4. Blocks(bs)
  BY DEF SupplyTyped
<1>5. /\ mGraphicBlockStateCount'["CLIENT"] = c /\ mGraphicBlockStateCount'["COMPONENT"] = p
      /\ mGraphicBlockStateCount'["ACCELERATOR"] = a
  BY DEF Supplying, CountsRight, State
<1>6. c \in Nat /\ p \in Nat /\ a \in Nat
  <2> HIDE DEF bs
  <2> QED BY <1>4, WithFinite
<1>7. OwnedCount' = p + a
  <2>1. OwnedCount' = Cardinality(Owned(bs, {}))
    BY <1>3 DEF OwnedCount
  <2> HIDE DEF bs
  <2> QED BY <1>4, <2>1, OwnedParts
<1> DEFINE num == mOutputFormat.num
           missing == c + IF num - c - a - p > 0 THEN num - c - a - p ELSE 0
<1>8. num \in Nat /\ mOutputFormat'.num = num
  BY <1>1 DEF SupplyTyped
<1>9. Missing(mGraphicBlockStateCount') = missing
  <2> HIDE DEF c, p, a
  <2> QED BY <1>5 DEF Missing
<1> HIDE DEF bs, c, p, a
<1>10. missing \in Nat /\ p + a + missing >= num
  <2> HIDE DEF num
  <2> QED BY <1>6, <1>8
<1>11. allocTasks' = allocTasks + missing /\ waitTasks' = waitTasks
  BY <1>1, <1>9 DEF PostAllocTasks
<1> HIDE DEF missing, num
<1>12. Supply' >= num
  BY <1>6, <1>7, <1>8, <1>10, <1>11, SupplyNat DEF Supply
<1> QED BY <1>1, <1>8, <1>12 DEF Supplied

LEMMA SupplyQueueWork ==
    ASSUME TypeInv, OrderInv, DrainInv, SupplyTyped, SupplyTyped', SupplyInv, onQueueWork
    PROVE  SupplyInv'
<1>1. CASE mHaveFlushDone \/ mReportEosWork
  BY <1>1, SupplyRestart DEF SupplyInv
<1>2. CASE ~(mHaveFlushDone \/ mReportEosWork)
  <2>1. /\ mTaskQueue # <<>> /\ mTaskQueue' = Tail(mTaskQueue) /\ Head(mTaskQueue).type \notin Fetched
        /\ Counted(mGraphicBlocks, mGraphicBlocks')
        /\ UNCHANGED <<mComponentState, mCompHasError, mBufferFirstAllocated, mOutputFormat, mResolutionChanging,
                       mHaveDrainDone, mGraphicBlocks, mPendingBuffersToWork, flushing, mRunTaskLoop,
                       mAllocBufferLoop, allocTasks, waitTasks, fetching>>
        /\ mHaveFlushDone' = FALSE
    BY <1>2 DEF onQueueWork, Take, Fetched, component, format
  <2>2. mHaveFlushDone' = mHaveFlushDone
    BY <1>2, <2>1, Types
  <2>3. BroughtCount' >= BroughtCount /\ (Lacks(mTaskQueue, "flush") => Lacks(mTaskQueue', "flush"))
    BY <2>1, SupplyTaken
  <2>4. OwnedCount' = OwnedCount
    BY <2>1 DEF OwnedCount
  <2>5. Supply' >= Supply
    BY <2>1, <2>3, <2>4, SupplyNat, SupplyMore
  <2> QED BY <2>1, <2>2, <2>3, <2>5, SupplyKept DEF Alive
<1> QED BY <1>1, <1>2

-----------------------------------------------------------------------------
(* The decoder is supplied: a change of the format. *)

\* The first blocks are the decoder's, tasks fetch the others.
LEMMA SupplyFirst ==
    ASSUME TypeInv, OrderInv, SupplyTyped', ~mBufferFirstAllocated, NEW fmt \in Format,
           allocateBuffersFromBlockPool(fmt), mOutputFormat' = fmt, UNCHANGED mPendingBuffersToWork
    PROVE  Supplied'
<1>1. PICK first \in [0..FirstBlocks - 1 -> {b \in Buffer : b.size = fmt.size} \ client] :
        LET bs == [id \in DOMAIN first |->
                      [buf |-> first[id], fd |-> first[id], state |-> "ACCELERATOR", fdSet |-> TRUE]]
        IN  /\ mGraphicBlocks' = bs
            /\ RestartDequeue(fmt.num - FirstBlocks)
  BY DEF allocateBuffersFromBlockPool
<1> DEFINE bs == [id \in DOMAIN first |->
                      [buf |-> first[id], fd |-> first[id], state |-> "ACCELERATOR", fdSet |-> TRUE]]
<1>2. FirstBlocks \in Nat /\ fmt.num \in Nat /\ FirstBlocks <= fmt.num
  BY NumsAssumption DEF Format
<1>3. mRunTaskLoop' = TRUE /\ mAllocBufferLoop' = TRUE /\ allocTasks' = fmt.num - FirstBlocks /\ waitTasks' = 0
  <2>1. RestartDequeue(fmt.num - FirstBlocks)
    BY <1>1
  <2> QED BY <2>1, <1>2 DEF RestartDequeue, PostAllocTasks
<1>4. Ids(mPendingBuffersToWork') = {}
  <2>1. mPendingBuffersToWork = <<>>
    BY DEF OrderInv, EmptyInv
  <2> QED BY <2>1 DEF Ids
<1>5. Owned(bs, {}) = 0..FirstBlocks - 1
  <2>1. DOMAIN bs = 0..FirstBlocks - 1 /\ \A id \in DOMAIN bs : bs[id].state # "CLIENT"
    OBVIOUS
  <2> HIDE DEF bs
  <2> QED BY <2>1 DEF Owned
<1>6. mGraphicBlocks' = bs
  BY <1>1
<1> HIDE DEF bs
<1>7. OwnedCount' = Cardinality(0..FirstBlocks - 1)
  BY <1>4, <1>5, <1>6 DEF OwnedCount
<1>8. Cardinality(0..FirstBlocks - 1) = FirstBlocks
  <2>1. Cardinality(0..FirstBlocks - 1) = IF 0 > FirstBlocks - 1 THEN 0 ELSE (FirstBlocks - 1) - 0 + 1
    BY <1>2, FS_Interval
  <2> QED BY <1>2, <2>1
<1>9. BroughtCount' \in Nat /\ fetching' \in BOOLEAN
  BY DEF SupplyTyped
<1>10. Supply' >= fmt.num
  BY <1>2, <1>3, <1>7, <1>8, <1>9 DEF Supply
<1> QED BY <1>3, <1>10 DEF Supplied

\* A change that drops or sends the blocks has one task for each buffer.
LEMMA SupplyChanged ==
    ASSUME SupplyTyped', NEW bs, NEW fmt \in Format, videoResolutionChange(bs, fmt), mOutputFormat' = fmt
    PROVE  Supplied'
<1>1. fmt.num \in Nat
  BY NumsAssumption DEF Format
<1>2. mRunTaskLoop' = TRUE /\ mAllocBufferLoop' = TRUE /\ allocTasks' = fmt.num /\ waitTasks' = 0
  BY <1>1 DEF videoResolutionChange, RestartDequeue, PostAllocTasks
<1>3. OwnedCount' \in Nat /\ BroughtCount' \in Nat /\ fetching' \in BOOLEAN
  BY DEF SupplyTyped
<1>4. Supply' >= fmt.num
  BY <1>1, <1>2, <1>3 DEF Supply
<1> QED BY <1>2, <1>4 DEF Supplied

\* A change that waits keeps what its caller has: the blocks bs and the tasks behind.
LEMMA SupplyWaits ==
    ASSUME TypeInv, SupplyTyped, SupplyTyped', SupplyInv, mTaskQueue # <<>>,
           NEW bs, Blocks(bs), NEW fmt \in Format, tryChangeOutputFormat(bs, fmt), WaitsForPictures,
           UNCHANGED <<mPendingBuffersToWork, mHaveFlushDone, mHaveDrainDone, flushing>>,
           Cardinality(Owned(bs, Ids(mPendingBuffersToWork)))
               + Cardinality(Brought(Tail(mTaskQueue), mOutputFormat.size)) >= OwnedCount + BroughtCount
    PROVE  SupplyInv'
<1> DEFINE rest == Tail(mTaskQueue)
           size == mOutputFormat.size
<1>1. /\ mTaskQueue' = Append(rest, [type |-> "tryChange"])
      /\ mGraphicBlocks' = bs /\ Counted(mGraphicBlocks, mGraphicBlocks')
      /\ UNCHANGED <<mComponentState, mCompHasError, mOutputFormat, mBufferFirstAllocated, mResolutionChanging,
                     mRunTaskLoop, mAllocBufferLoop, allocTasks, waitTasks, fetching>>
  BY DEF tryChangeOutputFormat, component, dequeue
<1>2. /\ rest \in Seq(Task)
      /\ Lacks(mTaskQueue, "flush") => Lacks(rest, "flush")
  BY Types, TakeKeeps, TailElements
<1>3. PICK t \in Task : t = [type |-> "tryChange"]
  BY KindsOfTask
<1>4. t.type # "flush" /\ mTaskQueue' = Append(rest, t)
  BY <1>1, <1>3
<1> HIDE DEF rest
<1>5. Lacks(mTaskQueue, "flush") => Lacks(mTaskQueue', "flush")
  BY <1>2, <1>4, PostKeeps
<1>6. /\ Cardinality(Brought(rest, size)) \in Nat /\ BroughtCount' >= Cardinality(Brought(rest, size))
  <2> DEFINE before == Brought(rest, size)
             after == Brought(mTaskQueue', mOutputFormat'.size)
  <2>1. before \subseteq after
    BY <1>1, <1>2, <1>4, BroughtPosted
  <2>2. IsFiniteSet(after) /\ BroughtCount' = Cardinality(after)
    BY DEF SupplyTyped, BroughtCount
  <2> HIDE DEF before, after
  <2>3. Cardinality(before) \in Nat /\ Cardinality(after) \in Nat /\ Cardinality(before) <= Cardinality(after)
    BY <2>1, <2>2, CardLess
  <2> QED BY <2>2, <2>3 DEF before
<1>7. OwnedCount' = Cardinality(Owned(bs, Ids(mPendingBuffersToWork)))
  BY <1>1 DEF OwnedCount
<1>8. OwnedCount' + BroughtCount' >= OwnedCount + BroughtCount
  <2> DEFINE n == Cardinality(Brought(rest, size))
  <2>1. n \in Nat /\ BroughtCount' >= n /\ OwnedCount' + n >= OwnedCount + BroughtCount
    BY <1>6, <1>7 DEF rest
  <2> HIDE DEF n
  <2> QED BY <2>1, SupplyNat
<1>9. Supply' >= Supply
  <2>1. allocTasks' = allocTasks /\ waitTasks' = waitTasks /\ fetching' = fetching
    BY <1>1
  <2> QED BY <2>1, <1>8, SupplyNat DEF Supply
<1> QED BY <1>1, <1>5, <1>9, SupplyKept DEF Alive

LEMMA SupplyChange ==
    ASSUME TypeInv, OrderInv, SupplyTyped, SupplyTyped', SupplyInv, mTaskQueue # <<>>,
           NEW bs, Blocks(bs), NEW fmt \in Format, tryChangeOutputFormat(bs, fmt),
           UNCHANGED <<mPendingBuffersToWork, mHaveFlushDone, mHaveDrainDone, flushing>>,
           Cardinality(Owned(bs, Ids(mPendingBuffersToWork)))
               + Cardinality(Brought(Tail(mTaskQueue), mOutputFormat.size)) >= OwnedCount + BroughtCount
    PROVE  SupplyInv'
<1>1. CASE WaitsForPictures
  BY <1>1, SupplyWaits
<1>2. CASE ~WaitsForPictures /\ With(bs, "ACCELERATOR") # {}
  <2>1. mCompHasError' = "accAtChange"
    BY <1>2 DEF tryChangeOutputFormat, reportError
  <2> QED BY <2>1 DEF SupplyInv, Supplying, Alive
<1>3. CASE ~WaitsForPictures /\ With(bs, "ACCELERATOR") = {}
  <2>1. /\ mOutputFormat' = fmt
        /\ IF mBufferFirstAllocated THEN videoResolutionChange(bs, fmt)
                                    ELSE allocateBuffersFromBlockPool(fmt)
    BY <1>3 DEF tryChangeOutputFormat
  <2>2. Supplied'
    <3>1. CASE mBufferFirstAllocated
      BY <2>1, <3>1, SupplyChanged
    <3>2. CASE ~mBufferFirstAllocated
      BY <2>1, <3>2, SupplyFirst
    <3> QED BY <3>1, <3>2
  <2> QED BY <2>2 DEF SupplyInv
<1> QED BY <1>1, <1>2, <1>3

\* The task of the caller is gone: what it brought, its caller has among the blocks.
LEMMA SupplyCaller ==
    ASSUME TypeInv, SupplyTyped, mTaskQueue # <<>>, NEW bs, Blocks(bs),
           \/ /\ Head(mTaskQueue).type \notin Fetched
              /\ Owned(mGraphicBlocks, Ids(mPendingBuffersToWork)) \subseteq
                     Owned(bs, Ids(mPendingBuffersToWork))
           \/ \E id : /\ id \notin Owned(mGraphicBlocks, Ids(mPendingBuffersToWork))
                      /\ Owned(mGraphicBlocks, Ids(mPendingBuffersToWork)) \cup {id} \subseteq
                             Owned(bs, Ids(mPendingBuffersToWork))
    PROVE  Cardinality(Owned(bs, Ids(mPendingBuffersToWork)))
               + Cardinality(Brought(Tail(mTaskQueue), mOutputFormat.size)) >= OwnedCount + BroughtCount
<1> DEFINE owned == Owned(mGraphicBlocks, Ids(mPendingBuffersToWork))
           after == Owned(bs, Ids(mPendingBuffersToWork))
           brought == Brought(mTaskQueue, mOutputFormat.size)
           rest == Brought(Tail(mTaskQueue), mOutputFormat.size)
           buf == Head(mTaskQueue).buf
<1>1. brought \ {buf} \subseteq rest /\ (Head(mTaskQueue).type \notin Fetched => brought \subseteq rest)
  BY Types, BroughtTaken
<1>2. IsFiniteSet(owned) /\ IsFiniteSet(after) /\ IsFiniteSet(brought) /\ OwnedCount = Cardinality(owned)
      /\ BroughtCount = Cardinality(brought)
  BY OwnedFinite DEF SupplyTyped, OwnedCount, BroughtCount
<1>3. IsFiniteSet(rest)
  <2>1. Tail(mTaskQueue) \in Seq(Task)
    BY Types, TailElements
  <2> QED BY <2>1, BroughtFinite
<1>4. \/ Head(mTaskQueue).type \notin Fetched /\ owned \subseteq after
      \/ \E id : id \notin owned /\ owned \cup {id} \subseteq after
  OBVIOUS
<1> HIDE DEF owned, after, brought, rest, buf
<1>5. /\ Cardinality(owned) \in Nat /\ Cardinality(after) \in Nat
      /\ Cardinality(brought) \in Nat /\ Cardinality(rest) \in Nat
      /\ Cardinality(brought) <= Cardinality(rest) + 1
  BY <1>1, <1>2, <1>3, CardLost, FS_CardinalityType
<1>6. CASE Head(mTaskQueue).type \notin Fetched /\ owned \subseteq after
  <2>1. Cardinality(owned) <= Cardinality(after) /\ Cardinality(brought) <= Cardinality(rest)
    BY <1>1, <1>2, <1>3, <1>6, CardLess
  <2>2. Cardinality(after) + Cardinality(rest) >= OwnedCount + BroughtCount
    BY <2>1, <1>2, <1>5
  <2> QED BY <2>2 DEF after, rest
<1>7. CASE \E id : id \notin owned /\ owned \cup {id} \subseteq after
  <2>1. Cardinality(owned) + 1 <= Cardinality(after)
    BY <1>2, <1>7, CardWon
  <2>2. Cardinality(after) + Cardinality(rest) >= OwnedCount + BroughtCount
    BY <2>1, <1>2, <1>5
  <2> QED BY <2>2 DEF after, rest
<1> QED BY <1>4, <1>6, <1>7

LEMMA SupplyChanges ==
    ASSUME TypeInv, OrderInv, SurfaceInv, SupplyTyped, SupplyTyped', SupplyInv, Changes
    PROVE  SupplyInv'
<1>1. /\ mTaskQueue # <<>>
      /\ UNCHANGED <<mPendingBuffersToWork, mHaveFlushDone, mHaveDrainDone, flushing>>
  BY DEF Changes, TryChange, onOutputFormatChanged, onOutputBufferReturned, flags
<1>2. CASE TryChange /\ mPendingOutputFormat # NoFormat
  <2>1. /\ tryChangeOutputFormat(mGraphicBlocks, mPendingOutputFormat)
        /\ Head(mTaskQueue).type \notin Fetched
    BY <1>2 DEF TryChange, Fetched
  <2>2. mPendingOutputFormat \in Format /\ Blocks(mGraphicBlocks)
    BY <1>2, Types
  <2>3. Cardinality(Owned(mGraphicBlocks, Ids(mPendingBuffersToWork)))
            + Cardinality(Brought(Tail(mTaskQueue), mOutputFormat.size)) >= OwnedCount + BroughtCount
    BY <1>1, <2>1, <2>2, SupplyCaller
  <2> QED BY <1>1, <2>1, <2>2, <2>3, SupplyChange
<1>3. CASE onOutputFormatChanged
  <2> DEFINE bs == Moved(mGraphicBlocks, With(mGraphicBlocks, "ACCELERATOR"), "COMPONENT")
             fmt == Head(mTaskQueue).fmt
  <2>1. /\ tryChangeOutputFormat(bs, fmt)
        /\ Head(mTaskQueue).type = "format"
    BY <1>3 DEF onOutputFormatChanged
  <2>2. fmt \in Format
    BY <1>1, <2>1, Types, TailElements, TaskKinds
  <2>3. /\ Blocks(bs) /\ DOMAIN bs = DOMAIN mGraphicBlocks
        /\ \A id \in DOMAIN mGraphicBlocks :
               bs[id].state = IF id \in With(mGraphicBlocks, "ACCELERATOR") THEN "COMPONENT"
                                                                            ELSE mGraphicBlocks[id].state
    <3>1. "COMPONENT" \in State
      BY DEF State
    <3> QED BY <3>1, Types, MovedBlocks
  <2> HIDE DEF bs, fmt
  <2>4. Owned(mGraphicBlocks, Ids(mPendingBuffersToWork)) \subseteq Owned(bs, Ids(mPendingBuffersToWork))
    BY <2>3 DEF Owned
  <2>5. Cardinality(Owned(bs, Ids(mPendingBuffersToWork)))
            + Cardinality(Brought(Tail(mTaskQueue), mOutputFormat.size)) >= OwnedCount + BroughtCount
    BY <1>1, <2>1, <2>3, <2>4, SupplyCaller DEF Fetched
  <2> QED BY <1>1, <2>1, <2>2, <2>3, <2>5, SupplyChange
<1>4. CASE onOutputBufferReturned /\ mPendingOutputFormat # NoFormat
  <2> DEFINE task == Head(mTaskQueue)
             bs == Back(task)
  <2>1. /\ tryChangeOutputFormat(bs, mPendingOutputFormat)
        /\ task.type = "returned" /\ task \in Elements(mTaskQueue)
        /\ task.buf \in Buffer /\ ~Obsolete(task.buf)
    BY <1>4, ReturnedParts
  <2>2. mPendingOutputFormat \in Format
    BY <1>4, Types
  <2> HIDE DEF task
  <2>3. /\ Blocks(bs)
        /\ Owned(mGraphicBlocks, Ids(mPendingBuffersToWork)) \cup {task.id} \subseteq
               Owned(bs, Ids(mPendingBuffersToWork))
        /\ task.id \notin Owned(mGraphicBlocks, Ids(mPendingBuffersToWork))
    BY <2>1, SupplyBack
  <2> HIDE DEF bs
  <2>4. Cardinality(Owned(bs, Ids(mPendingBuffersToWork)))
            + Cardinality(Brought(Tail(mTaskQueue), mOutputFormat.size)) >= OwnedCount + BroughtCount
    BY <1>1, <2>3, SupplyCaller
  <2> QED BY <1>1, <2>1, <2>2, <2>3, <2>4, SupplyChange
<1> QED BY <1>2, <1>3, <1>4 DEF Changes

-----------------------------------------------------------------------------
(* The decoder is supplied: every step, and the theorem. *)

LEMMA SupplyStep ==
    ASSUME TypeInv, OrderInv, KnownInv, DrainInv, SurfaceInv, SupplyInv, mUseBufferQueue, [Next]_vars
    PROVE  SupplyInv'
<1>1. SupplyTyped /\ SupplyTyped'
  <2>1. TypeInv'
    BY TypeStep
  <2> QED BY <2>1, SupplyTypes, SupplyTypesNext
<1>2. ~Supplying' => SupplyInv'
  BY DEF SupplyInv
<1>3. CASE MainThread
  <2>1. CASE Changes
    BY <2>1, <1>1, SupplyChanges
  <2>2. CASE ~Changes /\ (TryChange \/ onOutputBufferReturned)
    BY <2>2, <1>1, SupplyDropped, SupplyReturned DEF Changes
  <2>3. CASE \/ Skip \/ ReturnedUnknown \/ ReturnedNotOwned \/ DropPicture
             \/ onFlush \/ onFlushDone \/ onStart \/ onStop \/ onStopDone
    BY <2>3, <1>2, SupplyVoid
  <2>4. CASE DropReturned \/ DropFetched
    <3>1. DropReturned \/ DropFetched \/ (TryChange /\ mPendingOutputFormat = NoFormat)
      BY <2>4
    <3> QED BY <3>1, <1>1, SupplyDropped
  <2>5. CASE onNewBlockBufferFetched \/ LatePicture \/ onOutputBufferDone
    BY <2>5, <1>1, SupplyFetched, SupplyLate, SupplyDone
  <2>6. CASE sendOutputBufferToWorkIfAnyTask \/ onDrainDone \/ onQueueWork
    BY <2>6, <1>1, SupplySend, SupplyQueueWork
  <2> QED BY <2>1, <2>2, <2>3, <2>4, <2>5, <2>6, <1>3 DEF MainThread, Changes
<1>4. CASE DequeueThread
  BY <1>4, <1>1, SupplyDequeue, SupplyFetch DEF DequeueThread
<1>5. CASE DecoderThread
  BY <1>5, <1>1, <1>2, SupplyCalls, SupplyVoid DEF DecoderThread
<1>6. CASE Client \/ UNCHANGED vars
  BY <1>6, <1>1, <1>2, SupplyCalls, SupplyVoid DEF Client
<1> QED BY <1>3, <1>4, <1>5, <1>6 DEF Next

LEMMA SupplyAlways ==
    Spec => [](TypeInv /\ OrderInv /\ KnownInv /\ DrainInv /\ (mUseBufferQueue => SurfaceInv /\ SupplyInv))
<1> DEFINE Inv == TypeInv /\ OrderInv /\ KnownInv /\ DrainInv /\ (mUseBufferQueue => SurfaceInv /\ SupplyInv)
<1>1. Init => Inv
  <2>1. Init => SupplyInv
    BY DEF Init, SupplyInv, Supplying
  <2> QED BY <2>1, TypeInit, SurfaceInit, DrainInit
<1>2. Inv /\ [Next]_vars => Inv'
  <2> SUFFICES ASSUME TypeInv, OrderInv, KnownInv, DrainInv, mUseBufferQueue => SurfaceInv /\ SupplyInv,
                      [Next]_vars
               PROVE  /\ TypeInv' /\ OrderInv' /\ KnownInv' /\ DrainInv'
                      /\ mUseBufferQueue' => SurfaceInv' /\ SupplyInv'
    OBVIOUS
  <2>1. TypeInv' /\ OrderInv' /\ KnownInv' /\ DrainInv'
    BY TypeStep, OrderStep, KnownStep, DrainStep
  <2>2. mUseBufferQueue' => SurfaceInv' /\ SupplyInv'
    BY SurfaceStep, SupplyStep, PoolStays
  <2> QED BY <2>1, <2>2
<1> QED BY <1>1, <1>2, PTL DEF Spec

\* Of a surface, while the decoder decodes, each of the buffers it asked for is with the
\* decoder or the component, or a task fetches a block in its place: through each picture,
\* return, change of the format, flush and end of the stream no block is lost, provided
\* that the counts reStartAllocTask() reads are right.
THEOREM DecoderSuppliedCorrect == Spec => []DecoderSupplied
<1>1. TypeInv /\ OrderInv /\ KnownInv /\ DrainInv /\ (mUseBufferQueue => SurfaceInv /\ SupplyInv) =>
          DecoderSupplied
  <2> SUFFICES ASSUME TypeInv, OrderInv, SupplyInv,
                      CountsRight, Alive, mComponentState = "STARTED", mBufferFirstAllocated,
                      Decoding, ~mHaveFlushDone, ~mHaveDrainDone, ~mResolutionChanging
               PROVE  Cardinality(DOMAIN mGraphicBlocks \ With(mGraphicBlocks, "CLIENT")) + allocTasks
                          + waitTasks + Cardinality(OnTheWay) + (IF fetching THEN 1 ELSE 0)
                          >= mOutputFormat.num
    BY DEF DecoderSupplied
  <2>1. ~(flushing /\ Lacks(mTaskQueue, "flush"))
    BY DEF OrderInv, FlushInv, Quiet, Decoding
  <2>2. Supply >= mOutputFormat.num
    BY <2>1 DEF SupplyInv, Supplying, Supplied
  <2> DEFINE owned == Owned(mGraphicBlocks, Ids(mPendingBuffersToWork))
             kept == DOMAIN mGraphicBlocks \ With(mGraphicBlocks, "CLIENT")
  <2>3. OwnedCount <= Cardinality(kept) /\ Cardinality(kept) \in Nat
    <3>1. owned \subseteq kept
      BY DEF Owned, With
    <3>2. IsFiniteSet(kept)
      <4>1. IsFiniteSet(DOMAIN mGraphicBlocks) /\ kept \subseteq DOMAIN mGraphicBlocks
        BY Types DEF Blocks
      <4> HIDE DEF kept
      <4> QED BY <4>1, CardLess
    <3>3. OwnedCount = Cardinality(owned)
      BY DEF OwnedCount
    <3> HIDE DEF owned, kept
    <3> QED BY <3>1, <3>2, <3>3, CardLess
  <2>4. BroughtCount <= Cardinality(OnTheWay) /\ Cardinality(OnTheWay) \in Nat
    <3>1. OnTheWay = {i \in 1..Len(mTaskQueue) : mTaskQueue[i].type \in Fetched}
      BY DEF OnTheWay, Fetched
    <3> QED BY <3>1, Types, BroughtFinite DEF BroughtCount
  <2>5. OwnedCount \in Nat /\ BroughtCount \in Nat /\ mOutputFormat.num \in Nat
    BY SupplyTypes DEF SupplyTyped
  <2>6. allocTasks \in Nat /\ waitTasks \in Nat /\ fetching \in BOOLEAN
    BY Types
  <2> HIDE DEF kept
  <2>7. Cardinality(kept) + allocTasks + waitTasks + Cardinality(OnTheWay) + (IF fetching THEN 1 ELSE 0)
            >= mOutputFormat.num
    BY <2>2, <2>3, <2>4, <2>5, <2>6 DEF Supply
  <2> QED BY <2>7 DEF kept
<1> QED BY <1>1, SupplyAlways, PTL
=============================================================================
