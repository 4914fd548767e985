------------------------ MODULE VencEncodersProofs ------------------------
(***************************************************************************)
(* Proofs about VencEncoders, for each of the encoders, any parameters the *)
(* client may configure, and any number of sessions, failures and frames.  *)
(*                                                                         *)
(* Types; that the level of an AVC stream covers it (by IntfInv: what is   *)
(* configured is supported, and the table of levels rises); and that the   *)
(* library has the stream and the rate it should have (by LibraryInv: the  *)
(* functions of an open library are loaded, and its rate is the one that   *)
(* the encoder knows).                                                     *)
(***************************************************************************)
EXTENDS VencEncoders, TLAPS

(* Arithmetic.                                                               *)

LEMMA MaxOfTwo ==
    ASSUME NEW m \in Int, NEW n \in Int
    PROVE  Max({m, n}) = IF m >= n THEN m ELSE n
<1> DEFINE Greatest(x) == \A y \in {m, n} : x >= y
<1>1. \E x \in {m, n} : Greatest(x)
  OBVIOUS
<1>2. Max({m, n}) \in {m, n} /\ Greatest(Max({m, n}))
  BY <1>1 DEF Max
<1> QED BY <1>2

LEMMA MinOfTwo ==
    ASSUME NEW m \in Int, NEW n \in Int
    PROVE  Min({m, n}) = IF m <= n THEN m ELSE n
<1> DEFINE Least(x) == \A y \in {m, n} : x <= y
<1>1. \E x \in {m, n} : Least(x)
  OBVIOUS
<1>2. Min({m, n}) \in {m, n} /\ Least(Min({m, n}))
  BY <1>1 DEF Min
<1> QED BY <1>2

\* A set of at most 14 numbers has a least one.
LEMMA LeastOf ==
    ASSUME NEW S \in SUBSET (1..14), S # {}
    PROVE  Min(S) \in S /\ \A y \in S : Min(S) <= y
<1> DEFINE Least(x) == \A y \in S : x <= y
<1>1. \E x \in S : Least(x)
  <2>1. CASE S \cap 1..7 # {}
    <3>1. CASE 1 \in S BY <3>1
    <3>2. CASE 1 \notin S /\ 2 \in S BY <3>2
    <3>3. CASE S \cap 1..2 = {} /\ 3 \in S BY <3>3
    <3>4. CASE S \cap 1..3 = {} /\ 4 \in S BY <3>4
    <3>5. CASE S \cap 1..4 = {} /\ 5 \in S BY <3>5
    <3>6. CASE S \cap 1..5 = {} /\ 6 \in S BY <3>6
    <3>7. CASE S \cap 1..6 = {} /\ 7 \in S BY <3>7
    <3> QED BY <2>1, <3>1, <3>2, <3>3, <3>4, <3>5, <3>6, <3>7
  <2>2. CASE S \cap 1..7 = {}
    <3>1. CASE 8 \in S BY <2>2, <3>1
    <3>2. CASE 8 \notin S /\ 9 \in S BY <2>2, <3>2
    <3>3. CASE S \cap 1..9 = {} /\ 10 \in S BY <3>3
    <3>4. CASE S \cap 1..10 = {} /\ 11 \in S BY <3>4
    <3>5. CASE S \cap 1..11 = {} /\ 12 \in S BY <3>5
    <3>6. CASE S \cap 1..12 = {} /\ 13 \in S BY <3>6
    <3>7. CASE S \cap 1..13 = {} /\ 14 \in S BY <3>7
    <3>8. PICK n \in 1..14 : n \in S
      OBVIOUS
    <3>17. n \in 8..14
      <4>1. n \notin 1..7
        BY <2>2, <3>8
      <4> QED BY <4>1
    <3>9. S \cap 1..8 = {} \/ 8 \in S
      BY <2>2
    <3>10. S \cap 1..8 = {} => S \cap 1..9 = {} \/ 9 \in S
      OBVIOUS
    <3>11. S \cap 1..9 = {} => S \cap 1..10 = {} \/ 10 \in S
      OBVIOUS
    <3>12. S \cap 1..10 = {} => S \cap 1..11 = {} \/ 11 \in S
      OBVIOUS
    <3>13. S \cap 1..11 = {} => S \cap 1..12 = {} \/ 12 \in S
      OBVIOUS
    <3>14. S \cap 1..12 = {} => S \cap 1..13 = {} \/ 13 \in S
      OBVIOUS
    <3>15. S \cap 1..13 = {} => 14 \in S
      BY <3>8, <3>17
    <3>16. CASE 8 \notin S
      BY <3>2, <3>3, <3>4, <3>5, <3>6, <3>7, <3>9, <3>10, <3>11, <3>12, <3>13, <3>14, <3>15, <3>16
    <3> QED BY <3>1, <3>16
  <2> QED BY <2>1, <2>2
<1>2. Min(S) \in S /\ Least(Min(S))
  BY <1>1 DEF Min
<1> QED BY <1>2

(* The tables of levels.                                                     *)

LEMMA AvcTable ==
    ASSUME NEW i \in 1..14
    PROVE  /\ AvcLimits[i].rate \in Nat /\ AvcLimits[i].samples \in Nat
           /\ AvcLimits[i].bitrate \in Nat
<1>1. CASE i \in 1..7 BY <1>1 DEF AvcLimits, Level
<1>2. CASE i \in 8..14 BY <1>2 DEF AvcLimits, Level
<1> QED BY <1>1, <1>2

LEMMA TableLengths ==
    /\ DOMAIN AvcLimits = 1..14 /\ Len(AvcLimits) = 14
    /\ DOMAIN HevcLimits = 1..13 /\ Len(HevcLimits) = 13
<1>1. DOMAIN AvcLimits = 1..14
  BY DEF AvcLimits
<1>2. Len(AvcLimits) = 14
  BY DEF AvcLimits
<1>3. DOMAIN HevcLimits = 1..13
  BY DEF HevcLimits
<1>4. Len(HevcLimits) = 13
  BY DEF HevcLimits
<1> QED BY <1>1, <1>2, <1>3, <1>4

LEMMA LastAvcLevel ==
    ASSUME NEW i \in 1..14, i = 14
    PROVE  AvcLimits[i].level = "5"
  BY DEF AvcLimits, Level

\* Level 4.1, with which an AVC encoder begins, and what it allows.
LEMMA FirstAvcLevel ==
    ASSUME NEW i \in 1..14, i = 12
    PROVE  /\ AvcLimits[i].level = "4.1" /\ AvcLimits[i].rate = 245760
           /\ AvcLimits[i].samples = 8192 /\ AvcLimits[i].bitrate = 50000000
  BY DEF AvcLimits, Level

\* Each AVC level allows at least what the one before it does.
LEMMA AvcRising ==
    ASSUME NEW i \in 1..13
    PROVE  /\ AvcLimits[i].rate <= AvcLimits[i + 1].rate
           /\ AvcLimits[i].samples <= AvcLimits[i + 1].samples
           /\ AvcLimits[i].bitrate <= AvcLimits[i + 1].bitrate
<1>1. CASE i \in 1..6 BY <1>1 DEF AvcLimits, Level
<1>2. CASE i \in 7..13 BY <1>2 DEF AvcLimits, Level
<1> QED BY <1>1, <1>2

NeedSet == [samples : Nat, rate : Nat, bitrate : Nat]

LEMMA AvcMonotone ==
    ASSUME NEW i \in 1..14, NEW j \in 1..14, i <= j, NEW need \in NeedSet,
           Covers(AvcLimits[i], need)
    PROVE  Covers(AvcLimits[j], need)
<1> DEFINE Covered(k) == k \in 1..14 => Covers(AvcLimits[k], need)
<1>1. ASSUME NEW k \in 1..13, Covered(k)
      PROVE  Covered(k + 1)
  BY <1>1, AvcRising, AvcTable DEF Covers, NeedSet
<1> HIDE DEF Covered
<1>2. Covered(i)
  BY DEF Covered
<1>3. /\ (Covered(1) => Covered(2)) /\ (Covered(2) => Covered(3)) /\ (Covered(3) => Covered(4))
      /\ (Covered(4) => Covered(5)) /\ (Covered(5) => Covered(6)) /\ (Covered(6) => Covered(7))
      /\ (Covered(7) => Covered(8)) /\ (Covered(8) => Covered(9)) /\ (Covered(9) => Covered(10))
      /\ (Covered(10) => Covered(11)) /\ (Covered(11) => Covered(12))
      /\ (Covered(12) => Covered(13)) /\ (Covered(13) => Covered(14))
  BY <1>1
<1>4. Covered(j)
  <2>1. CASE i \in 1..5 BY <1>2, <1>3, <2>1
  <2>2. CASE i \in 6..10 BY <1>2, <1>3, <2>2
  <2>3. CASE i \in 11..14 BY <1>2, <1>3, <2>3
  <2> QED BY <2>1, <2>2, <2>3
<1> QED BY <1>4 DEF Covered

(* The interface.                                                            *)

QpRange == [min : CodecQp, max : CodecQp]
Quantizers == {<<>>} \cup UNION {[types -> QpRange] : types \in SUBSET FrameType}
LevelNames ==
    {AvcLimits[i].level : i \in 1..14} \cup {HevcLimits[i].level : i \in 1..13}
    \cup AvcLevels \cup HevcLevels \cup HevcSupported \cup {"4.1", "5", "main5", "main5.2"}

IntfSet ==
    [size : [width : Nat, height : Nat], frameRate : Nat \ {0}, bitrate : Nat,
     level : LevelNames, period : Nat, qp : Quantizers, requestSync : BOOLEAN]

Rates   == FrameRates \cup {1}
AllPeriods == Periods \cup {1000000}

\* What the client may have configured.
Supported(i) ==
    /\ SupportedWidth(i.size.width) /\ SupportedHeight(i.size.height)
    /\ i.bitrate >= 4096
    /\ i.period \in AllPeriods /\ i.frameRate \in Rates

LevelFits(i) ==
    encoder \in Avc =>
        \E k \in 1..14 :
            /\ i.level = AvcLimits[k].level
            /\ Covers(AvcLimits[k], AvcNeed(i)) \/ k = 14

\* The level the walk over the table ends with, for a level that may be asked for.
LEMMA AdjustedAvc ==
    ASSUME NEW need \in NeedSet, NEW level,
           level = "1b" \/ \E k \in 1..14 : level = AvcLimits[k].level
    PROVE  \E k \in 1..14 :
               /\ Adjusted(level, AvcLimits, need, "5") = AvcLimits[k].level
               /\ Covers(AvcLimits[k], need) \/ k = 14
<1> DEFINE enough == {i \in 1..14 : Covers(AvcLimits[i], need)}
           found  == \E i \in 1..(Min(enough) - 1) : AvcLimits[i].level = level
<1>1. Adjusted(level, AvcLimits, need, "5") =
          IF enough = {} THEN "5"
          ELSE IF level = "1b" \/ found THEN AvcLimits[Min(enough)].level ELSE level
  BY TableLengths DEF Adjusted
<1>2. CASE enough = {}
  <2>1. AvcLimits[14].level = "5"
    BY LastAvcLevel
  <2> QED BY <1>1, <1>2, <2>1
<1>3. CASE enough # {}
  <2>1. PICK m \in 1..14 : m = Min(enough) /\ Covers(AvcLimits[m], need)
    BY <1>3, LeastOf
  <2>2. CASE level = "1b" \/ found
    BY <1>1, <1>3, <2>1, <2>2
  <2>3. CASE ~(level = "1b" \/ found)
    <3>1. PICK k \in 1..14 : level = AvcLimits[k].level
      BY <2>3
    <3>2. m <= k
      <4>1. k \in 1..(m - 1) => found
        BY <2>1, <3>1
      <4> QED BY <2>1, <2>3, <3>1, <4>1
    <3>3. Covers(AvcLimits[k], need)
      BY <2>1, <3>2, AvcMonotone
    <3> QED BY <1>1, <1>3, <2>3, <3>1, <3>3
  <2> QED BY <2>2, <2>3
<1> QED BY <1>2, <1>3

LEMMA AdjustedHevc ==
    ASSUME NEW need, NEW level \in LevelNames
    PROVE  Adjusted(level, HevcLimits, need, "main5.2") \in LevelNames
<1> DEFINE enough == {i \in 1..13 : Covers(HevcLimits[i], need)}
<1>1. Adjusted(level, HevcLimits, need, "main5.2") =
          IF enough = {} THEN "main5.2"
          ELSE IF level = "1b" \/ \E i \in 1..(Min(enough) - 1) : HevcLimits[i].level = level
          THEN HevcLimits[Min(enough)].level ELSE level
  BY TableLengths DEF Adjusted
<1>2. enough # {} => Min(enough) \in 1..13
  BY LeastOf
<1>3. enough # {} => HevcLimits[Min(enough)].level \in LevelNames
  BY <1>2 DEF LevelNames
<1>4. "main5.2" \in LevelNames
  BY DEF LevelNames
<1> QED BY <1>1, <1>3, <1>4

LEMMA AvcNeedType ==
    ASSUME NEW i \in IntfSet
    PROVE  AvcNeed(i) \in NeedSet
<1>1. i.size.width \in Nat /\ i.size.height \in Nat /\ i.frameRate \in Nat /\ i.bitrate \in Nat
  BY DEF IntfSet
<1>2. Blocks(i.size.width) \in Nat /\ Blocks(i.size.height) \in Nat
  BY <1>1 DEF Blocks
<1>3. \A m, n \in Nat : m * n \in Nat
  OBVIOUS
<1>4. Blocks(i.size.width) * Blocks(i.size.height) \in Nat
  BY <1>2, <1>3
<1>5. Blocks(i.size.width) * Blocks(i.size.height) * i.frameRate \in Nat
  BY <1>1, <1>3, <1>4
<1> QED BY <1>1, <1>4, <1>5 DEF AvcNeed, NeedSet

\* A level that is not yet adjusted, of an encoder that is configured.
Asked(i) ==
    encoder \in Avc => i.level = "1b" \/ \E k \in 1..14 : i.level = AvcLimits[k].level

LEMMA WithLevelFits ==
    ASSUME NEW i \in IntfSet, encoder \in Encoder, Asked(i), Supported(i)
    PROVE  /\ WithLevel(i) \in IntfSet
           /\ Supported(WithLevel(i)) /\ LevelFits(WithLevel(i))
<1> DEFINE l == CASE encoder = "HCodec"    -> HCodec_ProfileLevelSetter(i)
                  [] encoder = "W420New"   -> W420New_ProfileLevelSetter(i)
                  [] encoder = "MultiAvc"  -> Multi_AvcProfileLevelSetter(i)
                  [] encoder = "MultiHevc" -> Multi_HevcProfileLevelSetter(i)
<1>1. WithLevel(i) = [i EXCEPT !.level = l]
  BY DEF WithLevel
<1>2. l \in LevelNames /\ (encoder \in Avc =>
          \E k \in 1..14 : l = AvcLimits[k].level /\ (Covers(AvcLimits[k], AvcNeed(i)) \/ k = 14))
  <2>1. CASE encoder \in Avc
    <3>1. l = Adjusted(i.level, AvcLimits, AvcNeed(i), "5")
      BY <2>1 DEF Avc, HCodec_ProfileLevelSetter, Multi_AvcProfileLevelSetter
    <3>2. \E k \in 1..14 : /\ Adjusted(i.level, AvcLimits, AvcNeed(i), "5") = AvcLimits[k].level
                           /\ Covers(AvcLimits[k], AvcNeed(i)) \/ k = 14
      BY <2>1, AvcNeedType, AdjustedAvc DEF Asked
    <3> HIDE DEF l
    <3> QED BY <3>1, <3>2 DEF LevelNames
  <2>2. CASE encoder = "W420New"
    <3>1. PICK level \in LevelNames :
              level = IF i.level \in HevcSupported THEN i.level ELSE "main5"
      BY DEF LevelNames
    <3>2. l = Adjusted(level, HevcLimits, HevcNeed(i), "main5.2")
      BY <2>2, <3>1 DEF W420New_ProfileLevelSetter
    <3> HIDE DEF l
    <3> QED BY <2>2, <3>2, AdjustedHevc DEF Avc
  <2>3. CASE encoder = "MultiHevc"
    <3>1. l = Adjusted(i.level, HevcLimits, HevcNeed(i), "main5.2")
      BY <2>3 DEF Multi_HevcProfileLevelSetter
    <3>2. i.level \in LevelNames
      BY DEF IntfSet
    <3> HIDE DEF l
    <3> QED BY <2>3, <3>1, <3>2, AdjustedHevc DEF Avc
  <2> HIDE DEF l
  <2> QED BY <2>1, <2>2, <2>3 DEF Encoder, Avc
<1> HIDE DEF l
<1>3. WithLevel(i) \in IntfSet
  BY <1>1, <1>2 DEF IntfSet
<1>4. /\ WithLevel(i).level = l /\ WithLevel(i).size = i.size
      /\ WithLevel(i).frameRate = i.frameRate /\ WithLevel(i).bitrate = i.bitrate
      /\ WithLevel(i).period = i.period
  BY <1>1 DEF IntfSet
<1>5. Supported(WithLevel(i))
  BY <1>4 DEF Supported
<1>6. AvcNeed(WithLevel(i)) = AvcNeed(i)
  BY <1>4 DEF AvcNeed
<1> QED BY <1>2, <1>3, <1>4, <1>5, <1>6 DEF LevelFits

(* Types, and what the interface has.                                        *)

IntfInv ==
    /\ encoder \in Encoder
    /\ intf \in IntfSet /\ Supported(intf) /\ LevelFits(intf)
    /\ configured \in IntfSet /\ Supported(configured)

LEMMA FirstFits ==
    ASSUME NEW i \in IntfSet, NEW n \in {1, 99}, i.level = "4.1",
           AvcNeed(i) = [samples |-> n, rate |-> n, bitrate |-> 64000]
    PROVE  LevelFits(i)
<1>1. PICK k \in 1..14 : k = 12
  OBVIOUS
<1>2. AvcLimits[k].level = "4.1" /\ AvcLimits[k].rate = 245760
      /\ AvcLimits[k].samples = 8192 /\ AvcLimits[k].bitrate = 50000000
  BY <1>1, FirstAvcLevel
<1>3. Covers(AvcLimits[k], AvcNeed(i))
  BY <1>2 DEF Covers
<1> QED BY <1>2, <1>3 DEF LevelFits

LEMMA InterfaceType ==
    ASSUME NEW w \in Nat, NEW h \in Nat, NEW l \in {"4.1", "high5.1"}
    PROVE  /\ Interface(w, h, l) \in IntfSet
           /\ Interface(w, h, l).size = [width |-> w, height |-> h]
           /\ Interface(w, h, l).bitrate = 64000 /\ Interface(w, h, l).frameRate = 1
           /\ Interface(w, h, l).period = 1000000 /\ Interface(w, h, l).level = l
<1>1. l \in LevelNames
  <2>1. "4.1" \in LevelNames
    BY DEF LevelNames
  <2>2. "high5.1" \in LevelNames
    BY DEF LevelNames, HevcSupported
  <2> QED BY <2>1, <2>2
<1>2. PICK q \in Quantizers : q = <<>>
  BY DEF Quantizers
<1>3. Interface(w, h, l) =
          [size |-> [width |-> w, height |-> h], frameRate |-> 1, bitrate |-> 64000,
           level |-> l, period |-> 1000000, qp |-> q, requestSync |-> FALSE]
  BY <1>2 DEF Interface
<1> QED BY <1>1, <1>3 DEF IntfSet

LEMMA FirstOf ==
    ASSUME NEW w \in Nat, NEW h \in Nat, NEW l \in {"4.1", "high5.1"}, NEW n \in {1, 99},
           intf = Interface(w, h, l), SupportedWidth(w), SupportedHeight(h),
           encoder \in Avc => l = "4.1", Blocks(w) * Blocks(h) = n
    PROVE  intf \in IntfSet /\ Supported(intf) /\ LevelFits(intf)
<1>1. /\ intf \in IntfSet /\ intf.size = [width |-> w, height |-> h] /\ intf.level = l
      /\ intf.bitrate = 64000 /\ intf.frameRate = 1 /\ intf.period = 1000000
  BY InterfaceType
<1>2. intf.size.width = w /\ intf.size.height = h
  BY <1>1
<1>3. 1000000 \in AllPeriods /\ 1 \in Rates
  BY DEF AllPeriods, Rates
<1>4. Supported(intf)
  BY <1>1, <1>2, <1>3 DEF Supported
<1>5. n * 1 = n
  OBVIOUS
<1>6. AvcNeed(intf) = [samples |-> n, rate |-> n, bitrate |-> 64000]
  BY <1>1, <1>2, <1>5 DEF AvcNeed
<1>7. encoder \in Avc => LevelFits(intf)
  BY <1>1, <1>6, FirstFits
<1> QED BY <1>1, <1>4, <1>7 DEF LevelFits

LEMMA FirstIntf ==
    ASSUME encoder \in Encoder,
           intf = CASE encoder = "HCodec"  -> HCodec_IntfImpl
                    [] encoder = "W420New" -> W420New_IntfImpl
                    [] encoder \in Multi   -> Multi_IntfImpl
    PROVE  intf \in IntfSet /\ Supported(intf) /\ LevelFits(intf)
<1>1. CASE encoder = "HCodec"
  <2>1. PICK w \in Nat, h \in Nat, l \in {"4.1", "high5.1"}, n \in {1, 99} :
            w = 16 /\ h = 16 /\ l = "4.1" /\ n = 1
    OBVIOUS
  <2>2. intf = Interface(w, h, l)
    BY <1>1, <2>1 DEF HCodec_IntfImpl, Multi
  <2>3. SupportedWidth(w) /\ SupportedHeight(h)
    BY <1>1, <2>1 DEF SupportedWidth, SupportedHeight
  <2>4. Blocks(w) * Blocks(h) = n
    BY <2>1 DEF Blocks
  <2> QED BY <2>1, <2>2, <2>3, <2>4, FirstOf
<1>2. CASE encoder \in {"W420New", "MultiAvc", "MultiHevc"}
  <2>1. PICK w \in Nat, h \in Nat, n \in {1, 99} : w = 176 /\ h = 144 /\ n = 99
    OBVIOUS
  <2>2. PICK l \in {"4.1", "high5.1"} :
            intf = Interface(w, h, l) /\ (encoder \in Avc => l = "4.1")
    BY <1>2, <2>1 DEF W420New_IntfImpl, Multi_IntfImpl, Multi, Avc
  <2>3. SupportedWidth(w) /\ SupportedHeight(h)
    <3>1. w \in 176..2160 /\ w \in 176..3840 /\ w % 2 = 0 /\ w % 8 = 0
      BY <2>1
    <3>2. h \in 144..2160 /\ h % 2 = 0
      BY <2>1
    <3>3. SupportedWidth(w)
      <4>1. CASE encoder = "W420New" BY <3>1, <4>1 DEF SupportedWidth
      <4>2. CASE encoder = "MultiAvc" BY <3>1, <4>2 DEF SupportedWidth
      <4>3. CASE encoder = "MultiHevc" BY <3>1, <4>3 DEF SupportedWidth
      <4> QED BY <1>2, <4>1, <4>2, <4>3
    <3>4. SupportedHeight(h)
      BY <1>2, <3>2 DEF SupportedHeight
    <3> QED BY <3>3, <3>4
  <2>4. Blocks(w) * Blocks(h) = n
    BY <2>1 DEF Blocks
  <2> QED BY <2>2, <2>3, <2>4, FirstOf
<1> QED BY <1>1, <1>2 DEF Encoder

LEMMA ClampRange ==
    ASSUME NEW n \in Nat
    PROVE  Clamp(n) \in CodecQp
<1>1. Min({51, n}) = IF 51 <= n THEN 51 ELSE n
  BY MinOfTwo
<1>2. Max({4, Min({51, n})}) = IF 4 >= Min({51, n}) THEN 4 ELSE Min({51, n})
  BY <1>1, MaxOfTwo
<1> QED BY <1>1, <1>2 DEF Clamp, CodecQp

LEMMA SetQuantizers ==
    ASSUME NEW qp \in Quantizations
    PROVE  PictureQuantizationSetter(qp) \in Quantizers
<1>1. PICK types \in SUBSET FrameType : qp \in [types -> [min : Nat, max : Nat]]
  BY ConfigurationAssumption
<1>2. PictureQuantizationSetter(qp) \in [types -> QpRange]
  BY <1>1, ClampRange DEF PictureQuantizationSetter, QpRange
<1> QED BY <1>2 DEF Quantizers

LEMMA SizeSupported ==
    ASSUME IntfInv, NEW size \in Sizes
    PROVE  /\ SizeSetter(intf.size, size) \in [width : Nat, height : Nat]
           /\ SupportedWidth(SizeSetter(intf.size, size).width)
           /\ SupportedHeight(SizeSetter(intf.size, size).height)
<1>1. size \in [width : Nat, height : Nat] /\ intf.size \in [width : Nat, height : Nat]
  BY ConfigurationAssumption DEF IntfInv, IntfSet
<1>2. SupportedWidth(intf.size.width) /\ SupportedHeight(intf.size.height)
  BY DEF IntfInv, Supported
<1> QED BY <1>1, <1>2 DEF SizeSetter

\* A level that was adjusted may be adjusted again.
LEMMA FitsAsked ==
    ASSUME NEW i, LevelFits(i)
    PROVE  Asked(i)
  BY DEF LevelFits, Asked

LEMMA SameEncoder ==
    ASSUME UNCHANGED encoder
    PROVE  /\ \A i : Supported(i)' <=> Supported(i)
           /\ \A i : LevelFits(i)' <=> LevelFits(i)
<1>1. \A w : SupportedWidth(w)' <=> SupportedWidth(w)
  BY DEF SupportedWidth
<1>2. \A h : SupportedHeight(h)' <=> SupportedHeight(h)
  BY DEF SupportedHeight
<1>3. \A i : Supported(i)' <=> Supported(i)
  BY <1>1, <1>2 DEF Supported
<1>4. \A i : LevelFits(i)' <=> LevelFits(i)
  BY DEF LevelFits
<1> QED BY <1>3, <1>4

LEMMA ConfigureIntf ==
    ASSUME IntfInv, UNCHANGED <<encoder, configured>>,
           NEW i \in IntfSet, Supported(i), LevelFits(i), intf' = i
    PROVE  IntfInv'
<1>1. Supported(i)' /\ LevelFits(i)' /\ Supported(configured)
  BY SameEncoder DEF IntfInv
<1>2. Supported(intf)' /\ LevelFits(intf)'
  BY <1>1 DEF Supported, LevelFits
<1>3. Supported(configured)'
  BY <1>1, SameEncoder DEF Supported
<1>4. /\ encoder' \in Encoder
      /\ intf' \in IntfSet /\ configured' \in IntfSet
  BY DEF IntfInv
<1> QED BY <1>2, <1>3, <1>4 DEF IntfInv

LEMMA SetBitrate ==
    ASSUME NEW bitrate \in Nat
    PROVE  BitrateSetter(bitrate) \in Nat /\ BitrateSetter(bitrate) >= 4096
  BY MaxOfTwo DEF BitrateSetter

\* The interface is configured, whatever came before.
LEMMA ConfigureParts ==
    ASSUME IntfInv,
           \/ \E size \in Sizes : ConfigureSize(size)
           \/ \E rate \in FrameRates : ConfigureFrameRate(rate)
           \/ \E bitrate \in Bitrates : ConfigureBitrate(bitrate)
           \/ \E level \in AvcLevels \cup HevcLevels : ConfigureLevel(level)
           \/ \E period \in Periods : ConfigurePeriod(period)
           \/ \E qp \in Quantizations : ConfigureQuantization(qp)
           \/ RequestSync
    PROVE  \E i \in IntfSet : Supported(i) /\ LevelFits(i) /\ Configure(i)
<1>0. intf \in IntfSet /\ Supported(intf) /\ LevelFits(intf) /\ Asked(intf) /\ encoder \in Encoder
  BY FitsAsked DEF IntfInv
<1>1. ASSUME NEW i \in IntfSet, Asked(i), Supported(i), Configure(WithLevel(i))
      PROVE  \E j \in IntfSet : Supported(j) /\ LevelFits(j) /\ Configure(j)
  BY <1>0, <1>1, WithLevelFits
<1>2. CASE \E size \in Sizes : ConfigureSize(size)
  <2>1. PICK size \in Sizes : Configure(WithLevel([intf EXCEPT !.size = SizeSetter(intf.size, size)]))
    BY <1>2 DEF ConfigureSize
  <2>2. PICK s \in [width : Nat, height : Nat] :
            s = SizeSetter(intf.size, size) /\ SupportedWidth(s.width) /\ SupportedHeight(s.height)
    BY SizeSupported
  <2>3. PICK i : i = [intf EXCEPT !.size = s]
    OBVIOUS
  <2>4. i \in IntfSet
    BY <1>0, <2>3 DEF IntfSet
  <2>5. /\ i.size = s /\ i.level = intf.level /\ i.bitrate = intf.bitrate
        /\ i.period = intf.period /\ i.frameRate = intf.frameRate
    BY <1>0, <2>3 DEF IntfSet
  <2>6. Supported(i) /\ Asked(i)
    BY <1>0, <2>2, <2>5 DEF Supported, Asked
  <2> QED BY <1>1, <2>1, <2>2, <2>3, <2>4, <2>6
<1>3. CASE \E rate \in FrameRates : ConfigureFrameRate(rate)
  <2>1. PICK rate \in FrameRates : Configure(WithLevel([intf EXCEPT !.frameRate = rate]))
    BY <1>3 DEF ConfigureFrameRate
  <2>2. rate \in Nat \ {0} /\ rate \in Rates
    BY ConfigurationAssumption DEF Rates
  <2>3. PICK i : i = [intf EXCEPT !.frameRate = rate]
    OBVIOUS
  <2>4. i \in IntfSet
    BY <1>0, <2>2, <2>3 DEF IntfSet
  <2>5. /\ i.size = intf.size /\ i.level = intf.level /\ i.bitrate = intf.bitrate
        /\ i.period = intf.period /\ i.frameRate = rate
    BY <1>0, <2>3 DEF IntfSet
  <2>6. Supported(i) /\ Asked(i)
    BY <1>0, <2>2, <2>5 DEF Supported, Asked
  <2> QED BY <1>1, <2>1, <2>3, <2>4, <2>6
<1>4. CASE \E bitrate \in Bitrates : ConfigureBitrate(bitrate)
  <2>1. PICK bitrate \in Bitrates :
            Configure(WithLevel([intf EXCEPT !.bitrate = BitrateSetter(bitrate)]))
    BY <1>4 DEF ConfigureBitrate
  <2>2. PICK b \in Nat : b = BitrateSetter(bitrate) /\ b >= 4096
    BY ConfigurationAssumption, SetBitrate
  <2>3. PICK i : i = [intf EXCEPT !.bitrate = b]
    OBVIOUS
  <2>4. i \in IntfSet
    BY <1>0, <2>3 DEF IntfSet
  <2>5. /\ i.size = intf.size /\ i.level = intf.level /\ i.bitrate = b
        /\ i.period = intf.period /\ i.frameRate = intf.frameRate
    BY <1>0, <2>3 DEF IntfSet
  <2>6. Supported(i) /\ Asked(i)
    BY <1>0, <2>2, <2>5 DEF Supported, Asked
  <2> QED BY <1>1, <2>1, <2>2, <2>3, <2>4, <2>6
<1>5. CASE \E level \in AvcLevels \cup HevcLevels : ConfigureLevel(level)
  <2>1. PICK level \in AvcLevels \cup HevcLevels :
            /\ encoder \in Avc => level \in AvcLevels
            /\ Configure(WithLevel([intf EXCEPT !.level = level]))
    BY <1>5 DEF ConfigureLevel
  <2>2. /\ level \in LevelNames
        /\ encoder \in Avc => level = "1b" \/ \E k \in 1..14 : level = AvcLimits[k].level
    BY <2>1, LevelAssumption, TableLengths DEF LevelNames
  <2>3. PICK i : i = [intf EXCEPT !.level = level]
    OBVIOUS
  <2>4. i \in IntfSet
    BY <1>0, <2>2, <2>3 DEF IntfSet
  <2>5. /\ i.size = intf.size /\ i.level = level /\ i.bitrate = intf.bitrate
        /\ i.period = intf.period /\ i.frameRate = intf.frameRate
    BY <1>0, <2>3 DEF IntfSet
  <2>6. Supported(i) /\ Asked(i)
    BY <1>0, <2>2, <2>5 DEF Supported, Asked
  <2> QED BY <1>1, <2>1, <2>3, <2>4, <2>6
<1>6. ASSUME NEW i \in IntfSet, Configure(i), i.size = intf.size, i.level = intf.level,
             i.bitrate = intf.bitrate, i.period \in AllPeriods, i.frameRate = intf.frameRate
      PROVE  \E j \in IntfSet : Supported(j) /\ LevelFits(j) /\ Configure(j)
  <2>1. Supported(i)
    BY <1>0, <1>6 DEF Supported
  <2>2. AvcNeed(i) = AvcNeed(intf)
    BY <1>6 DEF AvcNeed
  <2>3. LevelFits(i)
    BY <1>0, <1>6, <2>2 DEF LevelFits
  <2> QED BY <1>6, <2>1, <2>3
<1>7. CASE \E period \in Periods : ConfigurePeriod(period)
  <2>1. PICK period \in Periods : Configure([intf EXCEPT !.period = period])
    BY <1>7 DEF ConfigurePeriod
  <2>2. period \in Nat /\ period \in AllPeriods
    BY ConfigurationAssumption DEF AllPeriods
  <2>3. PICK i : i = [intf EXCEPT !.period = period]
    OBVIOUS
  <2>4. i \in IntfSet
    BY <1>0, <2>2, <2>3 DEF IntfSet
  <2>5. /\ i.size = intf.size /\ i.level = intf.level /\ i.bitrate = intf.bitrate
        /\ i.period = period /\ i.frameRate = intf.frameRate
    BY <1>0, <2>3 DEF IntfSet
  <2> QED BY <1>6, <2>1, <2>2, <2>3, <2>4, <2>5
<1>8. CASE \E qp \in Quantizations : ConfigureQuantization(qp)
  <2>1. PICK qp \in Quantizations :
            Configure([intf EXCEPT !.qp = PictureQuantizationSetter(qp)])
    BY <1>8 DEF ConfigureQuantization
  <2>2. PICK q \in Quantizers : q = PictureQuantizationSetter(qp)
    BY SetQuantizers
  <2>3. PICK i : i = [intf EXCEPT !.qp = q]
    OBVIOUS
  <2>4. i \in IntfSet
    BY <1>0, <2>3 DEF IntfSet
  <2>5. /\ i.size = intf.size /\ i.level = intf.level /\ i.bitrate = intf.bitrate
        /\ i.period = intf.period /\ i.frameRate = intf.frameRate
    BY <1>0, <2>3 DEF IntfSet
  <2>6. intf.period \in AllPeriods
    BY <1>0 DEF Supported
  <2> QED BY <1>6, <2>1, <2>2, <2>3, <2>4, <2>5, <2>6
<1>9. CASE RequestSync
  <2>1. Configure([intf EXCEPT !.requestSync = TRUE])
    BY <1>9 DEF RequestSync
  <2>2. PICK i : i = [intf EXCEPT !.requestSync = TRUE]
    OBVIOUS
  <2>3. i \in IntfSet
    BY <1>0, <2>2 DEF IntfSet
  <2>4. /\ i.size = intf.size /\ i.level = intf.level /\ i.bitrate = intf.bitrate
        /\ i.period = intf.period /\ i.frameRate = intf.frameRate
    BY <1>0, <2>2 DEF IntfSet
  <2>5. intf.period \in AllPeriods
    BY <1>0 DEF Supported
  <2> QED BY <1>6, <2>1, <2>2, <2>3, <2>4, <2>5
<1> QED BY <1>2, <1>3, <1>4, <1>5, <1>7, <1>8, <1>9

(* The library.                                                              *)

FunctionNames == {"init", "header", "frame", "qp", "bitrate", "rate", "destroy"}
EncSet ==
    [funcs : SUBSET FunctionNames, mCodecHandle : BOOLEAN, mBitrateBak : Nat,
     mFrameRateValue : Nat, mtimeStampBak : Nat]
LibQuantizers == {<<>>} \cup [{"I", "P"} -> QpRange] \cup [FrameType -> QpRange]
LibSet ==
    [width : Nat, crop : Nat, gop : Int, qp : LibQuantizers, level : LevelNames \cup {"none"},
     bitrate : Nat, frameRate : Nat, frameType : {"none", "P", "auto", "IDR"}]

TypeInv ==
    /\ IntfInv
    /\ enc \in EncSet /\ enc.funcs \subseteq Names(Len(Functions))
    /\ lib \in LibSet
    /\ frames \in Nat /\ gap \in Int /\ undefined \in BOOLEAN
    /\ calls \in [Call -> Nat]

LEMMA IntervalRange ==
    ASSUME NEW i \in IntfSet, Supported(i), i.period # Never
    PROVE  Interval(i.period, i.frameRate) \in Nat /\ Interval(i.period, i.frameRate) < Exact
<1>1. i.period \in Nat /\ i.frameRate \in Nat
  BY DEF IntfSet
<1>2. PICK q \in Nat : q = i.period \div 1000000
  BY <1>1
<1>3. q * i.frameRate \in Nat
  BY <1>1, <1>2
<1>4. Interval(i.period, i.frameRate) < Exact
  BY IntervalAssumption DEF Supported, AllPeriods, Rates
<1> QED BY <1>2, <1>3, <1>4 DEF Interval

LEMMA QuantizerOf ==
    ASSUME IntfInv, NEW t \in FrameType
    PROVE  getQp(t) \in QpRange
<1>1. intf.qp \in Quantizers
  BY DEF IntfInv, IntfSet
<1>2. DefaultQp \in QpRange
  BY DEF DefaultQp, QpRange, CodecQp
<1>3. CASE intf.qp = <<>>
  BY <1>2, <1>3 DEF getQp
<1>4. CASE \E types \in SUBSET FrameType : intf.qp \in [types -> QpRange]
  BY <1>2, <1>4 DEF getQp
<1> QED BY <1>1, <1>3, <1>4 DEF Quantizers

\* What the library is opened with.
FreshLib(l) ==
    /\ l \in LibSet
    /\ IF intf.period = Never THEN l.gop \notin 1..(IntMax - 1)
       ELSE l.gop >= 1 /\ l.gop <= Interval(intf.period, intf.frameRate) + 1
    /\ intf.size.width \in {l.width, l.crop} \/ encoder \in Multi
    /\ l.frameRate = intf.frameRate

LEMMA OpenedType ==
    ASSUME IntfInv, NEW width \in Nat, NEW crop \in Nat, NEW gop \in Int,
           NEW qp \in LibQuantizers, NEW level \in LevelNames \cup {"none"},
           IF intf.period = Never THEN gop \notin 1..(IntMax - 1)
           ELSE gop >= 1 /\ gop <= Interval(intf.period, intf.frameRate) + 1,
           intf.size.width \in {width, crop} \/ encoder \in Multi
    PROVE  FreshLib(Opened(width, crop, gop, qp, level))
<1>1. intf.bitrate \in Nat /\ intf.frameRate \in Nat
  BY DEF IntfInv, IntfSet
<1>2. PICK l : l = Opened(width, crop, gop, qp, level)
  OBVIOUS
<1>3. l = [width |-> width, crop |-> crop, gop |-> gop, qp |-> qp, level |-> level,
           bitrate |-> intf.bitrate, frameRate |-> intf.frameRate, frameType |-> "none"]
  BY <1>2 DEF Opened
<1>4. l \in LibSet
  BY <1>1, <1>3 DEF LibSet
<1>5. /\ l.width = width /\ l.crop = crop /\ l.gop = gop /\ l.frameRate = intf.frameRate
  BY <1>3
<1> QED BY <1>2, <1>4, <1>5 DEF FreshLib

LEMMA LibraryOpens ==
    ASSUME IntfInv
    PROVE  FreshLib(Encoder_Init)
<1>1. /\ intf.size.width \in Nat /\ intf.level \in LevelNames /\ intf.period \in Nat
      /\ encoder \in Encoder /\ intf \in IntfSet /\ Supported(intf)
  BY DEF IntfInv, IntfSet
<1>2. CASE encoder = "HCodec"
  <2>1. Encoder_Init = HCodec_Init
    BY <1>2 DEF Encoder_Init, Multi
  <2>2. PICK qp \in LibQuantizers : qp = [t \in {"I", "P"} |-> getQp(t)]
    BY QuantizerOf DEF LibQuantizers, FrameType
  <2>3. PICK gop \in Int :
            /\ gop = IDRInterval(UintMax) + 1
            /\ IF intf.period = Never THEN gop = 0
               ELSE gop = Interval(intf.period, intf.frameRate) + 1
    BY <1>1, IntervalRange DEF IDRInterval, UintMax
  <2>4. IF intf.period = Never THEN gop \notin 1..(IntMax - 1)
        ELSE gop >= 1 /\ gop <= Interval(intf.period, intf.frameRate) + 1
    BY <1>1, <2>3, IntervalRange
  <2>5. HCodec_Init = Opened(intf.size.width, 0, gop, qp, intf.level)
    BY <2>2, <2>3 DEF HCodec_Init
  <2> QED BY <1>1, <2>1, <2>4, <2>5, OpenedType
<1>3. CASE encoder = "W420New"
  <2>1. Encoder_Init = W420New_Init
    BY <1>3 DEF Encoder_Init, Multi
  <2>2. PICK qp \in LibQuantizers : qp = [t \in FrameType |-> DefaultQp]
    <3>1. DefaultQp \in QpRange
      BY DEF DefaultQp, QpRange, CodecQp
    <3> QED BY <3>1 DEF LibQuantizers
  <2>3. PICK interval \in Int :
            /\ interval = IDRInterval(IntMax)
            /\ interval = IF intf.period = Never THEN IntMax
                          ELSE Interval(intf.period, intf.frameRate)
    <3>1. IntMax \in Int
      BY DEF IntMax
    <3> QED BY <1>1, <3>1, IntervalRange DEF IDRInterval
  <2>4. PICK gop \in Int : gop = IF interval = IntMax THEN IntMin ELSE interval + 1
    <3>1. IntMin \in Int /\ interval + 1 \in Int
      BY DEF IntMin, IntMax
    <3> QED BY <3>1
  <2>5. IF intf.period = Never THEN gop \notin 1..(IntMax - 1)
        ELSE gop >= 1 /\ gop <= Interval(intf.period, intf.frameRate) + 1
    <3>1. CASE intf.period = Never
      <4>1. gop = IntMin
        BY <2>3, <2>4, <3>1
      <4>2. IntMin < 1
        BY DEF IntMin, IntMax
      <4>3. IntMin \notin 1..(IntMax - 1)
        <5>1. IntMax - 1 \in Int
          BY DEF IntMax
        <5> QED BY <4>2, <5>1
      <4> QED BY <3>1, <4>1, <4>3
    <3>2. CASE intf.period # Never
      <4>1. interval \in Nat /\ interval < Exact
        BY <1>1, <2>3, <3>2, IntervalRange
      <4>2. gop = interval + 1
        BY <2>4, <4>1 DEF Exact, IntMax
      <4> QED BY <2>3, <3>2, <4>1, <4>2
    <3> QED BY <3>1, <3>2
  <2>6. PICK w \in Nat, c \in Nat :
            /\ w = IF intf.size.width < 256 THEN 256 ELSE intf.size.width
            /\ c = IF intf.size.width < 256 THEN intf.size.width ELSE 0
    BY <1>1
  <2>7. W420New_Init = Opened(w, c, gop, qp, "none")
    BY <2>2, <2>3, <2>4, <2>6 DEF W420New_Init
  <2>8. intf.size.width \in {w, c}
    BY <2>6
  <2> QED BY <2>1, <2>5, <2>7, <2>8, OpenedType
<1>4. CASE encoder \in Multi
  <2>1. Encoder_Init = Multi_Init
    BY <1>4 DEF Encoder_Init, Multi
  <2>2. PICK qp \in LibQuantizers : qp = [t \in FrameType |-> getQp(t)]
    BY QuantizerOf DEF LibQuantizers
  <2>3. PICK interval \in Int :
            /\ interval = IDRInterval(UintMax)
            /\ interval = IF intf.period = Never THEN -1
                          ELSE Interval(intf.period, intf.frameRate)
    BY <1>1, IntervalRange DEF IDRInterval, UintMax
  <2>4. PICK gop \in Int : gop = IF interval = 0 THEN 1 ELSE interval
    OBVIOUS
  <2>5. IF intf.period = Never THEN gop \notin 1..(IntMax - 1)
        ELSE gop >= 1 /\ gop <= Interval(intf.period, intf.frameRate) + 1
    BY <1>1, <2>3, <2>4, IntervalRange
  <2>6. PICK w \in Nat : w = Max({256, intf.size.width})
    BY <1>1, MaxOfTwo
  <2>7. Multi_Init = Opened(w, 0, gop, qp, "none")
    BY <2>2, <2>3, <2>4, <2>6 DEF Multi_Init
  <2> QED BY <1>4, <2>1, <2>5, <2>7, OpenedType
<1> QED BY <1>1, <1>2, <1>3, <1>4 DEF Encoder, Multi

(* Frame rates.                                                              *)

LEMMA RateOfFrame ==
    ASSUME TypeInv, NEW stamp \in Nat
    PROVE  /\ FrameRateValue(stamp) \in Nat /\ Elapsed(stamp) \in Int
           /\ RateChanges(stamp) \/ enc.mFrameRateValue > 0 => FrameRateValue(stamp) > 0
           /\ ~RateChanges(stamp) => FrameRateValue(stamp) = enc.mFrameRateValue
           /\ Timed(stamp) /\ Elapsed(stamp) > 0 =>
                  \/ 1000000 \div Elapsed(stamp) = 0
                  \/ FrameRateValue(stamp) - (1000000 \div Elapsed(stamp)) \in -1..1
<1>1. PICK old \in Nat : old = enc.mFrameRateValue
  BY DEF TypeInv, EncSet
<1>2. PICK e \in Int : e = Elapsed(stamp)
  BY DEF Elapsed, TypeInv, EncSet
<1>3. PICK now \in Int :
          /\ now = CurFrameRate(e)
          /\ e > 0 => now = 1000000 \div e /\ now \in Nat
          /\ e <= 0 => now \in {0, -1}
  BY DEF CurFrameRate, UintMax
<1>4. RateChanges(stamp) <=> Timed(stamp) /\ now # 0 /\ AbsValue(now, old) >= 2
  BY <1>1, <1>2, <1>3 DEF RateChanges
<1>5. now = -1 => AbsValue(now, old) \in Int /\ AbsValue(now, old) < 2
  BY DEF AbsValue, UintMax
<1>6. now >= 0 => AbsValue(now, old) = IF now >= old THEN now - old ELSE old - now
  BY MaxOfTwo, MinOfTwo DEF AbsValue, UintMax
<1>7. FrameRateValue(stamp) = IF RateChanges(stamp) THEN now ELSE old
  BY <1>1, <1>2, <1>3 DEF FrameRateValue
<1>8. RateChanges(stamp) => now > 0
  BY <1>3, <1>4, <1>5
<1>9. FrameRateValue(stamp) \in Nat
  BY <1>7, <1>8
<1>10. Timed(stamp) /\ e > 0 /\ now # 0 => FrameRateValue(stamp) - now \in -1..1
  <2>1. CASE RateChanges(stamp)
    BY <1>7, <2>1
  <2>2. CASE ~RateChanges(stamp)
    BY <1>3, <1>4, <1>6, <1>7, <2>2
  <2> QED BY <2>1, <2>2
<1> QED BY <1>1, <1>2, <1>3, <1>7, <1>8, <1>9, <1>10

(* Steps.                                                                    *)

\* The library is as it was configured, and has the rate that the encoder knows.
Running ==
    /\ enc.funcs = Names(Len(Functions))
    /\ StreamAsConfigured
    /\ lib.frameRate > 0
    /\ encoder \notin Multi => lib.frameRate = enc.mFrameRateValue
    /\ RateIsReal
LibraryInv == (enc.mCodecHandle => Running) /\ ~undefined

LEMMA AllNames ==
    ASSUME encoder \in Encoder
    PROVE  /\ Names(Len(Functions)) \subseteq FunctionNames
           /\ \A k \in 0..Len(Functions) : Names(k) \subseteq Names(Len(Functions))
           /\ {"frame", "qp", "destroy"} \subseteq Names(Len(Functions))
           /\ encoder # "HCodec" => "bitrate" \in Names(Len(Functions))
           /\ encoder = "W420New" => "rate" \in Names(Len(Functions))
<1>1. CASE encoder = "HCodec"
  <2>1. Functions = <<"init", "header", "frame", "qp", "destroy">>
    BY <1>1 DEF Functions, Multi
  <2>2. Len(Functions) = 5 /\ \A j \in 1..5 : Functions[j] \in FunctionNames
    BY <2>1 DEF FunctionNames
  <2>3. Functions[3] = "frame" /\ Functions[4] = "qp" /\ Functions[5] = "destroy"
    BY <2>1
  <2> QED BY <1>1, <2>2, <2>3 DEF Names
<1>2. CASE encoder = "W420New"
  <2>1. Functions = <<"init", "header", "frame", "qp", "bitrate", "rate", "destroy">>
    BY <1>2 DEF Functions, Multi
  <2>2. Len(Functions) = 7 /\ \A j \in 1..7 : Functions[j] \in FunctionNames
    BY <2>1 DEF FunctionNames
  <2>3. /\ Functions[3] = "frame" /\ Functions[4] = "qp" /\ Functions[7] = "destroy"
        /\ Functions[5] = "bitrate" /\ Functions[6] = "rate"
    BY <2>1
  <2> QED BY <1>2, <2>2, <2>3 DEF Names
<1>3. CASE encoder \in Multi
  <2>1. Functions = <<"init", "header", "qp", "bitrate", "frame", "destroy">>
    BY <1>3 DEF Functions, Multi
  <2>2. Len(Functions) = 6 /\ \A j \in 1..6 : Functions[j] \in FunctionNames
    BY <2>1 DEF FunctionNames
  <2>3. /\ Functions[5] = "frame" /\ Functions[3] = "qp" /\ Functions[6] = "destroy"
        /\ Functions[4] = "bitrate"
    BY <2>1
  <2> QED BY <1>3, <2>2, <2>3 DEF Names, Multi
<1> QED BY <1>1, <1>2, <1>3 DEF Encoder, Multi

LEMMA Loaded ==
    ASSUME encoder \in Encoder, enc.funcs \subseteq Names(Len(Functions)),
           NEW k \in 0..Len(Functions)
    PROVE  /\ LoadModule(k) \subseteq Names(Len(Functions))
           /\ k = Len(Functions) => LoadModule(k) = Names(Len(Functions))
<1>1. Len(Functions) \in Nat
  BY DEF Functions, Encoder, Multi
<1> QED BY <1>1, AllNames DEF LoadModule

LEMMA SameFunctions ==
    ASSUME UNCHANGED encoder
    PROVE  Functions' = Functions /\ \A k : Names(k)' = Names(k)
  BY DEF Functions, Names

LEMMA SameStream ==
    ASSUME UNCHANGED <<encoder, configured>>,
           lib'.gop = lib.gop, lib'.qp = lib.qp, lib'.width = lib.width, lib'.crop = lib.crop,
           StreamAsConfigured
    PROVE  StreamAsConfigured'
  BY DEF StreamAsConfigured

LEMMA SameIntf ==
    ASSUME IntfInv, UNCHANGED <<encoder, intf>>, configured' \in {configured, intf}
    PROVE  IntfInv'
<1>1. Supported(intf)' /\ LevelFits(intf)' /\ Supported(configured)'
  <2>1. Supported(intf) /\ LevelFits(intf) /\ Supported(configured)
    BY DEF IntfInv
  <2>2. Supported(configured')
    BY <2>1 DEF IntfInv
  <2>3. Supported(intf)' /\ LevelFits(intf)'
    BY <2>1, SameEncoder DEF Supported, LevelFits
  <2>4. Supported(configured)'
    BY <2>2, SameEncoder DEF Supported
  <2> QED BY <2>3, <2>4
<1> QED BY <1>1 DEF IntfInv

LEMMA CountType ==
    ASSUME calls \in [Call -> Nat], NEW S, Took(S)
    PROVE  calls' \in [Call -> Nat]
  BY DEF Took

\* The interface is configured: the library notices with the next frame or session.
LEMMA ConfigureStep ==
    ASSUME TypeInv, LibraryInv, NEW i \in IntfSet, Supported(i), LevelFits(i), Configure(i)
    PROVE  TypeInv' /\ LibraryInv'
<1>1. UNCHANGED <<encoder, enc, lib, configured, frames, gap, undefined>> /\ intf' = i
  BY DEF Configure
<1>2. IntfInv'
  BY <1>1, ConfigureIntf DEF TypeInv
<1>3. calls' \in [Call -> Nat]
  BY CountType DEF Configure, TypeInv
<1>4. (enc.funcs \subseteq Names(Len(Functions)))'
  BY <1>1, SameFunctions DEF TypeInv
<1>5. TypeInv'
  BY <1>1, <1>2, <1>3, <1>4 DEF TypeInv
<1>6. Running => Running'
  <2>1. StreamAsConfigured => StreamAsConfigured'
    BY <1>1, SameStream
  <2>2. RateIsReal => RateIsReal'
    BY <1>1 DEF RateIsReal
  <2>3. enc.funcs = Names(Len(Functions)) => (enc.funcs = Names(Len(Functions)))'
    BY <1>1, SameFunctions
  <2> QED BY <1>1, <2>1, <2>2, <2>3 DEF Running
<1> QED BY <1>1, <1>5, <1>6 DEF LibraryInv

LEMMA StartStep ==
    ASSUME TypeInv, LibraryInv, StartSucceeds
    PROVE  TypeInv' /\ LibraryInv'
<1>1. UNCHANGED <<encoder, intf, frames, undefined>> /\ configured' = intf /\ gap' = 0
      /\ lib' = Encoder_Init
  BY DEF StartSucceeds
<1>2. IntfInv'
  BY <1>1, SameIntf DEF TypeInv
<1>3. calls' \in [Call -> Nat]
  BY CountType DEF StartSucceeds, TypeInv
<1>4. encoder \in Encoder /\ Len(Functions) \in 0..Len(Functions)
  BY DEF TypeInv, IntfInv, Functions, Encoder, Multi
<1>5. PICK F \in SUBSET FunctionNames : F = Names(Len(Functions)) /\ F = LoadModule(Len(Functions))
  BY <1>4, AllNames, Loaded DEF TypeInv
<1>6. intf.bitrate \in Nat /\ intf.frameRate \in Nat \ {0}
  BY DEF TypeInv, IntfInv, IntfSet
<1>7. /\ enc' \in EncSet /\ enc'.funcs = F /\ enc'.mFrameRateValue = intf.frameRate
  BY <1>5, <1>6 DEF StartSucceeds, TypeInv, EncSet
<1>8. FreshLib(lib')
  BY <1>1, LibraryOpens DEF TypeInv
<1>9. (enc.funcs = Names(Len(Functions)))'
  BY <1>1, <1>5, <1>7, SameFunctions
<1>10. TypeInv'
  BY <1>1, <1>2, <1>3, <1>7, <1>8, <1>9 DEF TypeInv, FreshLib
<1>11. StreamAsConfigured'
  <2>1. \A t \in DOMAIN lib'.qp : lib'.qp[t].min \in CodecQp /\ lib'.qp[t].max \in CodecQp
    <3>1. lib'.qp \in LibQuantizers
      BY <1>8 DEF FreshLib, LibSet
    <3> QED BY <3>1 DEF LibQuantizers, QpRange
  <2> QED BY <1>1, <1>8, <2>1 DEF StreamAsConfigured, FreshLib
<1>12. lib'.frameRate = intf.frameRate
  BY <1>8 DEF FreshLib
<1>13. RateIsReal'
  BY <1>1, <1>6, <1>12 DEF RateIsReal
<1> QED BY <1>1, <1>6, <1>7, <1>9, <1>10, <1>11, <1>12, <1>13 DEF LibraryInv, Running

\* A start() that fails leaves a closed encoder.
LEMMA FailedStartStep ==
    ASSUME TypeInv, LibraryInv, StartWithoutModule \/ StartWithoutHandle
    PROVE  TypeInv' /\ LibraryInv'
<1>1. UNCHANGED <<encoder, intf, lib, configured, frames, gap, undefined>>
  BY DEF StartWithoutModule, StartWithoutHandle
<1>2. IntfInv'
  BY <1>1, SameIntf DEF TypeInv
<1>3. calls' \in [Call -> Nat]
  BY CountType DEF StartWithoutModule, StartWithoutHandle, TypeInv
<1>4. encoder \in Encoder /\ Len(Functions) \in Nat
  BY DEF TypeInv, IntfInv, Functions, Encoder, Multi
<1>5. intf.bitrate \in Nat /\ intf.frameRate \in Nat
  BY DEF TypeInv, IntfInv, IntfSet
<1>6. enc' \in EncSet /\ enc'.funcs \subseteq Names(Len(Functions)) /\ ~enc'.mCodecHandle
  <2>1. CASE StartWithoutModule
    <3>1. PICK k \in 0..(Len(Functions) - 1) : enc' = [enc EXCEPT !.funcs = LoadModule(k)]
      BY <2>1 DEF StartWithoutModule
    <3>2. PICK F \in SUBSET FunctionNames : F = LoadModule(k) /\ F \subseteq Names(Len(Functions))
      BY <1>4, AllNames, Loaded DEF TypeInv
    <3>3. ~enc.mCodecHandle
      BY <2>1 DEF StartWithoutModule
    <3> QED BY <3>1, <3>2, <3>3 DEF TypeInv, EncSet
  <2>2. CASE StartWithoutHandle
    <3>1. Len(Functions) \in 0..Len(Functions)
      BY <1>4
    <3>2. PICK F \in SUBSET FunctionNames :
              F = LoadModule(Len(Functions)) /\ F \subseteq Names(Len(Functions))
      BY <1>4, <3>1, AllNames, Loaded DEF TypeInv
    <3>3. /\ ~enc.mCodecHandle
          /\ enc' = [enc EXCEPT !.funcs = F, !.mBitrateBak = intf.bitrate,
                                !.mFrameRateValue = intf.frameRate]
      BY <2>2, <3>2 DEF StartWithoutHandle
    <3> QED BY <1>5, <3>2, <3>3 DEF TypeInv, EncSet
  <2> QED BY <2>1, <2>2
<1>7. (enc.funcs \subseteq Names(Len(Functions)))'
  BY <1>1, <1>6, SameFunctions
<1> QED BY <1>1, <1>2, <1>3, <1>6, <1>7 DEF TypeInv, LibraryInv

LEMMA CloseStep ==
    ASSUME TypeInv, LibraryInv, Close
    PROVE  TypeInv' /\ LibraryInv'
<1>1. UNCHANGED <<encoder, intf, configured, frames, gap, calls>> /\ lib' = Closed
      /\ enc' = [enc EXCEPT !.mCodecHandle = FALSE]
  BY DEF Close
<1>2. IntfInv'
  BY <1>1, SameIntf DEF TypeInv
<1>3. lib' \in LibSet
  <2>1. PICK q \in LibQuantizers : q = <<>>
    BY DEF LibQuantizers
  <2> QED BY <1>1, <2>1 DEF Closed, LibSet
<1>4. enc' \in EncSet /\ enc'.funcs = enc.funcs /\ ~enc'.mCodecHandle
  BY <1>1 DEF TypeInv, EncSet
<1>5. (enc.funcs \subseteq Names(Len(Functions)))'
  BY <1>1, <1>4, SameFunctions DEF TypeInv
<1>6. ~undefined'
  <2>1. encoder \in Encoder /\ ~undefined /\ enc.funcs = Names(Len(Functions))
    BY DEF Close, LibraryInv, Running, TypeInv, IntfInv
  <2>2. {"destroy"} \subseteq enc.funcs
    BY <2>1, AllNames
  <2> QED BY <2>1, <2>2 DEF Close, Uses
<1>7. undefined' \in BOOLEAN
  BY DEF Close, Uses
<1> QED BY <1>1, <1>2, <1>3, <1>4, <1>5, <1>6, <1>7 DEF TypeInv, LibraryInv

\* A frame: the rate it shows, and the functions that are called for it.
LEMMA FrameStep ==
    ASSUME TypeInv, LibraryInv, NEW stamp \in Stamps, ProcessOneFrame(stamp)
    PROVE  TypeInv' /\ LibraryInv'
<1>1. /\ UNCHANGED <<encoder, configured>> /\ frames' = frames + 1
      /\ gap' = IF Timed(stamp) THEN Elapsed(stamp) ELSE 0
      /\ enc.mCodecHandle
  BY DEF ProcessOneFrame
<1>2. stamp \in Nat
  BY ConfigurationAssumption
<1>3. PICK r \in Nat :
          /\ r = FrameRateValue(stamp) /\ Elapsed(stamp) \in Int
          /\ RateChanges(stamp) \/ enc.mFrameRateValue > 0 => r > 0
          /\ ~RateChanges(stamp) => r = enc.mFrameRateValue
          /\ Timed(stamp) /\ Elapsed(stamp) > 0 =>
                 \/ 1000000 \div Elapsed(stamp) = 0
                 \/ r - (1000000 \div Elapsed(stamp)) \in -1..1
  BY <1>2, RateOfFrame
<1>4. intf.bitrate \in Nat /\ intf.requestSync \in BOOLEAN
  BY DEF TypeInv, IntfInv, IntfSet
<1>5. \A t \in {"P", "auto"} : Requested(t) \in {"P", "auto", "IDR"}
  BY DEF Requested
<1>6. Running
  BY <1>1 DEF LibraryInv
<1>7. /\ enc' \in EncSet /\ lib' \in LibSet
      /\ enc'.funcs = enc.funcs /\ enc'.mCodecHandle
      /\ lib'.gop = lib.gop /\ lib'.qp = lib.qp /\ lib'.width = lib.width /\ lib'.crop = lib.crop
      /\ IF encoder \in Multi THEN lib'.frameRate = lib.frameRate
         ELSE lib'.frameRate = r /\ enc'.mFrameRateValue = r
      /\ ~undefined'
  <2>1. enc \in EncSet /\ lib \in LibSet /\ ~undefined
    BY DEF TypeInv, LibraryInv
  <2>2. /\ {"frame", "qp"} \subseteq enc.funcs
        /\ encoder # "HCodec" => "bitrate" \in enc.funcs
        /\ encoder = "W420New" => "rate" \in enc.funcs
    BY <1>6, AllNames DEF Running, TypeInv, IntfInv
  <2>3. CASE encoder = "HCodec" /\ HCodec_ProcessOneFrame(stamp)
    <3>1. PICK f \in {"P", "auto", "IDR"} : f = Requested("P")
      BY <1>5
    <3>2. /\ lib' = [lib EXCEPT !.frameRate = r, !.bitrate = intf.bitrate, !.frameType = f]
          /\ enc' = [enc EXCEPT !.mFrameRateValue = r, !.mtimeStampBak = stamp,
                                !.mBitrateBak = intf.bitrate]
      BY <1>3, <2>3, <3>1 DEF HCodec_ProcessOneFrame
    <3>3. ~undefined'
      BY <2>1, <2>2, <2>3 DEF HCodec_ProcessOneFrame, Uses
    <3>4. encoder \notin Multi
      BY <2>3 DEF Multi
    <3>5. lib' \in LibSet
      BY <1>4, <2>1, <3>2 DEF LibSet
    <3>6. enc' \in EncSet
      BY <1>2, <1>4, <2>1, <3>2 DEF EncSet
    <3> QED BY <1>1, <2>1, <3>2, <3>3, <3>4, <3>5, <3>6 DEF LibSet, EncSet
  <2>4. CASE encoder = "W420New" /\ W420New_ProcessOneFrame(stamp)
    <3>1. PICK f \in {"P", "auto", "IDR"} : f = Requested("auto")
      BY <1>5
    <3>2. lib.frameRate = enc.mFrameRateValue /\ encoder \notin Multi
      BY <1>6, <2>4 DEF Running, Multi
    <3>3. PICK b \in Nat : b = IF RateChanges(stamp) \/ BitrateChanges THEN intf.bitrate
                               ELSE lib.bitrate
      BY <1>4, <2>1 DEF LibSet
    <3>4. r = IF RateChanges(stamp) THEN FrameRateValue(stamp) ELSE lib.frameRate
      BY <1>3, <3>2
    <3>5. /\ lib' = [lib EXCEPT !.frameRate = r, !.bitrate = b, !.frameType = f]
          /\ enc' = [enc EXCEPT !.mFrameRateValue = r, !.mtimeStampBak = stamp,
                                !.mBitrateBak = intf.bitrate]
      BY <1>3, <2>4, <3>1, <3>3, <3>4 DEF W420New_ProcessOneFrame
    <3>6. ~undefined'
      BY <2>1, <2>2, <2>4 DEF W420New_ProcessOneFrame, Uses
    <3>7. lib' \in LibSet
      BY <1>4, <2>1, <3>5 DEF LibSet
    <3>8. enc' \in EncSet
      BY <1>2, <1>4, <2>1, <3>5 DEF EncSet
    <3> QED BY <1>1, <2>1, <3>2, <3>5, <3>6, <3>7, <3>8 DEF LibSet, EncSet
  <2>5. CASE encoder \in Multi /\ Multi_ProcessOneFrame(stamp)
    <3>1. PICK f \in {"P", "auto", "IDR"} : f = Requested("P")
      BY <1>5
    <3>2. PICK b \in Nat : b = IF BitrateChanges THEN intf.bitrate ELSE lib.bitrate
      BY <1>4, <2>1 DEF LibSet
    <3>3. /\ lib' = [lib EXCEPT !.bitrate = b, !.frameType = f]
          /\ enc' = [enc EXCEPT !.mBitrateBak = intf.bitrate]
      BY <2>5, <3>1, <3>2 DEF Multi_ProcessOneFrame
    <3>4. ~undefined'
      BY <2>1, <2>2, <2>5 DEF Multi_ProcessOneFrame, Uses, Multi
    <3>5. lib' \in LibSet
      BY <2>1, <3>3 DEF LibSet
    <3>6. enc' \in EncSet
      BY <1>4, <2>1, <3>3 DEF EncSet
    <3> QED BY <1>1, <2>1, <2>5, <3>3, <3>4, <3>5, <3>6 DEF LibSet, EncSet
  <2> QED BY <2>3, <2>4, <2>5 DEF ProcessOneFrame
<1>8. IntfInv'
  <2>1. PICK i : i = [intf EXCEPT !.requestSync = FALSE]
    OBVIOUS
  <2>2. intf \in IntfSet /\ Supported(intf) /\ LevelFits(intf)
    BY DEF TypeInv, IntfInv
  <2>3. /\ i \in IntfSet /\ i.size = intf.size /\ i.level = intf.level /\ i.bitrate = intf.bitrate
        /\ i.period = intf.period /\ i.frameRate = intf.frameRate
    BY <2>1, <2>2 DEF IntfSet
  <2>4. AvcNeed(i) = AvcNeed(intf)
    BY <2>3 DEF AvcNeed
  <2>5. Supported(i)
    BY <2>2, <2>3 DEF Supported
  <2>6. LevelFits(i)
    BY <2>2, <2>3, <2>4 DEF LevelFits
  <2>7. intf' = i
    BY <2>1 DEF ProcessOneFrame
  <2> QED BY <1>1, <2>3, <2>5, <2>6, <2>7, ConfigureIntf DEF TypeInv
<1>9. calls' \in [Call -> Nat]
  BY CountType DEF ProcessOneFrame, TypeInv
<1>10. (enc.funcs = Names(Len(Functions)))'
  BY <1>1, <1>6, <1>7, SameFunctions DEF Running
<1>11. frames' \in Nat /\ gap' \in Int
  BY <1>1, <1>3 DEF TypeInv
<1>12. undefined' \in BOOLEAN
  BY DEF ProcessOneFrame, HCodec_ProcessOneFrame, W420New_ProcessOneFrame,
         Multi_ProcessOneFrame, Uses
<1>13. TypeInv'
  BY <1>7, <1>8, <1>9, <1>10, <1>11, <1>12 DEF TypeInv
<1>14. StreamAsConfigured'
  BY <1>1, <1>6, <1>7, SameStream DEF Running
<1>15. /\ lib.frameRate > 0
       /\ encoder \notin Multi => lib.frameRate = enc.mFrameRateValue
  BY <1>6 DEF Running
<1>16. lib'.frameRate > 0
  <2>1. CASE encoder \in Multi
    BY <1>7, <1>15, <2>1
  <2>2. CASE encoder \notin Multi
    <3>1. r > 0
      BY <1>3, <1>15, <2>2
    <3> QED BY <1>7, <2>2, <3>1
  <2> QED BY <2>1, <2>2
<1>17. gap' > 0 /\ encoder \notin Multi =>
           \/ 1000000 \div gap' = 0
           \/ lib'.frameRate - (1000000 \div gap') \in -1..1
  BY <1>1, <1>3, <1>7
<1>18. RateIsReal'
  BY <1>1, <1>16, <1>17 DEF RateIsReal
<1> QED BY <1>1, <1>7, <1>10, <1>13, <1>14, <1>16, <1>18 DEF LibraryInv, Running

LEMMA StutterStep ==
    ASSUME TypeInv, LibraryInv, UNCHANGED vars
    PROVE  TypeInv' /\ LibraryInv'
<1>1. UNCHANGED <<encoder, intf, enc, lib, configured, frames, gap, undefined, calls>>
  BY DEF vars
<1>2. IntfInv'
  BY <1>1, SameIntf DEF TypeInv
<1>3. enc.funcs = Names(Len(Functions)) => (enc.funcs = Names(Len(Functions)))'
  BY <1>1, SameFunctions
<1>4. (enc.funcs \subseteq Names(Len(Functions)))'
  BY <1>1, SameFunctions DEF TypeInv
<1>5. TypeInv'
  BY <1>1, <1>2, <1>4 DEF TypeInv
<1>6. StreamAsConfigured => StreamAsConfigured'
  BY <1>1, SameStream
<1>7. RateIsReal => RateIsReal'
  BY <1>1 DEF RateIsReal
<1> QED BY <1>1, <1>3, <1>5, <1>6, <1>7 DEF LibraryInv, Running

LEMMA NextInv ==
    ASSUME TypeInv, LibraryInv, [Next]_vars
    PROVE  TypeInv' /\ LibraryInv'
<1>1. ASSUME NEW i \in IntfSet, Supported(i), LevelFits(i), Configure(i)
      PROVE  TypeInv' /\ LibraryInv'
  BY <1>1, ConfigureStep
<1>2. CASE \/ \E size \in Sizes : ConfigureSize(size)
           \/ \E rate \in FrameRates : ConfigureFrameRate(rate)
           \/ \E bitrate \in Bitrates : ConfigureBitrate(bitrate)
           \/ \E level \in AvcLevels \cup HevcLevels : ConfigureLevel(level)
           \/ \E period \in Periods : ConfigurePeriod(period)
           \/ \E qp \in Quantizations : ConfigureQuantization(qp)
           \/ RequestSync
  <2>1. IntfInv
    BY DEF TypeInv
  <2>2. \E i \in IntfSet : Supported(i) /\ LevelFits(i) /\ Configure(i)
    BY <1>2, <2>1, ConfigureParts
  <2> QED BY <1>1, <2>2
<1>3. CASE StartSucceeds \/ StartWithoutModule \/ StartWithoutHandle \/ Close
  BY <1>3, StartStep, FailedStartStep, CloseStep
<1>4. CASE \E stamp \in Stamps : ProcessOneFrame(stamp)
  BY <1>4, FrameStep
<1>5. CASE UNCHANGED vars
  BY <1>5, StutterStep
<1> QED BY <1>2, <1>3, <1>4, <1>5 DEF Next

LEMMA InitInv == Init => TypeInv /\ LibraryInv
<1> SUFFICES ASSUME Init PROVE TypeInv /\ LibraryInv
  OBVIOUS
<1>1. /\ encoder \in Encoder /\ configured = intf /\ frames = 0 /\ gap = 0 /\ ~undefined
      /\ lib = Closed /\ calls = [c \in Call |-> 0]
      /\ enc = [funcs |-> {}, mCodecHandle |-> FALSE, mBitrateBak |-> 0, mFrameRateValue |-> 0,
                mtimeStampBak |-> 0]
  BY DEF Init
<1>2. intf \in IntfSet /\ Supported(intf) /\ LevelFits(intf)
  BY <1>1, FirstIntf DEF Init
<1>3. lib \in LibSet
  <2>1. PICK q \in LibQuantizers : q = <<>>
    BY DEF LibQuantizers
  <2> QED BY <1>1, <2>1 DEF Closed, LibSet
<1>4. enc \in EncSet /\ enc.funcs = {} /\ ~enc.mCodecHandle
  BY <1>1 DEF EncSet
<1>5. undefined \in BOOLEAN
  BY DEF Init
<1> QED BY <1>1, <1>2, <1>3, <1>4, <1>5 DEF TypeInv, LibraryInv, IntfInv

\* Values of the variables; the parameters of an encoder keep to what it supports,
\* whatever the client configures.
THEOREM TypeCorrect == Spec => []TypeOK
<1>1. TypeInv => TypeOK
  <2> SUFFICES ASSUME TypeInv PROVE TypeOK
    OBVIOUS
  <2>1. DOMAIN intf = DOMAIN configured
    BY DEF TypeInv, IntfInv, IntfSet
  <2>2. DOMAIN lib = DOMAIN Closed
    BY DEF TypeInv, LibSet, Closed
  <2>3. /\ intf.frameRate \in Nat \ {0} /\ intf.bitrate >= 4096 /\ intf.period \in Nat
        /\ intf.requestSync \in BOOLEAN
    BY DEF TypeInv, IntfInv, IntfSet, Supported
  <2>4. SupportedWidth(intf.size.width) /\ SupportedHeight(intf.size.height)
    BY DEF TypeInv, IntfInv, Supported
  <2>5. enc.mCodecHandle \in BOOLEAN
    BY DEF TypeInv, EncSet
  <2> QED BY <2>1, <2>2, <2>3, <2>4, <2>5 DEF TypeInv, IntfInv, TypeOK
<1>2. TypeInv /\ LibraryInv /\ [Next]_vars => (TypeInv /\ LibraryInv)'
  BY NextInv
<1> QED
  BY <1>1, <1>2, InitInv, PTL DEF Spec

\* In whatever order size, rate, bitrate and level are configured, the level of an AVC
\* stream covers it, unless no level does.
THEOREM LevelCorrect == Spec => []LevelCovers
<1>1. TypeInv => LevelCovers
  BY TableLengths DEF TypeInv, IntfInv, LevelFits, LevelCovers
<1>2. TypeInv /\ LibraryInv /\ [Next]_vars => (TypeInv /\ LibraryInv)'
  BY NextInv
<1> QED
  BY <1>1, <1>2, InitInv, PTL DEF Spec

\* The open library has the stream the client configured and the rate that the time
\* stamps show, and no function is called that was not loaded, for any number of sessions,
\* of failures to start and of frames.
THEOREM LibraryCorrect == Spec => []LibraryAsConfigured
<1>1. LibraryInv => LibraryAsConfigured
  BY DEF LibraryInv, Running, LibraryAsConfigured
<1>2. TypeInv /\ LibraryInv /\ [Next]_vars => (TypeInv /\ LibraryInv)'
  BY NextInv
<1> QED
  BY <1>1, <1>2, InitInv, PTL DEF Spec
=============================================================================
