------------------------ MODULE VdecDeviceProofs ------------------------
(***************************************************************************)
(* Proofs about VdecDevice and VdecInterface, for any platforms, batches,  *)
(* streams and budgets that satisfy their assumptions.                     *)
(*                                                                         *)
(* Types; that what a client configured in any order agrees (by IntfInv);  *)
(* and that what the decoder says of the stream reaches the pictures (by   *)
(* HdrInv and ColorsInv).                                                  *)
(***************************************************************************)
EXTENDS VdecDevice, SequenceTheorems, WellFoundedInduction, TLAPS
-----------------------------------------------------------------------------
(* The invariants.                                                           *)

IntfFields == {"tier", "size", "rate", "maxInput", "outputDelay", "inputDelay", "streamInputDelay",
               "tunnel", "allocator", "lowLatency", "gameMode", "avc4kMMU", "pixelFormat", "hdr",
               "colors"}

PossibleSize(n, size) == PossibleValue(n, [param |-> "size", value |-> size])

\* What the thread of the decoder configures.
DecoderParameters == Parameter({"hdr"}, Hdrs) \cup Parameter({"colors"}, STRING)
AllParameters     == ClientParameters \cup DecoderParameters

\* An interface as the setters and the handlers keep it, of the decoder n.
GoodInterface(n, i) ==
    /\ DOMAIN i = IntfFields
    /\ i.size \in Sizes /\ (i.size = DefaultSize \/ PossibleSize(n, i.size))
    /\ i.maxInput \in Nat
    /\ i.outputDelay \in 0 .. kMaxOutputDelay
    /\ i.inputDelay \in 0 .. 256 /\ i.streamInputDelay \in 0 .. 256

LargeEnough(i) == Area(i.size) > 1920 * 1088 => i.maxInput >= 4 * kLinearBufferSize

\* Pictures of 4K are accepted only of decoders that declare them.
TierCovers(i, size) == Area(size) >= 3840 * 2160 => i.tier # "fhd"

\* The decoder exists and its attributes are known.
KnownName(n) == n \in Usable /\ n \in DOMAIN platform.xml

StoreInv ==
    /\ platform \in Platforms
    /\ mComponents \subseteq gVideoDecoderComponents
    /\ mCodecAttributes \subseteq gVideoDecoderComponents \cap DOMAIN platform.xml

ClientInv ==
    /\ padding \in {0, 262144}
    /\ DOMAIN comp = {"exists", "tunnel", "maxResolution"}
    /\ comp.exists => name # noName
    /\ name = noName => accepted = DefaultSize /\ ~comp.exists

NameInv ==
    name # noName =>
        /\ KnownName(name)
        /\ GoodInterface(name, intf) /\ LargeEnough(intf)
        /\ isCodecSupport4k(name) => intf.tier # "fhd"
        /\ TierCovers(intf, accepted)

IntfInv == StoreInv /\ ClientInv /\ NameInv

DoubleWrites == {1, 3, 4, \h10, \h200, \h400, \h10001}

\* The fields that the steps of the report read of what they do not write.
DevFields    == {"hdrChanged", "colorsChanged", "signal"}
ParamsFields == {"doubleWrite", "hdr"}
FlagsFields  == {"usageGot", "allocated", "visible"}
ReportFields == {"seen", "fields", "hdr", "colors"}

WriterStates == {Steps(h, TRUE) : h \in BOOLEAN} \cup {Tail(Steps(h, TRUE)) : h \in BOOLEAN}
                    \cup {Steps(h, FALSE) : h \in BOOLEAN} \cup {<<"flagHdr">>}

SessionInv ==
    /\ session \in {"stopped", "started", "error"}
    /\ DevFields \subseteq DOMAIN dev /\ ParamsFields \subseteq DOMAIN params
    /\ DOMAIN flags = FlagsFields /\ DOMAIN current = {"hdr", "colors"}
    /\ DOMAIN reported = ReportFields /\ reported.hdr \in Hdrs
    /\ session # "stopped" => name # noName
    /\ params.doubleWrite \in DoubleWrites \cup {0}
    /\ session = "started" => params.doubleWrite # 0
    /\ flags.allocated => flags.usageGot
    /\ stream \in Streams \cup {noStream}
    /\ stream # noStream => flags.usageGot
    /\ stream = noStream => playing = noStream /\ format = NoFormat
    /\ session = "stopped" =>
           buffers = {} /\ format = NoFormat /\ stream = noStream
    /\ writer \in WriterStates
    /\ writer # <<>> => session # "stopped" /\ stream # noStream
    /\ reader \in {"idle", "updateColorAspects", "hdr", "updateHDRStaticInfo"}
    /\ reader # "idle" => session # "stopped"

\* Before an interface is made nothing is known of any stream.
FreshInv ==
    name = noName => /\ dev.signal = none /\ params.hdr = noHdr
                     /\ reported = NothingReported

\* HDR values that differ only in the lowest luminance.
Alike(h1, h2) ==
    h1.primaries = h2.primaries /\ h1.red = h2.red /\ h1.max = h2.max

\* What is still to be done in a state of the writer.
HdrPending(w)    == w \in {Steps(TRUE, c) : c \in BOOLEAN} \cup {Tail(Steps(TRUE, TRUE))}
ColorsPending(w) == w \in {Steps(h, TRUE) : h \in BOOLEAN}
FlagsColors(w)   == w \in {Tail(Steps(h, TRUE)) : h \in BOOLEAN}
FlagsHdr(w)      == w = <<"flagHdr">>

\* What the decoder said last is in the interface, or on its way there; what is compared with
\* the next is what the interface has, or is reset so that everything differs; and a picture
\* has what the interface has unless the flag is up or about to be, or was just taken.
HdrInv ==
    /\ params.hdr \in Hdrs
    /\ name # noName => intf.hdr \in Hdrs
    /\ HdrPending(writer) =>
           reported.hdr = stream.hdr /\ params.hdr = stream.hdr /\ stream.hdr # noHdr
    /\ ~HdrPending(writer) =>
           /\ reported.hdr # noHdr => Alike(intf.hdr, reported.hdr)
           /\ params.hdr = noHdr \/ Alike(params.hdr, intf.hdr)
    /\ ("hdr" \in reported.seen /\ ~dev.hdrChanged /\ ~FlagsHdr(writer)
            /\ reader # "updateHDRStaticInfo") => current.hdr = intf.hdr

ColorsInv ==
    /\ ColorsPending(writer) =>
           reported.colors = stream.colors /\ dev.signal = stream.colors /\ stream.colors # none
    /\ ~ColorsPending(writer) =>
           /\ reported.colors # none => intf.colors = reported.colors
           /\ dev.signal # none => intf.colors = dev.signal
    /\ ("colors" \in reported.seen /\ ~dev.colorsChanged /\ ~FlagsColors(writer)
            /\ reader # "updateColorAspects") => current.colors = intf.colors

IInv == IntfInv /\ SessionInv /\ FreshInv /\ HdrInv /\ ColorsInv
-----------------------------------------------------------------------------
(* Induction over the natural numbers, and folds over batches.               *)

Applied(n, i, batch)  == FoldLeft(LAMBDA acc, p : Apply(n, acc, p), i, batch)
Handled(start, batch) == FoldLeft(Handle, start, batch)

LEMMA NatSetInduction ==
    ASSUME NEW S, 0 \in S, \A k \in Nat : k \in S => k + 1 \in S
    PROVE  \A k \in Nat : k \in S
<1> DEFINE T == Nat \ S
<1> SUFFICES ASSUME T # {} PROVE FALSE
  OBVIOUS
<1>1. PICK m \in T : \A y \in T : ~ (<<y, m>> \in OpToRel(<, Nat))
  BY NatLessThanWellFounded, WFMin, T \subseteq Nat
<1>2. m \in Nat /\ m # 0
  OBVIOUS
<1>3. m - 1 \in Nat /\ <<m - 1, m>> \in OpToRel(<, Nat)
  BY <1>2 DEF OpToRel
<1>4. m - 1 \notin T
  BY <1>1, <1>3
<1>5. (m - 1) + 1 \in S
  BY <1>3, <1>4
<1> QED BY <1>2, <1>5

LEMMA MaxOfPrefix ==
    ASSUME NEW m \in Nat, NEW s, s \subseteq 1 .. m + 1, ~(s \subseteq 1 .. m)
    PROVE  m + 1 \in s /\ Max(s) = m + 1 /\ s \ {m + 1} \subseteq 1 .. m
<1>1. m + 1 \in s /\ s \ {m + 1} \subseteq 1 .. m
  OBVIOUS
<1>2. \A x \in s : x \in Int /\ m + 1 >= x
  OBVIOUS
<1>3. \A x \in s : (\A y \in s : x >= y) => x = m + 1
  BY <1>1, <1>2
<1>4. Max(s) = m + 1
  BY <1>1, <1>2, <1>3 DEF Max
<1> QED BY <1>1, <1>4

\* The parameters of a batch are applied one by one.
LEMMA FoldOfApply ==
    ASSUME NEW n, NEW i, NEW U, NEW batch \in Seq(U)
    PROVE  \E f : /\ f[0] = i
                  /\ \A k \in Nat : k + 1 <= Len(batch) => f[k + 1] = Apply(n, f[k], batch[k + 1])
                  /\ Applied(n, i, batch) = f[Len(batch)]
<1> DEFINE E(g, s) == IF s = {} THEN i ELSE Apply(n, g[s \ {Max(s)}], batch[Max(s)])
           Rec(g, S) == g = [s \in SUBSET S |-> E(g, s)]
           it == CHOOSE it : Rec(it, DOMAIN batch)
           K == {m \in Nat : \E g : Rec(g, 1 .. m)}
<1>1. Applied(n, i, batch) = it[DOMAIN batch]
  BY DEF Applied, FoldLeft, MapThenFoldSet, Max
<1>2. 0 \in K
  <2> DEFINE g == [s \in SUBSET (1 .. 0) |-> i]
  <2>1. \A s \in SUBSET (1 .. 0) : s = {}
    OBVIOUS
  <2>2. Rec(g, 1 .. 0)
    BY <2>1, Zenon
  <2> QED BY <2>2
<1>3. ASSUME NEW m \in Nat, m \in K PROVE m + 1 \in K
  <2>1. PICK g : Rec(g, 1 .. m)
    BY <1>3
  <2> DEFINE h == [s \in SUBSET (1 .. m + 1) |->
                      IF s \subseteq 1 .. m THEN g[s] ELSE Apply(n, g[s \ {m + 1}], batch[m + 1])]
  <2>2. 1 .. m \subseteq 1 .. m + 1
    OBVIOUS
  <2>3. \A s \in SUBSET (1 .. m) : h[s] = g[s]
    BY <2>2, Zenon
  <2>4. \A s \in SUBSET (1 .. m) : g[s] = E(g, s)
    BY <2>1, Zenon
  <2>5. ASSUME NEW s \in SUBSET (1 .. m + 1) PROVE h[s] = E(h, s)
    <3>1. CASE s \subseteq 1 .. m
      <4>1. s \ {Max(s)} \in SUBSET (1 .. m)
        BY <3>1
      <4>2. h[s \ {Max(s)}] = g[s \ {Max(s)}]
        BY <4>1, <2>3, Zenon
      <4> QED BY <3>1, <4>2, <2>3, <2>4, Zenon
    <3>2. CASE ~(s \subseteq 1 .. m)
      <4>1. m + 1 \in s /\ Max(s) = m + 1 /\ s \ {m + 1} \in SUBSET (1 .. m)
        BY <3>2, MaxOfPrefix
      <4>2. h[s \ {m + 1}] = g[s \ {m + 1}]
        BY <4>1, <2>3, Zenon
      <4>3. h[s] = Apply(n, g[s \ {m + 1}], batch[m + 1])
        BY <3>2, Zenon
      <4>4. s # {}
        BY <4>1
      <4> HIDE DEF h
      <4> QED BY <4>1, <4>2, <4>3, <4>4, Zenon
    <3> QED BY <3>1, <3>2
  <2>6. h = [s \in SUBSET (1 .. m + 1) |-> h[s]]
    OBVIOUS
  <2>7. Rec(h, 1 .. m + 1)
    <3> HIDE DEF h
    <3> QED BY <2>5, <2>6, Zenon
  <2>8. m + 1 \in Nat
    OBVIOUS
  <2> HIDE DEF h, Rec
  <2> QED BY <2>7, <2>8
<1>4. Len(batch) \in Nat /\ DOMAIN batch = 1 .. Len(batch)
  OBVIOUS
<1>5. Len(batch) \in K
  <2> HIDE DEF K
  <2> QED BY <1>2, <1>3, <1>4, NatSetInduction
<1>6. Rec(it, DOMAIN batch)
  BY <1>4, <1>5, Zenon
<1> HIDE DEF it
<1>7. ASSUME NEW s \in SUBSET (1 .. Len(batch)) PROVE it[s] = E(it, s)
  BY <1>4, <1>6, Zenon
<1> DEFINE f == [k \in Nat |-> it[1 .. k]]
<1>8. f[0] = i
  <2>1. {} \in SUBSET (1 .. Len(batch)) /\ 1 .. 0 = {}
    OBVIOUS
  <2>2. it[{}] = i
    BY <1>7, <2>1, Zenon
  <2>3. 0 \in Nat
    OBVIOUS
  <2> QED BY <2>1, <2>2, <2>3, Zenon
<1>9. ASSUME NEW k \in Nat, k + 1 <= Len(batch)
      PROVE  f[k + 1] = Apply(n, f[k], batch[k + 1])
  <2>1. k + 1 \in Nat /\ k + 1 \in 1 .. k + 1
    OBVIOUS
  <2>2. 1 .. k + 1 \in SUBSET (1 .. Len(batch))
    BY <1>4, <1>9
  <2>3. ~(1 .. k + 1 \subseteq 1 .. k)
    OBVIOUS
  <2>4. Max(1 .. k + 1) = k + 1
    BY <2>3, MaxOfPrefix
  <2>5. (1 .. k + 1) \ {k + 1} = 1 .. k
    OBVIOUS
  <2>6. 1 .. k + 1 # {}
    BY <2>1
  <2>7. it[1 .. k + 1] = Apply(n, it[1 .. k], batch[k + 1])
    BY <1>7, <2>2, <2>4, <2>5, <2>6, Zenon
  <2> QED BY <2>1, <2>7, Zenon
<1>10. it[DOMAIN batch] = f[Len(batch)]
  BY <1>4, Zenon
<1> HIDE DEF f
<1> QED BY <1>1, <1>8, <1>9, <1>10, Zenon

\* And handled one by one.
LEMMA FoldOfHandle ==
    ASSUME NEW start, NEW U, NEW batch \in Seq(U)
    PROVE  \E f : /\ f[0] = start
                  /\ \A k \in Nat : k + 1 <= Len(batch) => f[k + 1] = Handle(f[k], batch[k + 1])
                  /\ Handled(start, batch) = f[Len(batch)]
<1> DEFINE E(g, s) == IF s = {} THEN start ELSE Handle(g[s \ {Max(s)}], batch[Max(s)])
           Rec(g, S) == g = [s \in SUBSET S |-> E(g, s)]
           it == CHOOSE it : Rec(it, DOMAIN batch)
           K == {m \in Nat : \E g : Rec(g, 1 .. m)}
<1>1. Handled(start, batch) = it[DOMAIN batch]
  BY DEF Handled, FoldLeft, MapThenFoldSet, Max
<1>2. 0 \in K
  <2> DEFINE g == [s \in SUBSET (1 .. 0) |-> start]
  <2>1. \A s \in SUBSET (1 .. 0) : s = {}
    OBVIOUS
  <2>2. Rec(g, 1 .. 0)
    BY <2>1, Zenon
  <2> QED BY <2>2
<1>3. ASSUME NEW m \in Nat, m \in K PROVE m + 1 \in K
  <2>1. PICK g : Rec(g, 1 .. m)
    BY <1>3
  <2> DEFINE h == [s \in SUBSET (1 .. m + 1) |->
                      IF s \subseteq 1 .. m THEN g[s] ELSE Handle(g[s \ {m + 1}], batch[m + 1])]
  <2>2. 1 .. m \subseteq 1 .. m + 1
    OBVIOUS
  <2>3. \A s \in SUBSET (1 .. m) : h[s] = g[s]
    BY <2>2, Zenon
  <2>4. \A s \in SUBSET (1 .. m) : g[s] = E(g, s)
    BY <2>1, Zenon
  <2>5. ASSUME NEW s \in SUBSET (1 .. m + 1) PROVE h[s] = E(h, s)
    <3>1. CASE s \subseteq 1 .. m
      <4>1. s \ {Max(s)} \in SUBSET (1 .. m)
        BY <3>1
      <4>2. h[s \ {Max(s)}] = g[s \ {Max(s)}]
        BY <4>1, <2>3, Zenon
      <4> QED BY <3>1, <4>2, <2>3, <2>4, Zenon
    <3>2. CASE ~(s \subseteq 1 .. m)
      <4>1. m + 1 \in s /\ Max(s) = m + 1 /\ s \ {m + 1} \in SUBSET (1 .. m)
        BY <3>2, MaxOfPrefix
      <4>2. h[s \ {m + 1}] = g[s \ {m + 1}]
        BY <4>1, <2>3, Zenon
      <4>3. h[s] = Handle(g[s \ {m + 1}], batch[m + 1])
        BY <3>2, Zenon
      <4>4. s # {}
        BY <4>1
      <4> HIDE DEF h
      <4> QED BY <4>1, <4>2, <4>3, <4>4, Zenon
    <3> QED BY <3>1, <3>2
  <2>6. h = [s \in SUBSET (1 .. m + 1) |-> h[s]]
    OBVIOUS
  <2>7. Rec(h, 1 .. m + 1)
    <3> HIDE DEF h
    <3> QED BY <2>5, <2>6, Zenon
  <2>8. m + 1 \in Nat
    OBVIOUS
  <2> HIDE DEF h, Rec
  <2> QED BY <2>7, <2>8
<1>4. Len(batch) \in Nat /\ DOMAIN batch = 1 .. Len(batch)
  OBVIOUS
<1>5. Len(batch) \in K
  <2> HIDE DEF K
  <2> QED BY <1>2, <1>3, <1>4, NatSetInduction
<1>6. Rec(it, DOMAIN batch)
  BY <1>4, <1>5, Zenon
<1> HIDE DEF it
<1>7. ASSUME NEW s \in SUBSET (1 .. Len(batch)) PROVE it[s] = E(it, s)
  BY <1>4, <1>6, Zenon
<1> DEFINE f == [k \in Nat |-> it[1 .. k]]
<1>8. f[0] = start
  <2>1. {} \in SUBSET (1 .. Len(batch)) /\ 1 .. 0 = {}
    OBVIOUS
  <2>2. it[{}] = start
    BY <1>7, <2>1, Zenon
  <2>3. 0 \in Nat
    OBVIOUS
  <2> QED BY <2>1, <2>2, <2>3, Zenon
<1>9. ASSUME NEW k \in Nat, k + 1 <= Len(batch)
      PROVE  f[k + 1] = Handle(f[k], batch[k + 1])
  <2>1. k + 1 \in Nat /\ k + 1 \in 1 .. k + 1
    OBVIOUS
  <2>2. 1 .. k + 1 \in SUBSET (1 .. Len(batch))
    BY <1>4, <1>9
  <2>3. ~(1 .. k + 1 \subseteq 1 .. k)
    OBVIOUS
  <2>4. Max(1 .. k + 1) = k + 1
    BY <2>3, MaxOfPrefix
  <2>5. (1 .. k + 1) \ {k + 1} = 1 .. k
    OBVIOUS
  <2>6. 1 .. k + 1 # {}
    BY <2>1
  <2>7. it[1 .. k + 1] = Handle(it[1 .. k], batch[k + 1])
    BY <1>7, <2>2, <2>4, <2>5, <2>6, Zenon
  <2> QED BY <2>1, <2>7, Zenon
<1>10. it[DOMAIN batch] = f[Len(batch)]
  BY <1>4, Zenon
<1> HIDE DEF f
<1> QED BY <1>1, <1>8, <1>9, <1>10, Zenon

-----------------------------------------------------------------------------
(* The interface.                                                            *)

LEMMA AreaType ==
    \A size \in Sizes : Area(size) \in Nat
<1> SUFFICES ASSUME NEW size \in Sizes PROVE Area(size) \in Nat
  OBVIOUS
<1>1. size.width \in Nat /\ size.height \in Nat
  BY DEF Sizes
<1>2. \A a, b \in Nat : a * b \in Nat
  OBVIOUS
<1> QED BY <1>1, <1>2 DEF Area

LEMMA DefaultSizeType ==
    DefaultSize \in Sizes /\ Area(DefaultSize) = 25344
BY DEF DefaultSize, Sizes, Area

\* What a name in the store has in the XML.
LEMMA AttributesType ==
    ASSUME platform \in Platforms, NEW n \in DOMAIN platform.xml
    PROVE  /\ Xml(n).minSize \in Sizes /\ Xml(n).maxSize \in Sizes
           /\ Xml(n).blocks \in Nat /\ Xml(n).blockArea \in Nat
           /\ MaxBlockSize(n) \in Nat /\ Area(Xml(n).maxSize) \in Nat
<1>1. Xml(n) \in [minSize : Sizes, maxSize : Sizes, blocks : Nat, blockArea : Nat,
                  blocksPerSecond : Nat]
  BY PlatformsAssumption DEF Xml
<1>2. \A a, b \in Nat : a * b \in Nat
  OBVIOUS
<1> QED BY <1>1, <1>2, AreaType DEF MaxBlockSize

\* One parameter.
LEMMA ApplyGood ==
    ASSUME NEW n, NEW i, GoodInterface(n, i), NEW p \in AllParameters
    PROVE  /\ GoodInterface(n, Apply(n, i, p))
           /\ Apply(n, i, p).tier = i.tier
           /\ p.param # "maxInput" => Apply(n, i, p).maxInput = i.maxInput
           /\ p.param # "hdr" => Apply(n, i, p).hdr = i.hdr
           /\ p.param = "hdr" => Apply(n, i, p).hdr = p.value
           /\ p.param # "colors" => Apply(n, i, p).colors = i.colors
           /\ p.param = "colors" => Apply(n, i, p).colors = p.value
<1>1. /\ p.param \in IntfFields \ {"tier", "allocator"}
      /\ p.param = "size" => p.value \in Sizes
      /\ p.param = "maxInput" => p.value \in Nat
  BY DEF AllParameters, ClientParameters, DecoderParameters, Parameter, IntfFields
<1>2. p.param \in {"hdr", "colors"} => PossibleValue(n, p)
  BY DEF PossibleValue
<1>3. p.param = "size" /\ PossibleValue(n, p) => PossibleSize(n, p.value)
  BY DEF PossibleValue, PossibleSize
<1>4. /\ p.param = "outputDelay" /\ PossibleValue(n, p) => p.value \in 0 .. kMaxOutputDelay
      /\ p.param = "inputDelay" /\ PossibleValue(n, p) => p.value \in 0 .. 256
      /\ p.param = "streamInputDelay" /\ PossibleValue(n, p) => p.value \in 0 .. 256
  BY DEF PossibleValue, kMaxInputDelay
<1>5. CASE ~PossibleValue(n, p)
  BY <1>2, <1>5 DEF Apply
<1>6. CASE PossibleValue(n, p)
  <2> DEFINE a == [i EXCEPT ![p.param] = p.value]
  <2>1. Apply(n, i, p) = a
    BY <1>6 DEF Apply
  <2>2. DOMAIN i = IntfFields /\ DOMAIN a = IntfFields
    BY DEF GoodInterface
  <2>3. \A field \in IntfFields : a[field] = IF field = p.param THEN p.value ELSE i[field]
    BY <2>2
  <2>4. /\ a.size = IF p.param = "size" THEN p.value ELSE i.size
        /\ a.maxInput = IF p.param = "maxInput" THEN p.value ELSE i.maxInput
        /\ a.outputDelay = IF p.param = "outputDelay" THEN p.value ELSE i.outputDelay
        /\ a.inputDelay = IF p.param = "inputDelay" THEN p.value ELSE i.inputDelay
        /\ a.streamInputDelay = IF p.param = "streamInputDelay" THEN p.value ELSE i.streamInputDelay
        /\ a.tier = IF p.param = "tier" THEN p.value ELSE i.tier
        /\ a.hdr = IF p.param = "hdr" THEN p.value ELSE i.hdr
        /\ a.colors = IF p.param = "colors" THEN p.value ELSE i.colors
    BY <2>3 DEF IntfFields
  <2> HIDE DEF a
  <2>5. GoodInterface(n, a)
    BY <1>1, <1>3, <1>4, <1>6, <2>2, <2>4 DEF GoodInterface
  <2> QED BY <1>1, <2>1, <2>4, <2>5
<1> QED BY <1>5, <1>6

\* All of them, before anything is checked.
LEMMA AppliedGood ==
    ASSUME NEW n, NEW i, GoodInterface(n, i), NEW batch \in Seq(AllParameters),
           NEW after, after = Applied(n, i, batch)
    PROVE  /\ GoodInterface(n, after)
           /\ after.tier = i.tier
           /\ ~(\E k \in DOMAIN batch : batch[k].param = "maxInput") => after.maxInput = i.maxInput
           /\ batch \in Seq(ClientParameters) => after.hdr = i.hdr /\ after.colors = i.colors
           /\ Len(batch) = 1 => after = Apply(n, i, batch[1])
<1>1. PICK f : /\ f[0] = i
               /\ \A k \in Nat : k + 1 <= Len(batch) => f[k + 1] = Apply(n, f[k], batch[k + 1])
               /\ after = f[Len(batch)]
  BY FoldOfApply
<1> DEFINE Good(j) == /\ GoodInterface(n, j)
                      /\ j.tier = i.tier
                      /\ ~(\E k \in DOMAIN batch : batch[k].param = "maxInput") =>
                             j.maxInput = i.maxInput
                      /\ batch \in Seq(ClientParameters) => j.hdr = i.hdr /\ j.colors = i.colors
           K == {k \in Nat : k <= Len(batch) => Good(f[k])}
<1>2. 0 \in K
  BY <1>1
<1>3. ASSUME NEW k \in Nat, k \in K PROVE k + 1 \in K
  <2> SUFFICES ASSUME k + 1 <= Len(batch) PROVE Good(f[k + 1])
    OBVIOUS
  <2>1. Good(f[k])
    BY <1>3
  <2>2. k + 1 \in DOMAIN batch /\ batch[k + 1] \in AllParameters
    OBVIOUS
  <2>3. f[k + 1] = Apply(n, f[k], batch[k + 1])
    BY <1>1
  <2>4. batch \in Seq(ClientParameters) => batch[k + 1].param \notin {"hdr", "colors"}
    <3>1. ASSUME batch \in Seq(ClientParameters) PROVE batch[k + 1] \in ClientParameters
      BY <3>1, <2>2
    <3> QED BY <3>1 DEF ClientParameters, Parameter
  <2> DEFINE j == f[k]
             p == batch[k + 1]
  <2>5. GoodInterface(n, j) /\ p \in AllParameters
    BY <2>1, <2>2
  <2>6. /\ GoodInterface(n, Apply(n, j, p))
        /\ Apply(n, j, p).tier = j.tier
        /\ p.param # "maxInput" => Apply(n, j, p).maxInput = j.maxInput
        /\ p.param # "hdr" => Apply(n, j, p).hdr = j.hdr
        /\ p.param # "colors" => Apply(n, j, p).colors = j.colors
    <3> HIDE DEF j, p
    <3> QED BY <2>5, ApplyGood
  <2> QED BY <2>1, <2>2, <2>3, <2>4, <2>6
<1>4. Len(batch) \in Nat
  OBVIOUS
<1>5. Len(batch) \in K
  <2> HIDE DEF K
  <2> QED BY <1>2, <1>3, <1>4, NatSetInduction
<1>6. Len(batch) = 1 => after = Apply(n, i, batch[1])
  <2> SUFFICES ASSUME Len(batch) = 1 PROVE f[1] = Apply(n, i, batch[1])
    BY <1>1
  <2>1. 0 \in Nat /\ 0 + 1 <= Len(batch) /\ 0 + 1 = 1
    OBVIOUS
  <2> QED BY <1>1, <2>1
<1> QED BY <1>1, <1>4, <1>5, <1>6

LEMMA MaxSizeGood ==
    ASSUME platform \in Platforms, padding \in {0, 262144}, NEW value \in Nat, NEW size \in Sizes
    PROVE  /\ MaxSizeCalculator(value, size) \in Nat
           /\ Area(size) > 1920 * 1088 => MaxSizeCalculator(value, size) >= 4 * kLinearBufferSize
<1>1. platform.maxInput \in Nat
  BY PlatformsAssumption
<1>2. Area(size) \in Nat
  BY AreaType
<1> QED BY <1>1, <1>2 DEF MaxSizeCalculator, kLinearBufferSize, kMaxInputBufferSize

LEMMA HelperGood ==
    ASSUME IntfInv, name # noName, NEW batch \in Seq(AllParameters),
           NEW a, a = InterfaceHelper_config(name, intf, batch)
    PROVE  /\ GoodInterface(name, a) /\ LargeEnough(a)
           /\ a.tier = intf.tier
           /\ batch \in Seq(ClientParameters) => a.hdr = intf.hdr /\ a.colors = intf.colors
           /\ Len(batch) = 1 => /\ a.hdr = Apply(name, intf, batch[1]).hdr
                                /\ a.colors = Apply(name, intf, batch[1]).colors
<1> DEFINE after == Applied(name, intf, batch)
<1>1. GoodInterface(name, intf) /\ LargeEnough(intf)
  BY DEF IntfInv, StoreInv, ClientInv, NameInv
<1>2. /\ GoodInterface(name, after)
      /\ after.tier = intf.tier
      /\ ~(\E k \in DOMAIN batch : batch[k].param = "maxInput") => after.maxInput = intf.maxInput
      /\ batch \in Seq(ClientParameters) => after.hdr = intf.hdr /\ after.colors = intf.colors
      /\ Len(batch) = 1 => after = Apply(name, intf, batch[1])
  BY <1>1, AppliedGood
<1>3. a = IF Recalculate(batch, intf, after)
          THEN [after EXCEPT !.maxInput = MaxSizeCalculator(after.maxInput, after.size)]
          ELSE after
  BY DEF InterfaceHelper_config, Applied
<1> HIDE DEF after
<1>4. CASE ~Recalculate(batch, intf, after)
  <2>1. after.maxInput = intf.maxInput /\ after.size = intf.size
    BY <1>2, <1>4 DEF Recalculate
  <2>2. LargeEnough(after)
    BY <1>1, <2>1 DEF LargeEnough
  <2> QED BY <1>2, <1>3, <1>4, <2>2
<1>5. CASE Recalculate(batch, intf, after)
  <2> DEFINE max == MaxSizeCalculator(after.maxInput, after.size)
  <2>1. after.maxInput \in Nat /\ after.size \in Sizes /\ DOMAIN after = IntfFields
    BY <1>2 DEF GoodInterface
  <2>2. max \in Nat /\ (Area(after.size) > 1920 * 1088 => max >= 4 * kLinearBufferSize)
    BY <2>1, MaxSizeGood DEF IntfInv, StoreInv, ClientInv, NameInv
  <2>3. a = [after EXCEPT !.maxInput = max]
    BY <1>3, <1>5
  <2> HIDE DEF max
  <2>4. /\ DOMAIN a = IntfFields /\ a.maxInput = max
        /\ a.size = after.size /\ a.tier = after.tier
        /\ a.outputDelay = after.outputDelay /\ a.inputDelay = after.inputDelay
        /\ a.streamInputDelay = after.streamInputDelay
        /\ a.hdr = after.hdr /\ a.colors = after.colors
    BY <2>1, <2>3 DEF IntfFields
  <2>5. GoodInterface(name, a) /\ LargeEnough(a)
    BY <1>2, <2>2, <2>4 DEF GoodInterface, LargeEnough
  <2> QED BY <1>2, <2>4, <2>5
<1> QED BY <1>4, <1>5

\* The handlers, on the interface a that the helper left: whatever they set, also of a batch of
\* which a part is not accepted.
GoodState(a, s) ==
    /\ DOMAIN s = {"i", "c", "accepted", "ok"}
    /\ GoodInterface(name, s.i) /\ LargeEnough(s.i)
    /\ s.i.tier = a.tier /\ s.i.hdr = a.hdr /\ s.i.colors = a.colors
    /\ TierCovers(a, s.accepted)
    /\ DOMAIN s.c = {"exists", "tunnel", "maxResolution"} /\ s.c.exists = comp.exists

LEMMA HandlerGood ==
    ASSUME platform \in Platforms, KnownName(name), NEW a, NEW s, GoodState(a, s),
           isCodecSupport4k(name) => a.tier # "fhd"
    PROVE  /\ GoodState(a, onTunneledModeTuningConfigParam(s))
           /\ GoodState(a, onStreamModeInputDelayConfigParam(s))
           /\ GoodState(a, onStreamMaxBufferSizeInfoConfigParam(s))
           /\ GoodState(a, onStreamPictureSizeConfigParam(s))
           /\ GoodState(a, onStreamFrameRateConfigParam(s))
<1> USE DEF IntfFields
<1>1. GoodState(a, onTunneledModeTuningConfigParam(s))
  <2> DEFINE t == onTunneledModeTuningConfigParam(s)
  <2>1. t = [s EXCEPT !.c.tunnel = TRUE, !.i.allocator = "gralloc", !.i.outputDelay = 10]
    BY DEF onTunneledModeTuningConfigParam, kDefaultOutputDelayTunnel
  <2> HIDE DEF t
  <2>2. DOMAIN s = {"i", "c", "accepted", "ok"} /\ DOMAIN s.i = IntfFields
    BY DEF GoodState, GoodInterface
  <2>3. /\ DOMAIN t = {"i", "c", "accepted", "ok"} /\ t.accepted = s.accepted
        /\ t.i = [s.i EXCEPT !.allocator = "gralloc", !.outputDelay = 10]
        /\ t.c = [s.c EXCEPT !.tunnel = TRUE]
    BY <2>1, <2>2
  <2>4. /\ DOMAIN t.i = IntfFields
        /\ t.i.size = s.i.size /\ t.i.maxInput = s.i.maxInput /\ t.i.outputDelay = 10
        /\ t.i.inputDelay = s.i.inputDelay /\ t.i.streamInputDelay = s.i.streamInputDelay
        /\ t.i.tier = s.i.tier /\ t.i.hdr = s.i.hdr /\ t.i.colors = s.i.colors
    BY <2>2, <2>3
  <2>5. GoodInterface(name, t.i) /\ LargeEnough(t.i)
    BY <2>4 DEF GoodState, GoodInterface, LargeEnough, kMaxOutputDelay
  <2>6. DOMAIN t.c = {"exists", "tunnel", "maxResolution"} /\ t.c.exists = comp.exists
    BY <2>3 DEF GoodState
  <2>7. GoodState(a, t)
    BY <2>3, <2>4, <2>5, <2>6 DEF GoodState
  <2> QED BY <2>7 DEF t
<1>2. GoodState(a, onStreamModeInputDelayConfigParam(s))
  BY DEF GoodState, GoodInterface, LargeEnough, onStreamModeInputDelayConfigParam
<1>3. GoodState(a, onStreamMaxBufferSizeInfoConfigParam(s))
  <2>1. platform.maxInputHandler \in Nat /\ platform.maxInputHandler >= 4 * kLinearBufferSize
    BY PlatformsAssumption
  <2> QED BY <2>1 DEF GoodState, GoodInterface, LargeEnough, onStreamMaxBufferSizeInfoConfigParam
<1>4. GoodState(a, onStreamFrameRateConfigParam(s))
  BY DEF GoodState, onStreamFrameRateConfigParam
<1>5. GoodState(a, onStreamPictureSizeConfigParam(s))
  <2> DEFINE t == onStreamPictureSizeConfigParam(s)
  <2>1. t = [s EXCEPT !.c.maxResolution = @ \/ isMaxResolutionFromXml(name, s.i.size),
                      !.ok = isCodecSupportResolutionRatio(name, Area(s.i.size)),
                      !.accepted = IF isCodecSupportResolutionRatio(name, Area(s.i.size))
                                   THEN s.i.size ELSE @]
    BY DEF onStreamPictureSizeConfigParam
  <2> HIDE DEF t
  <2>2. /\ DOMAIN t = {"i", "c", "accepted", "ok"}
        /\ t.i = s.i
        /\ DOMAIN t.c = {"exists", "tunnel", "maxResolution"} /\ t.c.exists = comp.exists
        /\ t.accepted = IF isCodecSupportResolutionRatio(name, Area(s.i.size))
                        THEN s.i.size ELSE s.accepted
    BY <2>1 DEF GoodState
  <2>3. ASSUME isCodecSupportResolutionRatio(name, Area(s.i.size)),
               Area(s.i.size) >= 3840 * 2160
        PROVE  a.tier # "fhd"
    <3>1. s.i.size \in Sizes
      BY DEF GoodState, GoodInterface
    <3>2. Area(s.i.size) \in Nat
      BY <3>1, AreaType
    <3>3. name \in DOMAIN platform.xml /\ HasAttributes(name)
      BY DEF KnownName, Usable, HasAttributes
    <3>4. MaxBlockSize(name) \in Nat /\ Area(Xml(name).maxSize) \in Nat
      BY <3>3, AttributesType
    <3>5. platform.support4k \/ isCodecSupportPictureSize(name, Area(s.i.size))
      BY <2>3, <3>2 DEF isCodecSupportResolutionRatio
    <3>6. isCodecSupport4k(name)
      BY <2>3, <3>2, <3>3, <3>4, <3>5 DEF isCodecSupport4k, isCodecSupportPictureSize
    <3> QED BY <3>6
  <2>4. TierCovers(a, t.accepted)
    BY <2>2, <2>3 DEF GoodState, TierCovers
  <2> QED BY <2>2, <2>4 DEF GoodState, t
<1> QED BY <1>1, <1>2, <1>3, <1>4, <1>5

\* Of config() everything is kept, also where it fails.
LEMMA ConfiguredGood ==
    ASSUME IntfInv, name # noName, NEW batch \in Seq(AllParameters),
           NEW s, s = Configured(batch)
    PROVE  /\ GoodInterface(name, s.i) /\ LargeEnough(s.i)
           /\ s.i.tier = intf.tier /\ TierCovers(intf, s.accepted)
           /\ DOMAIN s.c = {"exists", "tunnel", "maxResolution"} /\ s.c.exists = comp.exists
           /\ batch \in Seq(ClientParameters) => s.i.hdr = intf.hdr /\ s.i.colors = intf.colors
           /\ Len(batch) = 1 => /\ s.i.hdr = Apply(name, intf, batch[1]).hdr
                                /\ s.i.colors = Apply(name, intf, batch[1]).colors
<1> DEFINE a == InterfaceHelper_config(name, intf, batch)
           start == [i |-> a, c |-> comp, accepted |-> accepted, ok |-> TRUE]
<1>1. /\ GoodInterface(name, a) /\ LargeEnough(a)
      /\ a.tier = intf.tier
      /\ batch \in Seq(ClientParameters) => a.hdr = intf.hdr /\ a.colors = intf.colors
      /\ Len(batch) = 1 => /\ a.hdr = Apply(name, intf, batch[1]).hdr
                           /\ a.colors = Apply(name, intf, batch[1]).colors
  BY HelperGood
<1>2. s = IF comp.exists THEN Handled(start, batch) ELSE start
  BY DEF Configured, Handled
<1> HIDE DEF a
<1>3. /\ platform \in Platforms /\ KnownName(name)
      /\ isCodecSupport4k(name) => a.tier # "fhd"
      /\ DOMAIN comp = {"exists", "tunnel", "maxResolution"}
      /\ TierCovers(intf, accepted)
  BY <1>1 DEF IntfInv, StoreInv, ClientInv, NameInv
<1>4. GoodState(a, start)
  BY <1>1, <1>3 DEF GoodState, TierCovers
<1>5. GoodState(a, Handled(start, batch))
  <2> HIDE DEF start
  <2>1. PICK f : /\ f[0] = start
                 /\ \A k \in Nat : k + 1 <= Len(batch) => f[k + 1] = Handle(f[k], batch[k + 1])
                 /\ Handled(start, batch) = f[Len(batch)]
    BY FoldOfHandle
  <2> DEFINE K == {k \in Nat : k <= Len(batch) => GoodState(a, f[k])}
  <2>2. 0 \in K
    BY <1>4, <2>1
  <2>3. ASSUME NEW k \in Nat, k \in K PROVE k + 1 \in K
    <3> SUFFICES ASSUME k + 1 <= Len(batch) PROVE GoodState(a, f[k + 1])
      OBVIOUS
    <3> DEFINE t == f[k]
    <3>1. GoodState(a, t)
      BY <2>3
    <3>2. f[k + 1] = Handle(t, batch[k + 1])
      BY <2>1
    <3> HIDE DEF t
    <3>3. /\ GoodState(a, onTunneledModeTuningConfigParam(t))
          /\ GoodState(a, onStreamModeInputDelayConfigParam(t))
          /\ GoodState(a, onStreamMaxBufferSizeInfoConfigParam(t))
          /\ GoodState(a, onStreamPictureSizeConfigParam(t))
          /\ GoodState(a, onStreamFrameRateConfigParam(t))
      BY <1>3, <3>1, HandlerGood
    <3>4. Handle(t, batch[k + 1]) \in
              {t, onTunneledModeTuningConfigParam(t), onStreamModeInputDelayConfigParam(t),
               onStreamMaxBufferSizeInfoConfigParam(t), onStreamPictureSizeConfigParam(t),
               onStreamFrameRateConfigParam(t)}
      BY DEF Handle
    <3> QED BY <3>1, <3>2, <3>3, <3>4
  <2>4. Len(batch) \in Nat
    OBVIOUS
  <2>5. Len(batch) \in K
    <3> HIDE DEF K
    <3> QED BY <2>2, <2>3, <2>4, NatSetInduction
  <2> QED BY <2>1, <2>4, <2>5
<1>6. GoodState(a, s)
  BY <1>2, <1>4, <1>5
<1> QED BY <1>1, <1>6 DEF GoodState, TierCovers

\* What the store knows does not change.
LEMMA StoreConstant ==
    ASSUME UNCHANGED <<platform, mComponents, mCodecAttributes>>
    PROVE  /\ StoreInv => StoreInv'
           /\ \A n : KnownName(n)' <=> KnownName(n)
           /\ \A n : isCodecSupport4k(n)' <=> isCodecSupport4k(n)
           /\ \A n, i : GoodInterface(n, i)' <=> GoodInterface(n, i)
<1>1. gVideoDecoderComponents' = gVideoDecoderComponents
  BY DEF gVideoDecoderComponents, Codecs
<1>2. \A n : KnownName(n)' <=> KnownName(n)
  BY DEF KnownName, Usable
<1>3. \A n : isCodecSupport4k(n)' <=> isCodecSupport4k(n)
  BY DEF isCodecSupport4k, isCodecSupportPictureSize, HasAttributes, Xml, MaxBlockSize, Area
<1>4. \A n, size : PossibleSize(n, size)' <=> PossibleSize(n, size)
  BY DEF PossibleSize, PossibleValue, Xml
<1>5. \A n, i : GoodInterface(n, i)' <=> GoodInterface(n, i)
  BY <1>4 DEF GoodInterface
<1>6. StoreInv => StoreInv'
  BY <1>1 DEF StoreInv
<1> QED BY <1>2, <1>3, <1>5, <1>6

\* A step that configures keeps IntfInv.
LEMMA ConfigureKeeps ==
    ASSUME IntfInv, name # noName, NEW batch \in Seq(AllParameters), Configure(batch),
           UNCHANGED <<platform, mComponents, mCodecAttributes, padding, name>>
    PROVE  /\ IntfInv'
           /\ comp'.exists = comp.exists
           /\ batch \in Seq(ClientParameters) => intf'.hdr = intf.hdr /\ intf'.colors = intf.colors
           /\ Len(batch) = 1 => /\ intf'.hdr = Apply(name, intf, batch[1]).hdr
                                /\ intf'.colors = Apply(name, intf, batch[1]).colors
<1> DEFINE s == Configured(batch)
<1>1. intf' = s.i /\ comp' = s.c /\ accepted' = s.accepted
  BY DEF Configure
<1>2. /\ GoodInterface(name, s.i) /\ LargeEnough(s.i)
      /\ s.i.tier = intf.tier /\ TierCovers(intf, s.accepted)
      /\ DOMAIN s.c = {"exists", "tunnel", "maxResolution"} /\ s.c.exists = comp.exists
      /\ batch \in Seq(ClientParameters) => s.i.hdr = intf.hdr /\ s.i.colors = intf.colors
      /\ Len(batch) = 1 => /\ s.i.hdr = Apply(name, intf, batch[1]).hdr
                           /\ s.i.colors = Apply(name, intf, batch[1]).colors
  BY ConfiguredGood
<1> HIDE DEF s
<1>3. /\ StoreInv'
      /\ KnownName(name)' <=> KnownName(name)
      /\ isCodecSupport4k(name)' <=> isCodecSupport4k(name)
      /\ GoodInterface(name, intf)' <=> GoodInterface(name, s.i)
  BY <1>1, StoreConstant DEF IntfInv
<1>4. LargeEnough(intf)' /\ TierCovers(intf, accepted)'
  BY <1>1, <1>2 DEF LargeEnough, TierCovers
<1>5. NameInv'
  <2>1. KnownName(name)'
    BY <1>3, SMT DEF IntfInv, NameInv
  <2>2. isCodecSupport4k(name)' => intf'.tier # "fhd"
    BY <1>1, <1>2, <1>3, SMT DEF IntfInv, NameInv
  <2> QED BY <1>2, <1>3, <1>4, <2>1, <2>2, SMT DEF NameInv
<1>6. ClientInv'
  BY <1>1, <1>2, SMT DEF IntfInv, ClientInv
<1>7. IntfInv'
  BY <1>3, <1>5, <1>6 DEF IntfInv
<1> QED BY <1>1, <1>2, <1>7

\* Or changes nothing but the padding.
LEMMA SameInterface ==
    ASSUME IntfInv, padding' \in {0, 262144},
           UNCHANGED <<platform, mComponents, mCodecAttributes, name, intf, comp, accepted>>
    PROVE  IntfInv'
<1>1. /\ StoreInv'
      /\ KnownName(name)' <=> KnownName(name)
      /\ isCodecSupport4k(name)' <=> isCodecSupport4k(name)
      /\ GoodInterface(name, intf)' <=> GoodInterface(name, intf)
  BY StoreConstant DEF IntfInv
<1>2. LargeEnough(intf)' <=> LargeEnough(intf)
  BY DEF LargeEnough
<1>3. TierCovers(intf, accepted)' <=> TierCovers(intf, accepted)
  BY DEF TierCovers
<1>4. NameInv'
  BY <1>1, <1>2, <1>3, SMT DEF IntfInv, NameInv
<1>5. ClientInv'
  BY SMT DEF IntfInv, ClientInv
<1> QED BY <1>1, <1>4, <1>5 DEF IntfInv

LEMMA InterfaceInitInv == InterfaceInit => IntfInv
<1> SUFFICES ASSUME InterfaceInit PROVE IntfInv
  OBVIOUS
<1>1. mCodecAttributes \subseteq gVideoDecoderComponents \cap DOMAIN platform.xml
  BY DEF InterfaceInit, codecSupportFromMediaCodecXml
<1>2. mComponents \subseteq gVideoDecoderComponents
  BY DEF InterfaceInit
<1> QED BY <1>1, <1>2 DEF InterfaceInit, IntfInv, StoreInv, ClientInv, NameInv, noComponent

\* A name of no decoder.
LEMMA NoNameUnknown ==
    ASSUME IntfInv, NEW n \in Usable
    PROVE  n # noName /\ KnownName(n)
<1>1. n \in gVideoDecoderComponents /\ n \in DOMAIN platform.xml
  BY DEF Usable, IntfInv, StoreInv
<1>2. \A i \in DOMAIN AllCodecs : AllCodecs[i] # none
  BY DEF AllCodecs, none
<1>3. none \notin Codecs
  BY <1>2 DEF Codecs, ToSet
<1>4. none \notin {"H264", "H265", "VP9", "AV1", "DVHE", "DVAV", "DVAV1", "MP2V"}
  BY DEF none
<1>5. PICK c \in Codecs \cup {"H264", "H265", "VP9", "AV1", "DVHE", "DVAV", "DVAV1", "MP2V"} :
          n.codec = c
  BY <1>1 DEF gVideoDecoderComponents, Name
<1>6. n.codec # none
  BY <1>3, <1>4, <1>5
<1> QED BY <1>1, <1>6 DEF noName, Name, KnownName

LEMMA NewInterface ==
    ASSUME IntfInv, NEW n \in Usable
    PROVE  /\ GoodInterface(n, IntfImpl(n)) /\ LargeEnough(IntfImpl(n))
           /\ isCodecSupport4k(n) => IntfImpl(n).tier # "fhd"
           /\ TierCovers(IntfImpl(n), DefaultSize)
           /\ IntfImpl(n).hdr = noHdr
<1> DEFINE i == IntfImpl(n)
<1>1. /\ DOMAIN i = IntfFields /\ i.size = DefaultSize /\ i.maxInput = 1024 * 1024
      /\ i.outputDelay = 3 /\ i.inputDelay = 4 /\ i.streamInputDelay = 0
      /\ i.tier = Tier(n) /\ i.hdr = noHdr
  BY DEF IntfImpl, IntfFields, kLinearBufferSize, kMaxInputDelay
<1> HIDE DEF i
<1>2. GoodInterface(n, i)
  BY <1>1, DefaultSizeType DEF GoodInterface, kMaxOutputDelay
<1>3. LargeEnough(i) /\ TierCovers(i, DefaultSize)
  BY <1>1, DefaultSizeType DEF LargeEnough, TierCovers
<1>4. isCodecSupport4k(n) => Tier(n) # "fhd"
  BY DEF Tier, UpTo4k, UpTo8k, onAvcDeclareParam, onHevcDeclareParam, onVp9DeclareParam,
         onAv1DeclareParam, onDvheDeclareParam, onDvavDeclareParam, onDvav1DeclareParam,
         onMp2vDeclareParam, onMp4vDeclareParam, onMjpgDeclareParam, none
<1> QED BY <1>1, <1>2, <1>3, <1>4 DEF i

\* The steps of clients.
LEMMA InterfaceStep ==
    ASSUME IntfInv, InterfaceNext
    PROVE  /\ IntfInv'
           /\ comp.exists => comp'.exists
           /\ name # noName => name' # noName
           /\ name # noName => intf'.hdr = intf.hdr /\ intf'.colors = intf.colors
           /\ name = noName /\ name' # noName => intf'.hdr = noHdr
<1>1. CASE listComponents
  <2>1. padding' \in {0, 262144}
    BY <1>1 DEF listComponents, kLinearPaddingBufferSize
  <2> QED BY <1>1, <2>1, SameInterface DEF listComponents
<1>2. ASSUME NEW n \in Usable, CreateAnother(n) PROVE IntfInv' /\ UNCHANGED <<comp, name, intf>>
  <2>1. padding' \in {0, 262144}
    BY <1>2 DEF CreateAnother, kLinearPaddingBufferSize
  <2> QED BY <1>2, <2>1, SameInterface DEF CreateAnother
<1>3. ASSUME NEW n \in Usable, NEW component \in BOOLEAN, Create(n, component)
      PROVE  /\ IntfInv' /\ name = noName /\ ~comp.exists
             /\ name' # noName /\ intf'.hdr = noHdr
  <2>1. n # noName /\ KnownName(n)
    BY NoNameUnknown
  <2>2. /\ GoodInterface(n, IntfImpl(n)) /\ LargeEnough(IntfImpl(n))
        /\ isCodecSupport4k(n) => IntfImpl(n).tier # "fhd"
        /\ TierCovers(IntfImpl(n), DefaultSize)
        /\ IntfImpl(n).hdr = noHdr
    BY NewInterface
  <2>3. /\ name = noName /\ name' = n /\ intf' = IntfImpl(n) /\ accepted' = DefaultSize
        /\ UNCHANGED <<platform, mComponents, mCodecAttributes>>
        /\ ~comp.exists
    BY <1>3 DEF Create, IntfInv, ClientInv
  <2>4. padding' \in {0, 262144} /\ DOMAIN comp' = {"exists", "tunnel", "maxResolution"}
    BY <1>3 DEF Create, kLinearPaddingBufferSize, newComponent, noComponent
  <2>5. /\ StoreInv'
        /\ KnownName(name)' <=> KnownName(n)
        /\ isCodecSupport4k(name)' <=> isCodecSupport4k(n)
        /\ GoodInterface(name, intf)' <=> GoodInterface(n, IntfImpl(n))
    BY <2>3, StoreConstant DEF IntfInv
  <2>6. LargeEnough(intf)' /\ TierCovers(intf, accepted)'
    BY <2>2, <2>3 DEF LargeEnough, TierCovers
  <2>7. NameInv'
    BY <2>1, <2>2, <2>3, <2>5, <2>6, SMT DEF NameInv
  <2>8. ClientInv'
    BY <2>1, <2>3, <2>4, SMT DEF ClientInv
  <2>9. IntfInv'
    BY <2>5, <2>7, <2>8 DEF IntfInv
  <2> QED BY <2>1, <2>2, <2>3, <2>9
<1>4. ASSUME NEW batch \in Batches, config(batch)
      PROVE  /\ IntfInv' /\ UNCHANGED name /\ comp'.exists = comp.exists
             /\ intf'.hdr = intf.hdr /\ intf'.colors = intf.colors
  <2>1. batch \in Seq(ClientParameters)
    BY BatchesAssumption
  <2>2. batch \in Seq(AllParameters)
    BY <2>1 DEF AllParameters
  <2>3. /\ name # noName /\ Configure(batch)
        /\ UNCHANGED <<platform, mComponents, mCodecAttributes, padding, name>>
    BY <1>4 DEF config
  <2> QED BY <2>1, <2>2, <2>3, ConfigureKeeps
<1>5. CASE UNCHANGED <<comp, name, intf>> /\ IntfInv'
  BY <1>5
<1>6. listComponents => UNCHANGED <<comp, name, intf>>
  BY DEF listComponents
<1> QED BY <1>1, <1>2, <1>3, <1>4, <1>5, <1>6 DEF InterfaceNext
-----------------------------------------------------------------------------
(* DeviceUtil: what its functions leave alone, and what they decide.         *)

\* What the device knows of the report is the same in two states of it.
SameReport(d, e) ==
    /\ DevFields \subseteq DOMAIN e
    /\ e.hdrChanged = d.hdrChanged /\ e.colorsChanged = d.colorsChanged /\ e.signal = d.signal

LEMMA UseP010Same ==
    ASSUME NEW d, DevFields \subseteq DOMAIN d
    PROVE  SameReport(d, checkUseP010Mode(d))
BY DEF checkUseP010Mode, SameReport, DevFields

LEMMA UsageSame ==
    ASSUME NEW d, DevFields \subseteq DOMAIN d, NEW size
    PROVE  SameReport(d, getPlatformUsage(d, size))
<1>1. ASSUME NEW usage PROVE SameReport(d, [d EXCEPT !.usage = usage])
  BY DEF SameReport, DevFields
<1>2. ASSUME NEW usage PROVE SameReport(d, [d EXCEPT !.slot = TRUE, !.usage = usage])
  BY DEF SameReport, DevFields
<1>3. SameReport(d, d)
  BY DEF SameReport
<1> QED BY <1>1, <1>2, <1>3, Zenon DEF getPlatformUsage

LEMMA SameReportTrans ==
    ASSUME NEW d, NEW e, NEW f, SameReport(d, e), SameReport(e, f)
    PROVE  SameReport(d, f)
BY DEF SameReport

LEMMA DoubleWriteType ==
    \A d : getDoubleWriteModeValue(d) \in DoubleWrites
<1> SUFFICES ASSUME NEW d PROVE getDoubleWriteModeValue(d) \in DoubleWrites
  OBVIOUS
<1>1. Slice(d) \in DoubleWrites
  BY DEF Slice, DoubleWrites
<1>2. AvcDoubleWrite(d) \in DoubleWrites
  BY <1>1 DEF AvcDoubleWrite, DoubleWrites
<1>3. HevcDoubleWrite(d) \in DoubleWrites
  BY <1>1 DEF HevcDoubleWrite, DoubleWrites
<1>4. CodecDoubleWrite(d) \in DoubleWrites
  BY <1>2, <1>3 DEF CodecDoubleWrite, DoubleWrites
<1> QED BY <1>4 DEF getDoubleWriteModeValue, DoubleWrites

LEMMA NoParamsType ==
    ParamsFields \subseteq DOMAIN NoParams /\ NoParams.hdr = noHdr /\ NoParams.doubleWrite = 0
BY DEF NoParams, ParamsFields

LEMMA CodecConfigType ==
    ASSUME NEW d, DevFields \subseteq DOMAIN d
    PROVE  /\ SameReport(d, codecConfig(d).dev)
           /\ ParamsFields \subseteq DOMAIN codecConfig(d).params
           /\ codecConfig(d).params.doubleWrite \in DoubleWrites
           /\ codecConfig(d).params.hdr \in {noHdr, intf.hdr}
<1> DEFINE c == ConfiguredDevice(d)
           on == [c EXCEPT !.nr = @ /\ ~OnOsd(c), !.di = @ /\ ~OnOsd(c)]
           p == codecConfig(d).params
           hdr == IF Codec \in {"VP9", "AV1"} /\ HasHDRStaticInfo(intf.hdr) THEN intf.hdr ELSE noHdr
           low == intf.lowLatency \/ intf.gameMode
           mode == getDoubleWriteModeValue(c)
           avbc == OnOsd(c)
<1>1. SameReport(d, c)
  BY DEF ConfiguredDevice, SameReport, DevFields
<1>2. SameReport(c, on)
  <2> HIDE DEF c
  <2> QED BY <1>1 DEF SameReport, DevFields
<1>3. codecConfig(d).dev = on
  BY DEF codecConfig
<1>4. p = [NoParams EXCEPT !.doubleWrite = mode, !.nr = on.nr, !.di = on.di, !.unuseAvbc = avbc,
                           !.lowLatency = low, !.hdr = hdr]
  BY DEF codecConfig, NoParams
<1>5. mode \in DoubleWrites
  BY DoubleWriteType
<1>6. ParamsFields \subseteq DOMAIN p /\ p.doubleWrite = mode /\ p.hdr = hdr
  <2> HIDE DEF p, mode, on, avbc, low, hdr
  <2> QED BY <1>4 DEF NoParams, ParamsFields
<1> QED BY <1>1, <1>2, <1>3, <1>5, <1>6, SameReportTrans

\* The parameters that are sent again: of what the decoder writes there is always some.
LEMMA InterlacedParamsType ==
    ASSUME NEW d, NEW p, ParamsFields \subseteq DOMAIN p, p.doubleWrite \in DoubleWrites
    PROVE  /\ ParamsFields \subseteq DOMAIN InterlacedParams(d, p)
           /\ InterlacedParams(d, p).doubleWrite \in DoubleWrites
           /\ InterlacedParams(d, p).hdr = p.hdr
<1> DEFINE mode == IF Codec = "H265" /\ d.interlaced /\ p.doubleWrite = 3
                   THEN IF d.bitDepth = 10 THEN 1 ELSE \h10
                   ELSE IF \/ Codec = "H264" /\ d.interlaced /\ p.doubleWrite = 3
                           \/ needDecoderReplaceBufferForDiPost(d)
                        THEN \h10 ELSE p.doubleWrite
<1>1. mode \in DoubleWrites
  BY DEF DoubleWrites
<1>2. InterlacedParams(d, p) =
          [p EXCEPT !.doubleWrite = mode, !.disableVpp = @ \/ platform.highBitrate]
  BY DEF InterlacedParams
<1> HIDE DEF mode
<1> QED BY <1>1, <1>2 DEF ParamsFields

LEMMA P010ParamsType ==
    ASSUME NEW d, NEW p, ParamsFields \subseteq DOMAIN p, p.doubleWrite \in DoubleWrites
    PROVE  /\ ParamsFields \subseteq DOMAIN P010Params(d, p)
           /\ P010Params(d, p).doubleWrite \in DoubleWrites
           /\ P010Params(d, p).hdr = p.hdr
<1>1. getDoubleWriteModeValue(d) \in DoubleWrites /\ 3 \in DoubleWrites
  BY DoubleWriteType DEF DoubleWrites
<1> QED BY <1>1 DEF P010Params, ParamsFields

(* The writer.                                                               *)

LEMMA TwoTwo ==
    ASSUME NEW a, NEW b, NEW c, NEW d
    PROVE  <<a, b>> \o <<c, d>> = <<a, b, c, d>>
<1> DEFINE S == {a, b, c, d}
           l == <<a, b>>
           r == <<c, d>>
<1>1. l \in Seq(S)
  OBVIOUS
<1>2. r \in Seq(S)
  OBVIOUS
<1>3. Len(l) = 2 /\ l[1] = a /\ l[2] = b
  OBVIOUS
<1>4. Len(r) = 2 /\ r[1] = c /\ r[2] = d
  OBVIOUS
<1> HIDE DEF S, l, r
<1>5. /\ l \o r \in Seq(S) /\ Len(l \o r) = Len(l) + Len(r)
      /\ \A i \in 1 .. Len(l) + Len(r) : (l \o r)[i] = IF i <= Len(l) THEN l[i] ELSE r[i - Len(l)]
  BY <1>1, <1>2, ConcatProperties, Zenon
<1>6. Len(l \o r) = 4
  BY <1>3, <1>4, <1>5
<1>7. \A i \in 1 .. 4 : (l \o r)[i] = IF i <= 2 THEN l[i] ELSE r[i - 2]
  BY <1>3, <1>4, <1>5
<1>8. (l \o r)[1] = a /\ (l \o r)[2] = b /\ (l \o r)[3] = c /\ (l \o r)[4] = d
  BY <1>7, <1>3, <1>4
<1>9. \A s \in Seq(S) : Len(s) = 4 => s = <<s[1], s[2], s[3], s[4]>>
  OBVIOUS
<1>10. l \o r = <<a, b, c, d>>
  BY <1>5, <1>6, <1>8, <1>9
<1> QED BY <1>10 DEF l, r

LEMMA WriterTable ==
    /\ <<>> \in WriterStates
    /\ ~HdrPending(<<>>) /\ ~ColorsPending(<<>>) /\ ~FlagsColors(<<>>) /\ ~FlagsHdr(<<>>)
    /\ \A h, c \in BOOLEAN :
           /\ Steps(h, c) \in WriterStates
           /\ HdrPending(Steps(h, c)) <=> h
           /\ ColorsPending(Steps(h, c)) <=> c
           /\ ~FlagsColors(Steps(h, c)) /\ ~FlagsHdr(Steps(h, c))
    /\ \A w \in WriterStates \ {<<>>} :
           /\ Tail(w) \in WriterStates
           /\ Head(w) \in {"configColors", "flagColors", "configHdr", "flagHdr"}
           /\ Head(w) = "configColors" =>
                  /\ ColorsPending(w) /\ ~ColorsPending(Tail(w)) /\ FlagsColors(Tail(w))
                  /\ HdrPending(Tail(w)) <=> HdrPending(w)
                  /\ ~FlagsHdr(w) /\ ~FlagsHdr(Tail(w))
           /\ Head(w) = "flagColors" =>
                  /\ ~ColorsPending(w) /\ ~ColorsPending(Tail(w))
                  /\ FlagsColors(w) /\ ~FlagsColors(Tail(w))
                  /\ HdrPending(Tail(w)) <=> HdrPending(w)
                  /\ ~FlagsHdr(w) /\ ~FlagsHdr(Tail(w))
           /\ Head(w) = "configHdr" =>
                  /\ ~ColorsPending(w) /\ ~ColorsPending(Tail(w))
                  /\ ~FlagsColors(w) /\ ~FlagsColors(Tail(w))
                  /\ HdrPending(w) /\ ~HdrPending(Tail(w)) /\ FlagsHdr(Tail(w))
           /\ Head(w) = "flagHdr" =>
                  /\ ~ColorsPending(w) /\ ~ColorsPending(Tail(w))
                  /\ ~FlagsColors(w) /\ ~FlagsColors(Tail(w))
                  /\ ~HdrPending(w) /\ ~HdrPending(Tail(w))
                  /\ FlagsHdr(w) /\ ~FlagsHdr(Tail(w))
<1> DEFINE W1 == <<"configColors", "flagColors">>
           W2 == <<"flagColors">>
           W3 == <<"configHdr", "flagHdr">>
           W4 == <<"flagHdr">>
           W5 == <<"configColors", "flagColors", "configHdr", "flagHdr">>
           W6 == <<"flagColors", "configHdr", "flagHdr">>
<1>1. /\ Tail(W1) = W2 /\ Tail(W2) = <<>> /\ Tail(W3) = W4 /\ Tail(W4) = <<>>
      /\ Tail(W5) = W6 /\ Tail(W6) = W3
      /\ Head(W1) = "configColors" /\ Head(W2) = "flagColors" /\ Head(W3) = "configHdr"
      /\ Head(W4) = "flagHdr" /\ Head(W5) = "configColors" /\ Head(W6) = "flagColors"
  OBVIOUS
<1>2. /\ <<>> \notin {W1, W2, W3, W4, W5, W6}
      /\ W1 \notin {W2, W3, W4, W5, W6}
      /\ W2 \notin {W3, W4, W5, W6}
      /\ W3 \notin {W4, W5, W6}
      /\ W4 \notin {W5, W6}
      /\ W5 # W6
  OBVIOUS
<1>3. /\ Steps(FALSE, FALSE) = <<>> /\ Steps(FALSE, TRUE) = W1
      /\ Steps(TRUE, FALSE) = W3 /\ Steps(TRUE, TRUE) = W5
  <2>1. Steps(FALSE, FALSE) = <<>>
    BY DEF Steps
  <2>2. Steps(FALSE, TRUE) = W1
    BY DEF Steps
  <2>3. Steps(TRUE, FALSE) = W3
    BY DEF Steps
  <2>4. Steps(TRUE, TRUE) = W1 \o W3
    BY DEF Steps
  <2>5. W1 \o W3 = W5
    BY TwoTwo
  <2> QED BY <2>1, <2>2, <2>3, <2>4, <2>5
<1> HIDE DEF W1, W2, W3, W4, W5, W6
<1>4. /\ WriterStates = {<<>>, W1, W2, W3, W4, W5, W6}
      /\ \A w : HdrPending(w) <=> w \in {W3, W5, W6}
      /\ \A w : ColorsPending(w) <=> w \in {W1, W5}
      /\ \A w : FlagsColors(w) <=> w \in {W2, W6}
      /\ \A w : FlagsHdr(w) <=> w = W4
  <2>1. {Steps(h, FALSE) : h \in BOOLEAN} = {<<>>, W3}
    BY <1>3
  <2>2. {Tail(Steps(h, TRUE)) : h \in BOOLEAN} = {W2, W6}
    BY <1>1, <1>3
  <2>3. {Steps(TRUE, c) : c \in BOOLEAN} = {W3, W5}
    BY <1>3
  <2>4. {Steps(h, TRUE) : h \in BOOLEAN} = {W1, W5}
    BY <1>3
  <2>5. Tail(Steps(TRUE, TRUE)) = W6
    BY <1>1, <1>3
  <2>6. <<"flagHdr">> = W4
    BY DEF W4
  <2>7. WriterStates = {<<>>, W1, W2, W3, W4, W5, W6}
    BY <2>1, <2>2, <2>4, <2>6 DEF WriterStates
  <2>8. \A w : HdrPending(w) <=> w \in {W3, W5, W6}
    BY <2>3, <2>5 DEF HdrPending
  <2>9. \A w : ColorsPending(w) <=> w \in {W1, W5}
    BY <2>4 DEF ColorsPending
  <2>10. \A w : FlagsColors(w) <=> w \in {W2, W6}
    BY <2>2 DEF FlagsColors
  <2>11. \A w : FlagsHdr(w) <=> w = W4
    BY <2>6 DEF FlagsHdr
  <2> QED BY <2>7, <2>8, <2>9, <2>10, <2>11
<1>5. /\ <<>> \in WriterStates
      /\ ~HdrPending(<<>>) /\ ~ColorsPending(<<>>) /\ ~FlagsColors(<<>>) /\ ~FlagsHdr(<<>>)
  BY <1>4, <1>2
<1>6. ASSUME NEW h \in BOOLEAN, NEW c \in BOOLEAN
      PROVE  /\ Steps(h, c) \in WriterStates
             /\ HdrPending(Steps(h, c)) <=> h
             /\ ColorsPending(Steps(h, c)) <=> c
             /\ ~FlagsColors(Steps(h, c)) /\ ~FlagsHdr(Steps(h, c))
  BY <1>4, <1>2, <1>3
<1>7. ASSUME NEW w \in WriterStates \ {<<>>}
      PROVE  /\ Tail(w) \in WriterStates
             /\ Head(w) \in {"configColors", "flagColors", "configHdr", "flagHdr"}
             /\ Head(w) = "configColors" => w \in {W1, W5}
             /\ Head(w) = "flagColors" => w \in {W2, W6}
             /\ Head(w) = "configHdr" => w = W3
             /\ Head(w) = "flagHdr" => w = W4
  BY <1>4, <1>1, <1>7
<1>8. ASSUME NEW w \in WriterStates \ {<<>>}, Head(w) = "configColors"
      PROVE  /\ ColorsPending(w) /\ ~ColorsPending(Tail(w)) /\ FlagsColors(Tail(w))
             /\ HdrPending(Tail(w)) <=> HdrPending(w)
             /\ ~FlagsHdr(w) /\ ~FlagsHdr(Tail(w))
  BY <1>4, <1>1, <1>2, <1>7, <1>8
<1>9. ASSUME NEW w \in WriterStates \ {<<>>}, Head(w) = "flagColors"
      PROVE  /\ ~ColorsPending(w) /\ ~ColorsPending(Tail(w))
             /\ FlagsColors(w) /\ ~FlagsColors(Tail(w))
             /\ HdrPending(Tail(w)) <=> HdrPending(w)
             /\ ~FlagsHdr(w) /\ ~FlagsHdr(Tail(w))
  <2>1. w = W2 \/ w = W6
    BY <1>7, <1>9
  <2>2. CASE w = W2
    BY <1>4, <1>1, <1>2, <2>2
  <2>3. CASE w = W6
    BY <1>4, <1>1, <1>2, <2>3
  <2> QED BY <2>1, <2>2, <2>3
<1>10. ASSUME NEW w \in WriterStates \ {<<>>}, Head(w) = "configHdr"
       PROVE  /\ ~ColorsPending(w) /\ ~ColorsPending(Tail(w))
              /\ ~FlagsColors(w) /\ ~FlagsColors(Tail(w))
              /\ HdrPending(w) /\ ~HdrPending(Tail(w)) /\ FlagsHdr(Tail(w))
  BY <1>4, <1>1, <1>2, <1>7, <1>10
<1>11. ASSUME NEW w \in WriterStates \ {<<>>}, Head(w) = "flagHdr"
       PROVE  /\ ~ColorsPending(w) /\ ~ColorsPending(Tail(w))
              /\ ~FlagsColors(w) /\ ~FlagsColors(Tail(w))
              /\ ~HdrPending(w) /\ ~HdrPending(Tail(w))
              /\ FlagsHdr(w) /\ ~FlagsHdr(Tail(w))
  <2>1. w = W4
    BY <1>7, <1>11
  <2> QED BY <1>4, <1>1, <1>2, <2>1
<1> QED BY <1>5, <1>6, <1>7, <1>8, <1>9, <1>10, <1>11

\* HDR values that count as the same differ in the lowest luminance at most, and what is
\* reset counts as different from what any stream has.
LEMMA NotDifferent ==
    ASSUME NEW s \in Streams, s.hdr # noHdr, params.hdr \in Hdrs,
           ~checkHdrStaticInfoMetaChanged(s.hdr)
    PROVE  params.hdr # noHdr /\ Alike(params.hdr, s.hdr)
<1>1. s.hdr \in Hdrs /\ [s.hdr EXCEPT !.min = 0] # noHdr
  BY StreamsAssumption DEF Described
<1>2. Alike(params.hdr, s.hdr)
  BY <1>1 DEF checkHdrStaticInfoMetaChanged, isHDRStaticInfoDifferent, Alike, Hdrs
<1>3. Alike(noHdr, s.hdr) => [s.hdr EXCEPT !.min = 0] = noHdr
  BY <1>1 DEF Alike, Hdrs, noHdr
<1> QED BY <1>1, <1>2, <1>3

-----------------------------------------------------------------------------
(* The report of what the decoder says, in steps that are not about it.      *)

LEMMA ReportKept ==
    ASSUME HdrInv, ColorsInv, name # noName, name' = name,
           intf'.hdr = intf.hdr, intf'.colors = intf.colors,
           UNCHANGED <<writer, reader, current>>, SameReport(dev, dev'),
           reported'.hdr = reported.hdr, reported'.colors = reported.colors,
           reported'.seen = reported.seen,
           writer # <<>> => stream' = stream /\ params'.hdr = params.hdr,
           params'.hdr \in {params.hdr, noHdr, intf.hdr}
    PROVE  FreshInv' /\ HdrInv' /\ ColorsInv'
<1>1. FreshInv'
  BY DEF FreshInv
<1>2. ~HdrPending(<<>>) /\ ~ColorsPending(<<>>) /\ noHdr \in Hdrs
  BY WriterTable DEF noHdr, Hdrs
<1>3. /\ HdrPending(writer)' <=> HdrPending(writer)
      /\ ColorsPending(writer)' <=> ColorsPending(writer)
      /\ FlagsHdr(writer)' <=> FlagsHdr(writer)
      /\ FlagsColors(writer)' <=> FlagsColors(writer)
  BY DEF HdrPending, ColorsPending, FlagsHdr, FlagsColors
<1>4. Alike(intf.hdr, intf.hdr)
  BY DEF Alike
<1>5. HdrInv'
  BY <1>2, <1>3, <1>4, SMT DEF HdrInv, SameReport, Alike
<1>6. ColorsInv'
  BY <1>2, <1>3, SMT DEF ColorsInv, SameReport
<1> QED BY <1>1, <1>5, <1>6

\* The interface in steps that are not about it.
LEMMA InterfaceKept ==
    ASSUME IntfInv, UNCHANGED interfaceVars
    PROVE  IntfInv'
<1>1. padding' \in {0, 262144}
  BY DEF interfaceVars, IntfInv, ClientInv
<1> QED BY <1>1, SameInterface DEF interfaceVars

LEMMA InitInv == Init => IInv
<1> SUFFICES ASSUME Init PROVE IInv
  OBVIOUS
<1>1. IntfInv
  BY InterfaceInitInv DEF Init
<1>2. /\ <<>> \in WriterStates
      /\ ~HdrPending(<<>>) /\ ~ColorsPending(<<>>) /\ noHdr \in Hdrs
  BY WriterTable DEF noHdr, Hdrs
<1>3. DevFields \subseteq DOMAIN init /\ init.signal = none
  BY DEF init, DevFields
<1>4. /\ DOMAIN NothingReported = ReportFields /\ NothingReported.hdr = noHdr
      /\ NothingReported.colors = none /\ NothingReported.seen = {}
  BY DEF NothingReported, ReportFields
<1>5. DOMAIN NoFlags = FlagsFields /\ ~NoFlags.allocated
  BY DEF NoFlags, FlagsFields
<1>6. name = noName
  BY DEF Init, InterfaceInit
<1>7. SessionInv
  BY <1>2, <1>3, <1>4, <1>5, NoParamsType, SMT DEF Init, SessionInv
<1>8. FreshInv
  BY <1>3, NoParamsType, SMT DEF Init, FreshInv
<1>9. HdrInv /\ ColorsInv
  BY <1>2, <1>3, <1>4, <1>6, NoParamsType, SMT DEF Init, HdrInv, ColorsInv
<1> QED BY <1>1, <1>7, <1>8, <1>9 DEF IInv

LEMMA ClientKeeps ==
    ASSUME IInv, InterfaceNext, UNCHANGED deviceVars
    PROVE  IInv'
<1>1. /\ IntfInv'
      /\ name # noName => name' # noName
      /\ name # noName => intf'.hdr = intf.hdr /\ intf'.colors = intf.colors
      /\ name = noName /\ name' # noName => intf'.hdr = noHdr
  BY InterfaceStep DEF IInv
<1>2. SessionInv'
  BY <1>1, SMT DEF IInv, SessionInv, deviceVars
<1>3. CASE name # noName
  <2>1. SameReport(dev, dev')
    BY DEF SameReport, deviceVars, IInv, SessionInv
  <2>2. FreshInv'
    BY <1>1, <1>3 DEF FreshInv
  <2>3. HdrInv'
    BY <1>1, <1>3, SMT DEF IInv, HdrInv, deviceVars
  <2>4. ColorsInv'
    BY <1>1, <1>3, SMT DEF IInv, ColorsInv, deviceVars
  <2> QED BY <1>1, <1>2, <2>2, <2>3, <2>4 DEF IInv
<1>4. CASE name = noName
  <2>1. FreshInv'
    BY <1>4, SMT DEF IInv, FreshInv, deviceVars
  <2>2. writer = <<>> /\ session = "stopped"
    BY <1>4 DEF IInv, SessionInv
  <2>3. /\ NothingReported.hdr = noHdr
        /\ NothingReported.colors = none /\ NothingReported.seen = {}
        /\ ~HdrPending(<<>>) /\ ~ColorsPending(<<>>) /\ noHdr \in Hdrs
    BY WriterTable DEF NothingReported, noHdr, Hdrs
  <2>4. HdrInv'
    BY <1>1, <1>4, <2>2, <2>3, SMT DEF IInv, HdrInv, FreshInv, deviceVars
  <2>5. ColorsInv'
    BY <1>1, <1>4, <2>2, <2>3, SMT DEF IInv, ColorsInv, FreshInv, deviceVars
  <2> QED BY <1>1, <1>2, <2>1, <2>4, <2>5 DEF IInv
<1> QED BY <1>3, <1>4

LEMMA StartKeeps ==
    ASSUME IInv, onStart
    PROVE  IInv'
<1> DEFINE c == codecConfig(init)
<1>1. DevFields \subseteq DOMAIN init /\ init.signal = none
  BY DEF init, DevFields
<1>2. /\ SameReport(init, c.dev) /\ ParamsFields \subseteq DOMAIN c.params
      /\ c.params.doubleWrite \in DoubleWrites /\ c.params.hdr \in {noHdr, intf.hdr}
  BY <1>1, CodecConfigType
<1>3. dev' = c.dev /\ params' = c.params
  BY DEF onStart
<1> HIDE DEF c
<1>4. /\ name # noName /\ session = "stopped" /\ comp.exists
      /\ session' = "started" /\ reported' = NothingReported
      /\ UNCHANGED <<interfaceVars, stream, playing, format, coded, flags, buffers, current,
                     writer, reader>>
  BY DEF onStart, IInv, IntfInv, ClientInv
<1>5. /\ DOMAIN NothingReported = ReportFields /\ NothingReported.hdr = noHdr
      /\ NothingReported.colors = none /\ NothingReported.seen = {} /\ noHdr \in Hdrs
      /\ ~HdrPending(<<>>) /\ ~ColorsPending(<<>>) /\ 0 \notin DoubleWrites
  BY WriterTable DEF NothingReported, ReportFields, noHdr, Hdrs, DoubleWrites
<1>6. writer = <<>> /\ reader = "idle"
  BY <1>4 DEF IInv, SessionInv
<1>7. IntfInv'
  BY <1>4, InterfaceKept DEF IInv
<1>8. SessionInv'
  BY <1>2, <1>3, <1>4, <1>5, SMT DEF IInv, SessionInv, SameReport, interfaceVars
<1>9. FreshInv'
  BY <1>4, SMT DEF FreshInv, interfaceVars
<1>10. HdrInv'
  BY <1>2, <1>3, <1>4, <1>5, <1>6, SMT DEF IInv, HdrInv, interfaceVars, Alike
<1>11. ColorsInv'
  BY <1>1, <1>2, <1>3, <1>4, <1>5, <1>6, SMT DEF ColorsInv, interfaceVars, SameReport
<1> QED BY <1>7, <1>8, <1>9, <1>10, <1>11 DEF IInv

LEMMA StopKeeps ==
    ASSUME IInv, onStop
    PROVE  IInv'
<1>1. /\ name # noName /\ session # "stopped" /\ writer = <<>> /\ session' = "stopped"
      /\ flags' = NoFlags /\ format' = NoFormat /\ buffers' = {} /\ stream' = noStream
      /\ playing' = noStream
      /\ UNCHANGED <<interfaceVars, dev, params, current, writer, reader, reported>>
  BY DEF onStop, IInv, SessionInv
<1>2. DOMAIN NoFlags = FlagsFields /\ ~NoFlags.allocated
  BY DEF NoFlags, FlagsFields
<1>3. IntfInv'
  BY <1>1, InterfaceKept DEF IInv
<1>4. SessionInv'
  <2>1. reader = "idle"
    BY DEF onStop
  <2> QED BY <1>1, <1>2, <2>1, SMT DEF IInv, SessionInv, interfaceVars
<1>5. SameReport(dev, dev')
  BY <1>1 DEF SameReport, IInv, SessionInv
<1>6. UNCHANGED <<name, intf>>
  BY <1>1 DEF interfaceVars
<1>7. FreshInv' /\ HdrInv' /\ ColorsInv'
  BY <1>1, <1>5, <1>6, ReportKept DEF IInv
<1> QED BY <1>3, <1>4, <1>7 DEF IInv

\* Steps that change neither the interface nor what the device and the parameters know of the
\* report, nor where the component is.
LEMMA ConsumerKeeps ==
    ASSUME IInv, ChangeConsumer
    PROVE  IInv'
<1>1. /\ name # noName
      /\ UNCHANGED <<interfaceVars, session, dev, params, stream, playing, format, flags, buffers,
                     current, writer, reader, reported>>
  BY DEF ChangeConsumer, IInv, SessionInv
<1>2. IntfInv'
  BY <1>1, InterfaceKept DEF IInv
<1>3. SessionInv'
  BY <1>1, SMT DEF IInv, SessionInv, interfaceVars
<1>4. SameReport(dev, dev')
  BY <1>1 DEF SameReport, IInv, SessionInv
<1>5. FreshInv' /\ HdrInv' /\ ColorsInv'
  BY <1>1, <1>4, ReportKept DEF IInv, interfaceVars
<1> QED BY <1>2, <1>3, <1>5 DEF IInv

LEMMA ReconfigKeeps ==
    ASSUME IInv, onCheckVideoDecReconfig
    PROVE  IInv'
<1>1. /\ name # noName /\ session = "started" /\ reader = "idle" /\ ~flags.usageGot
      /\ flags' = [flags EXCEPT !.usageGot = TRUE]
      /\ UNCHANGED <<interfaceVars, session, stream, playing, format, buffers, current, writer,
                     reader, reported>>
  BY DEF onCheckVideoDecReconfig, IInv, SessionInv
<1>2. stream = noStream /\ writer = <<>> /\ DevFields \subseteq DOMAIN dev
  BY <1>1 DEF IInv, SessionInv
<1>3. /\ SameReport(dev, dev') /\ ParamsFields \subseteq DOMAIN params'
      /\ params'.doubleWrite \in DoubleWrites /\ params'.hdr \in {params.hdr, noHdr, intf.hdr}
  <2>1. CASE UNCHANGED <<dev, params>>
    BY <1>1, <1>2, <2>1 DEF SameReport, IInv, SessionInv
  <2>2. ASSUME NEW again,
               dev' = codecConfig([dev EXCEPT !.texture = @ \/ again = "texture",
                                              !.noSurface = @ \/ consumer = "pool"]).dev,
               params' = codecConfig([dev EXCEPT !.texture = @ \/ again = "texture",
                                                 !.noSurface = @ \/ consumer = "pool"]).params
        PROVE  /\ SameReport(dev, dev') /\ ParamsFields \subseteq DOMAIN params'
               /\ params'.doubleWrite \in DoubleWrites /\ params'.hdr \in {noHdr, intf.hdr}
    <3> DEFINE d == [dev EXCEPT !.texture = @ \/ again = "texture",
                                !.noSurface = @ \/ consumer = "pool"]
    <3>1. SameReport(dev, d)
      BY <1>2 DEF SameReport, DevFields
    <3>2. dev' = codecConfig(d).dev /\ params' = codecConfig(d).params
      BY <2>2
    <3> HIDE DEF d
    <3>3. /\ SameReport(d, codecConfig(d).dev)
          /\ ParamsFields \subseteq DOMAIN codecConfig(d).params
          /\ codecConfig(d).params.doubleWrite \in DoubleWrites
          /\ codecConfig(d).params.hdr \in {noHdr, intf.hdr}
      BY <3>1, CodecConfigType DEF SameReport
    <3> QED BY <3>1, <3>2, <3>3, SameReportTrans
  <2> QED BY <2>1, <2>2 DEF onCheckVideoDecReconfig
<1>4. IntfInv'
  BY <1>1, InterfaceKept DEF IInv
<1>5. SessionInv'
  <2>1. 0 \notin DoubleWrites
    BY DEF DoubleWrites
  <2>2. DOMAIN flags' = FlagsFields /\ flags'.usageGot /\ flags'.allocated = flags.allocated
    BY <1>1 DEF IInv, SessionInv, FlagsFields
  <2> QED BY <1>1, <1>2, <1>3, <2>1, <2>2, SMT DEF IInv, SessionInv, interfaceVars, SameReport
<1>6. FreshInv' /\ HdrInv' /\ ColorsInv'
  BY <1>1, <1>2, <1>3, ReportKept DEF IInv, interfaceVars
<1> QED BY <1>4, <1>5, <1>6 DEF IInv

LEMMA InterlacedKeeps ==
    ASSUME IInv, updateInterlacedInfo
    PROVE  IInv'
<1>1. /\ name # noName
      /\ dev' = [dev EXCEPT !.interlaced = TRUE]
      /\ UNCHANGED <<interfaceVars, session, params, stream, playing, format, flags, buffers,
                     current, writer, reader, reported>>
  BY DEF updateInterlacedInfo, IInv, SessionInv
<1>2. IntfInv'
  BY <1>1, InterfaceKept DEF IInv
<1>3. SameReport(dev, dev')
  BY <1>1 DEF SameReport, IInv, SessionInv, DevFields
<1>4. SessionInv'
  BY <1>1, <1>3, SMT DEF IInv, SessionInv, interfaceVars, SameReport
<1>5. FreshInv' /\ HdrInv' /\ ColorsInv'
  BY <1>1, <1>3, ReportKept DEF IInv, interfaceVars
<1> QED BY <1>2, <1>4, <1>5 DEF IInv

LEMMA BeginKeeps ==
    ASSUME IInv, NEW s \in Streams, Begin(s)
    PROVE  IInv'
<1>1. /\ name # noName /\ session = "started" /\ flags.usageGot /\ writer = <<>> /\ stream' = s
      /\ UNCHANGED <<interfaceVars, session, dev, params, playing, format, flags, buffers,
                     current, writer, reader, reported>>
  BY DEF Begin, IInv, SessionInv
<1>2. IntfInv'
  BY <1>1, InterfaceKept DEF IInv
<1>3. SessionInv'
  <2>1. s # noStream
    BY StreamsAssumption DEF Described, noStream
  <2> QED BY <1>1, <2>1, SMT DEF IInv, SessionInv, interfaceVars
<1>4. SameReport(dev, dev')
  BY <1>1 DEF SameReport, IInv, SessionInv
<1>5. FreshInv' /\ HdrInv' /\ ColorsInv'
  BY <1>1, <1>4, ReportKept DEF IInv, interfaceVars
<1> QED BY <1>2, <1>3, <1>5 DEF IInv

LEMMA ProvideKeeps ==
    ASSUME IInv, ProvidePictureBuffers
    PROVE  IInv'
<1>1. /\ name # noName /\ session = "started" /\ stream # noStream
      /\ dev' = checkUseP010Mode([dev EXCEPT !.bitDepth = stream.depth])
      /\ flags' = [flags EXCEPT !.visible = FALSE]
      /\ UNCHANGED <<interfaceVars, session, params, stream, playing, buffers, current, writer,
                     reader, reported>>
  BY DEF ProvidePictureBuffers, IInv, SessionInv
<1>2. IntfInv'
  BY <1>1, InterfaceKept DEF IInv
<1>3. SameReport(dev, dev')
  <2> DEFINE d == [dev EXCEPT !.bitDepth = stream.depth]
  <2>1. SameReport(dev, d)
    BY DEF SameReport, DevFields, IInv, SessionInv
  <2>2. dev' = checkUseP010Mode(d)
    BY <1>1
  <2> HIDE DEF d
  <2>3. SameReport(d, checkUseP010Mode(d))
    BY <2>1, UseP010Same DEF SameReport
  <2> QED BY <2>1, <2>2, <2>3, SameReportTrans
<1>4. SessionInv'
  <2>1. DOMAIN flags' = FlagsFields /\ flags'.usageGot = flags.usageGot
            /\ flags'.allocated = flags.allocated
    BY <1>1 DEF IInv, SessionInv, FlagsFields
  <2> QED BY <1>1, <1>3, <2>1, SMT DEF IInv, SessionInv, interfaceVars, SameReport
<1>5. FreshInv' /\ HdrInv' /\ ColorsInv'
  BY <1>1, <1>3, ReportKept DEF IInv, interfaceVars
<1> QED BY <1>2, <1>4, <1>5 DEF IInv

LEMMA FormatKeeps ==
    ASSUME IInv, onOutputFormatChanged
    PROVE  IInv'
<1> DEFINE p1 == InterlacedParams(dev, params)
           p2 == P010Params(checkUseP010Mode(dev), p1)
<1>1. /\ name # noName /\ session = "started" /\ format # NoFormat
      /\ reported' = [reported EXCEPT !.fields = @ \cup {dev.interlaced, stream.interlaced}]
      /\ UNCHANGED <<interfaceVars, session, stream, playing, flags, buffers, current, writer,
                     reader>>
  BY DEF onOutputFormatChanged, IInv, SessionInv, NoFormat, none
<1>2. dev' = checkUseP010Mode(dev) /\ params' \in {p1, p2}
  <2>1. dev' = checkUseP010Mode(dev)
    BY DEF onOutputFormatChanged
  <2>2. params' = IF UsesHardwareP010(dev) \/ UsesSoftwareP010(dev) THEN p2 ELSE p1
    BY DEF onOutputFormatChanged
  <2> QED BY <2>1, <2>2
<1>3. SameReport(dev, dev')
  BY <1>2, UseP010Same DEF IInv, SessionInv
<1>4. /\ ParamsFields \subseteq DOMAIN params' /\ params'.doubleWrite \in DoubleWrites
      /\ params'.hdr = params.hdr
  <2>1. ParamsFields \subseteq DOMAIN params /\ params.doubleWrite \in DoubleWrites
    BY <1>1 DEF IInv, SessionInv
  <2>2. ParamsFields \subseteq DOMAIN p1 /\ p1.doubleWrite \in DoubleWrites /\ p1.hdr = params.hdr
    BY <2>1, InterlacedParamsType
  <2> HIDE DEF p1
  <2>3. ParamsFields \subseteq DOMAIN p2 /\ p2.doubleWrite \in DoubleWrites /\ p2.hdr = p1.hdr
    BY <2>2, P010ParamsType
  <2> HIDE DEF p2
  <2> QED BY <1>2, <2>2, <2>3
<1> HIDE DEF p1, p2
<1>5. /\ DOMAIN reported' = ReportFields /\ reported'.hdr = reported.hdr
      /\ reported'.colors = reported.colors /\ reported'.seen = reported.seen
  BY <1>1 DEF IInv, SessionInv, ReportFields
<1>6. IntfInv'
  BY <1>1, InterfaceKept DEF IInv
<1>7. SessionInv'
  <2>1. 0 \notin DoubleWrites
    BY DEF DoubleWrites
  <2> QED BY <1>1, <1>3, <1>4, <1>5, <2>1, SMT DEF IInv, SessionInv, interfaceVars, SameReport
<1>8. FreshInv' /\ HdrInv' /\ ColorsInv'
  BY <1>1, <1>3, <1>4, <1>5, ReportKept DEF IInv, interfaceVars
<1> QED BY <1>6, <1>7, <1>8 DEF IInv

LEMMA AllocateKeeps ==
    ASSUME IInv, AllocateFirst
    PROVE  IInv'
<1> DEFINE d == [dev EXCEPT !.texture = @ \/ consumer = "texture",
                            !.noSurface = @ \/ consumer = "pool"]
<1>1. /\ name # noName /\ session = "started" /\ format.at = "pending"
      /\ flags' = [flags EXCEPT !.allocated = TRUE]
      /\ format' = NoFormat /\ playing' = stream
      /\ allocNonTunnelBuffers(d)
      /\ UNCHANGED <<interfaceVars, params, stream, current, writer, reader, reported>>
  BY DEF AllocateFirst, FormatHandled, IInv, SessionInv
<1>2. SameReport(dev, d)
  BY DEF SameReport, DevFields, IInv, SessionInv
<1> HIDE DEF d
<1>3. session' \in {"started", "error"}
  BY <1>1 DEF allocNonTunnelBuffers
<1>4. SameReport(dev, dev')
  <2> DEFINE u == getPlatformUsage(d, format.size)
             d2 == checkUseP010Mode(u)
             e == [d2 EXCEPT !.texture = consumer' = "texture",
                             !.forceFull = @ \/ consumer' = "display"]
  <2>1. dev' = d \/ dev' = d2 \/ dev' = getPlatformUsage(e, format.size)
    BY <1>1 DEF allocNonTunnelBuffers, reallocateBuffersForUsageChanged
  <2>2. SameReport(d, u)
    BY <1>2, UsageSame DEF SameReport
  <2> HIDE DEF u
  <2>3. SameReport(u, d2)
    BY <2>2, UseP010Same DEF SameReport
  <2> HIDE DEF d2
  <2>4. SameReport(d2, e)
    BY <2>3 DEF SameReport, DevFields
  <2> HIDE DEF e
  <2>5. SameReport(e, getPlatformUsage(e, format.size))
    BY <2>4, UsageSame DEF SameReport
  <2>6. SameReport(dev, d2)
    BY <1>2, <2>2, <2>3, SameReportTrans
  <2>7. SameReport(dev, getPlatformUsage(e, format.size))
    BY <2>6, <2>4, <2>5, SameReportTrans
  <2> QED BY <1>2, <2>1, <2>6, <2>7
<1>5. IntfInv'
  BY <1>1, InterfaceKept DEF IInv
<1>6. SessionInv'
  <2>1. stream # noStream
    BY <1>1 DEF IInv, SessionInv, NoFormat, none
  <2>2. DOMAIN flags' = FlagsFields /\ flags'.usageGot = flags.usageGot
    BY <1>1 DEF IInv, SessionInv, FlagsFields
  <2> QED BY <1>1, <1>3, <1>4, <2>1, <2>2, SMT DEF IInv, SessionInv, interfaceVars, SameReport
<1>7. FreshInv' /\ HdrInv' /\ ColorsInv'
  BY <1>1, <1>4, ReportKept DEF IInv, interfaceVars
<1> QED BY <1>5, <1>6, <1>7 DEF IInv

\* The size that the component gives its interface is one a client could.
LEMMA VisibleSizeType ==
    ASSUME stream \in Streams \cup {noStream}
    PROVE  VisibleSize \in Seq(ClientParameters) /\ VisibleSize \in Seq(AllParameters)
<1>1. stream.size \in Sizes
  BY StreamsAssumption DEF Described, noStream, NoSize, Sizes
<1>2. [param |-> "size", value |-> stream.size] \in ClientParameters
  BY <1>1 DEF ClientParameters, Parameter
<1> DEFINE p == [param |-> "size", value |-> stream.size]
<1> HIDE DEF p
<1>3. <<p>> \in Seq(ClientParameters) /\ <<p>> \in Seq(AllParameters)
  BY <1>2 DEF AllParameters, p
<1> QED BY <1>3 DEF VisibleSize, p

LEMMA VisibleSizeKeeps ==
    ASSUME IInv, name # noName, Configure(VisibleSize),
           UNCHANGED <<platform, mComponents, mCodecAttributes, padding, name>>
    PROVE  IntfInv' /\ intf'.hdr = intf.hdr /\ intf'.colors = intf.colors
<1>1. VisibleSize \in Seq(ClientParameters) /\ VisibleSize \in Seq(AllParameters)
  BY VisibleSizeType DEF IInv, SessionInv
<1> QED BY <1>1, ConfigureKeeps DEF IInv

LEMMA ResolutionKeeps ==
    ASSUME IInv, videoResolutionChange
    PROVE  IInv'
<1>1. /\ name # noName /\ session = "started" /\ stream # noStream
      /\ format' = NoFormat /\ playing' = stream
      /\ Configure(VisibleSize)
      /\ UNCHANGED <<platform, mComponents, mCodecAttributes, padding, name, session, params,
                     stream, flags, current, writer, reader, reported>>
  BY DEF videoResolutionChange, FormatHandled, IInv, SessionInv, NoFormat, none
<1>2. IntfInv' /\ intf'.hdr = intf.hdr /\ intf'.colors = intf.colors
  BY <1>1, VisibleSizeKeeps
<1>3. SameReport(dev, dev')
  <2>1. dev' = dev \/ dev' = [dev EXCEPT !.slot = FALSE]
    BY DEF videoResolutionChange, isReallocateOutputBuffer
  <2> QED BY <2>1 DEF SameReport, DevFields, IInv, SessionInv
<1>4. SessionInv'
  BY <1>1, <1>3, SMT DEF IInv, SessionInv, SameReport
<1>5. FreshInv' /\ HdrInv' /\ ColorsInv'
  BY <1>1, <1>2, <1>3, ReportKept DEF IInv
<1> QED BY <1>2, <1>4, <1>5 DEF IInv

LEMMA VisibleRectKeeps ==
    ASSUME IInv, onVisibleRectChanged
    PROVE  IInv'
<1>1. /\ name # noName /\ session = "started"
      /\ flags' = [flags EXCEPT !.visible = TRUE]
      /\ Configure(VisibleSize)
      /\ UNCHANGED <<platform, mComponents, mCodecAttributes, padding, name, session, dev, params,
                     stream, playing, format, buffers, current, writer, reader, reported>>
  BY DEF onVisibleRectChanged, IInv, SessionInv
<1>2. IntfInv' /\ intf'.hdr = intf.hdr /\ intf'.colors = intf.colors
  BY <1>1, VisibleSizeKeeps
<1>3. SameReport(dev, dev')
  BY <1>1 DEF SameReport, IInv, SessionInv
<1>4. SessionInv'
  <2>1. DOMAIN flags' = FlagsFields /\ flags'.usageGot = flags.usageGot
            /\ flags'.allocated = flags.allocated
    BY <1>1 DEF IInv, SessionInv, FlagsFields
  <2> QED BY <1>1, <2>1, SMT DEF IInv, SessionInv
<1>5. FreshInv' /\ HdrInv' /\ ColorsInv'
  BY <1>1, <1>2, <1>3, ReportKept DEF IInv
<1> QED BY <1>2, <1>4, <1>5 DEF IInv

LEMMA FetchKeeps ==
    ASSUME IInv, onAllocBufferTask
    PROVE  IInv'
<1>1. /\ name # noName /\ session = "started"
      /\ dev' = getPlatformUsage(dev, coded)
      /\ UNCHANGED <<interfaceVars, session, params, stream, playing, format, flags, current,
                     writer, reader, reported>>
  BY DEF onAllocBufferTask, IInv, SessionInv
<1>2. IntfInv'
  BY <1>1, InterfaceKept DEF IInv
<1>3. SameReport(dev, dev')
  BY <1>1, UsageSame DEF IInv, SessionInv
<1>4. SessionInv'
  BY <1>1, <1>3, SMT DEF IInv, SessionInv, interfaceVars, SameReport
<1>5. FreshInv' /\ HdrInv' /\ ColorsInv'
  BY <1>1, <1>3, ReportKept DEF IInv, interfaceVars
<1> QED BY <1>2, <1>4, <1>5 DEF IInv
-----------------------------------------------------------------------------
(* The report itself.                                                        *)

\* The decoder's thread decides what is new.
LEMMA UpdateKeeps ==
    ASSUME IInv, UpdateDecInfo
    PROVE  IInv'
<1> DEFINE hc == checkHdrStaticInfoMetaChanged(stream.hdr)
           cc == dev.signal # stream.colors /\ stream.colors # none
<1>1. /\ name # noName /\ session = "started" /\ stream \in Streams /\ stream # noStream
      /\ writer = <<>>
      /\ UNCHANGED <<interfaceVars, session, stream, playing, format, flags, buffers, current,
                     reader>>
  BY DEF UpdateDecInfo, IInv, SessionInv
<1>2. hc \in BOOLEAN /\ cc \in BOOLEAN
  BY DEF checkHdrStaticInfoMetaChanged
<1>3. /\ writer' = Steps(hc, cc)
      /\ params' = IF hc THEN [params EXCEPT !.hdr = stream.hdr] ELSE params
  BY DEF UpdateDecInfo
<1>4. /\ dev' = [dev EXCEPT !.signal = stream.colors]
      /\ reported' = [reported EXCEPT
                          !.hdr = IF stream.hdr = noHdr THEN @ ELSE stream.hdr,
                          !.colors = IF stream.colors = none THEN @ ELSE stream.colors]
  BY DEF UpdateDecInfo
<1>5. stream.hdr \in Hdrs
  BY <1>1, StreamsAssumption DEF Described
<1>6. /\ hc => stream.hdr # noHdr
      /\ ~hc => stream.hdr = noHdr \/ (params.hdr # noHdr /\ Alike(params.hdr, stream.hdr))
  <2>1. hc => stream.hdr # noHdr
    BY DEF checkHdrStaticInfoMetaChanged
  <2>2. params.hdr \in Hdrs
    BY DEF IInv, HdrInv
  <2> QED BY <1>1, <2>1, <2>2, NotDifferent
<1>7. /\ writer' \in WriterStates
      /\ HdrPending(writer') <=> hc
      /\ ColorsPending(writer') <=> cc
      /\ ~FlagsColors(writer') /\ ~FlagsHdr(writer')
      /\ ~HdrPending(writer) /\ ~ColorsPending(writer) /\ ~FlagsColors(writer) /\ ~FlagsHdr(writer)
  <2> HIDE DEF hc, cc
  <2> QED BY <1>1, <1>2, <1>3, WriterTable
<1>8. /\ DevFields \subseteq DOMAIN dev' /\ dev'.signal = stream.colors
      /\ dev'.hdrChanged = dev.hdrChanged /\ dev'.colorsChanged = dev.colorsChanged
  BY <1>4 DEF DevFields, IInv, SessionInv
<1>9. /\ ParamsFields \subseteq DOMAIN params' /\ params'.doubleWrite = params.doubleWrite
      /\ params'.hdr = IF hc THEN stream.hdr ELSE params.hdr
  <2> HIDE DEF hc
  <2> QED BY <1>3 DEF ParamsFields, IInv, SessionInv
<1>10. /\ DOMAIN reported' = ReportFields /\ reported'.seen = reported.seen
       /\ reported'.hdr = IF stream.hdr = noHdr THEN reported.hdr ELSE stream.hdr
       /\ reported'.colors = IF stream.colors = none THEN reported.colors ELSE stream.colors
  BY <1>4 DEF ReportFields, IInv, SessionInv
<1> HIDE DEF hc
<1>11. IntfInv'
  BY <1>1, InterfaceKept DEF IInv
<1>12. SessionInv'
  BY <1>1, <1>5, <1>7, <1>8, <1>9, <1>10, SMT DEF IInv, SessionInv, interfaceVars
<1>13. FreshInv'
  BY <1>1 DEF FreshInv, interfaceVars
<1>14. HdrInv'
  BY <1>1, <1>5, <1>6, <1>7, <1>8, <1>9, <1>10, SMT DEF IInv, HdrInv, Alike, interfaceVars
<1>15. ColorsInv'
  BY <1>1, <1>7, <1>8, <1>10, SMT DEF IInv, ColorsInv, interfaceVars
<1> QED BY <1>11, <1>12, <1>13, <1>14, <1>15 DEF IInv

\* What a batch of one parameter of the decoder's thread does.
LEMMA DecoderConfigures ==
    ASSUME IInv, name # noName, NEW p \in DecoderParameters, Configure(<<p>>),
           UNCHANGED <<platform, mComponents, mCodecAttributes, padding, name>>
    PROVE  /\ IntfInv'
           /\ p.param = "hdr" => intf'.hdr = p.value /\ intf'.colors = intf.colors
           /\ p.param = "colors" => intf'.colors = p.value /\ intf'.hdr = intf.hdr
<1> DEFINE batch == <<p>>
<1>1. p \in AllParameters
  BY DEF AllParameters
<1>2. batch \in Seq(AllParameters) /\ Len(batch) = 1 /\ batch[1] = p
  BY <1>1
<1>3. Configure(batch)
  OBVIOUS
<1> HIDE DEF batch
<1>4. /\ IntfInv'
      /\ intf'.hdr = Apply(name, intf, p).hdr /\ intf'.colors = Apply(name, intf, p).colors
  BY <1>2, <1>3, ConfigureKeeps DEF IInv
<1>5. GoodInterface(name, intf)
  BY DEF IInv, IntfInv, NameInv
<1>6. /\ p.param # "hdr" => Apply(name, intf, p).hdr = intf.hdr
      /\ p.param = "hdr" => Apply(name, intf, p).hdr = p.value
      /\ p.param # "colors" => Apply(name, intf, p).colors = intf.colors
      /\ p.param = "colors" => Apply(name, intf, p).colors = p.value
  BY <1>1, <1>5, ApplyGood
<1> QED BY <1>4, <1>6

\* And then tells the interface of it, before it raises the flag.
LEMMA ReportKeeps ==
    ASSUME IInv, ReportStep
    PROVE  IInv'
<1> DEFINE w == writer
           v == Tail(writer)
           step == Head(writer)
<1>1. /\ w \in WriterStates \ {<<>>} /\ session # "stopped" /\ name # noName
      /\ stream \in Streams /\ stream # noStream /\ writer' = v
      /\ UNCHANGED <<platform, mComponents, mCodecAttributes, padding, name,
                     session, params, stream, playing, format, flags, buffers, current, reader>>
  BY DEF ReportStep, IInv, SessionInv
<1>2. /\ v \in WriterStates
      /\ step \in {"configColors", "flagColors", "configHdr", "flagHdr"}
  BY <1>1, WriterTable
<1>3. stream.hdr \in Hdrs /\ stream.colors \in STRING
  BY <1>1, StreamsAssumption DEF Described
<1>4. /\ HdrPending(writer)' <=> HdrPending(v)
      /\ ColorsPending(writer)' <=> ColorsPending(v)
      /\ FlagsHdr(writer)' <=> FlagsHdr(v)
      /\ FlagsColors(writer)' <=> FlagsColors(v)
  BY <1>1 DEF HdrPending, ColorsPending, FlagsHdr, FlagsColors
<1>5. FreshInv'
  BY <1>1 DEF FreshInv
<1>6. CASE step = "configColors"
  <2>1. /\ Configure(<<[param |-> "colors", value |-> stream.colors]>>)
        /\ UNCHANGED <<dev, reported>>
    BY <1>6 DEF ReportStep
  <2>2. [param |-> "colors", value |-> stream.colors] \in DecoderParameters
    BY <1>3 DEF DecoderParameters, Parameter
  <2>3. IntfInv' /\ intf'.colors = stream.colors /\ intf'.hdr = intf.hdr
    BY <1>1, <2>1, <2>2, DecoderConfigures
  <2>4. /\ ColorsPending(w) /\ ~ColorsPending(v) /\ FlagsColors(v)
        /\ HdrPending(v) <=> HdrPending(w)
        /\ ~FlagsHdr(w) /\ ~FlagsHdr(v)
    BY <1>1, <1>6, WriterTable
  <2> HIDE DEF w, v, step
  <2>5. SessionInv'
    BY <1>1, <1>2, <2>1, SMT DEF IInv, SessionInv
  <2>6. HdrInv'
    BY <1>1, <1>4, <2>1, <2>3, <2>4, SMT DEF IInv, HdrInv, w
  <2>7. ColorsInv'
    BY <1>1, <1>4, <2>1, <2>3, <2>4, SMT DEF IInv, ColorsInv, w
  <2> QED BY <1>5, <2>3, <2>5, <2>6, <2>7 DEF IInv
<1>7. CASE step = "configHdr"
  <2>1. /\ Configure(<<[param |-> "hdr", value |-> stream.hdr]>>)
        /\ UNCHANGED <<dev, reported>>
    BY <1>7 DEF ReportStep
  <2>2. [param |-> "hdr", value |-> stream.hdr] \in DecoderParameters
    BY <1>3 DEF DecoderParameters, Parameter
  <2>3. IntfInv' /\ intf'.hdr = stream.hdr /\ intf'.colors = intf.colors
    BY <1>1, <2>1, <2>2, DecoderConfigures
  <2>4. /\ ~ColorsPending(w) /\ ~ColorsPending(v) /\ ~FlagsColors(w) /\ ~FlagsColors(v)
        /\ HdrPending(w) /\ ~HdrPending(v) /\ FlagsHdr(v)
    BY <1>1, <1>7, WriterTable
  <2>5. Alike(stream.hdr, stream.hdr)
    BY DEF Alike
  <2> HIDE DEF w, v, step
  <2>6. SessionInv'
    BY <1>1, <1>2, <2>1, SMT DEF IInv, SessionInv
  <2>7. HdrInv'
    BY <1>1, <1>3, <1>4, <2>1, <2>3, <2>4, <2>5, SMT DEF IInv, HdrInv, w
  <2>8. ColorsInv'
    BY <1>1, <1>4, <2>1, <2>3, <2>4, SMT DEF IInv, ColorsInv, w
  <2> QED BY <1>5, <2>3, <2>6, <2>7, <2>8 DEF IInv
<1>8. CASE step = "flagColors"
  <2>1. /\ dev' = [dev EXCEPT !.colorsChanged = TRUE]
        /\ reported' = [reported EXCEPT !.seen = @ \cup {"colors"}]
        /\ UNCHANGED <<intf, comp, accepted>>
    BY <1>8 DEF ReportStep
  <2>2. IntfInv'
    <3>1. padding' \in {0, 262144}
      BY <1>1 DEF IInv, IntfInv, ClientInv
    <3> QED BY <1>1, <2>1, <3>1, SameInterface DEF IInv
  <2>3. /\ DevFields \subseteq DOMAIN dev' /\ dev'.colorsChanged
        /\ dev'.signal = dev.signal /\ dev'.hdrChanged = dev.hdrChanged
        /\ DOMAIN reported' = ReportFields /\ reported'.hdr = reported.hdr
        /\ reported'.colors = reported.colors
        /\ "hdr" \in reported'.seen <=> "hdr" \in reported.seen
    BY <2>1 DEF IInv, SessionInv, DevFields, ReportFields
  <2>4. /\ ~ColorsPending(w) /\ ~ColorsPending(v)
        /\ HdrPending(v) <=> HdrPending(w)
        /\ ~FlagsHdr(w) /\ ~FlagsHdr(v)
    BY <1>1, <1>8, WriterTable
  <2> HIDE DEF w, v, step
  <2>5. SessionInv'
    BY <1>1, <1>2, <2>3, SMT DEF IInv, SessionInv
  <2>6. HdrInv'
    BY <1>1, <1>4, <2>1, <2>3, <2>4, SMT DEF IInv, HdrInv, w
  <2>7. ColorsInv'
    BY <1>1, <1>4, <2>1, <2>3, <2>4, SMT DEF IInv, ColorsInv, w
  <2> QED BY <1>5, <2>2, <2>5, <2>6, <2>7 DEF IInv
<1>9. CASE step = "flagHdr"
  <2>1. /\ dev' = [dev EXCEPT !.hdrChanged = TRUE]
        /\ reported' = [reported EXCEPT !.seen = @ \cup {"hdr"}]
        /\ UNCHANGED <<intf, comp, accepted>>
    BY <1>9 DEF ReportStep
  <2>2. IntfInv'
    <3>1. padding' \in {0, 262144}
      BY <1>1 DEF IInv, IntfInv, ClientInv
    <3> QED BY <1>1, <2>1, <3>1, SameInterface DEF IInv
  <2>3. /\ DevFields \subseteq DOMAIN dev' /\ dev'.hdrChanged
        /\ dev'.signal = dev.signal /\ dev'.colorsChanged = dev.colorsChanged
        /\ DOMAIN reported' = ReportFields /\ reported'.hdr = reported.hdr
        /\ reported'.colors = reported.colors
        /\ "colors" \in reported'.seen <=> "colors" \in reported.seen
    BY <2>1 DEF IInv, SessionInv, DevFields, ReportFields
  <2>4. /\ ~ColorsPending(w) /\ ~ColorsPending(v) /\ ~FlagsColors(w) /\ ~FlagsColors(v)
        /\ ~HdrPending(w) /\ ~HdrPending(v)
    BY <1>1, <1>9, WriterTable
  <2> HIDE DEF w, v, step
  <2>5. SessionInv'
    BY <1>1, <1>2, <2>3, SMT DEF IInv, SessionInv
  <2>6. HdrInv'
    BY <1>1, <1>4, <2>1, <2>3, <2>4, SMT DEF IInv, HdrInv, w
  <2>7. ColorsInv'
    BY <1>1, <1>4, <2>1, <2>3, <2>4, SMT DEF IInv, ColorsInv, w
  <2> QED BY <1>5, <2>2, <2>5, <2>6, <2>7 DEF IInv
<1> QED BY <1>2, <1>6, <1>7, <1>8, <1>9

\* mThread takes a flag down before it reads what the flag is about.
LEMMA PictureKeeps ==
    ASSUME IInv, updateWorkParam
    PROVE  IInv'
<1>1. /\ name # noName /\ session = "started"
      /\ UNCHANGED <<interfaceVars, session, params, stream, playing, format, flags, buffers,
                     writer, reported>>
  BY DEF updateWorkParam, IInv, SessionInv
<1>2. IntfInv'
  BY <1>1, InterfaceKept DEF IInv
<1>3. FreshInv'
  BY <1>1 DEF FreshInv, interfaceVars
<1>4. /\ DevFields \subseteq DOMAIN dev /\ DOMAIN current = {"hdr", "colors"}
      /\ UNCHANGED <<name, intf>>
  BY <1>1 DEF IInv, SessionInv, interfaceVars
<1>5. CASE /\ reader = "idle"
           /\ dev' = [dev EXCEPT !.colorsChanged = FALSE]
           /\ reader' = IF dev.colorsChanged THEN "updateColorAspects" ELSE "hdr"
           /\ UNCHANGED current
  <2>1. /\ DevFields \subseteq DOMAIN dev' /\ ~dev'.colorsChanged
        /\ dev'.signal = dev.signal /\ dev'.hdrChanged = dev.hdrChanged
    BY <1>4, <1>5 DEF DevFields
  <2>2. SessionInv'
    BY <1>1, <1>4, <1>5, <2>1, SMT DEF IInv, SessionInv
  <2>3. HdrInv'
    BY <1>1, <1>4, <1>5, <2>1, SMT DEF IInv, HdrInv
  <2>4. ColorsInv'
    BY <1>1, <1>4, <1>5, <2>1, SMT DEF IInv, ColorsInv
  <2> QED BY <1>2, <1>3, <2>2, <2>3, <2>4 DEF IInv
<1>6. CASE /\ reader = "updateColorAspects"
           /\ current' = [current EXCEPT !.colors = intf.colors]
           /\ reader' = "hdr"
           /\ UNCHANGED dev
  <2>1. /\ DOMAIN current' = {"hdr", "colors"} /\ current'.colors = intf.colors
        /\ current'.hdr = current.hdr
    BY <1>4, <1>6
  <2>2. SessionInv'
    BY <1>1, <1>4, <1>6, <2>1, SMT DEF IInv, SessionInv
  <2>3. HdrInv'
    BY <1>1, <1>4, <1>6, <2>1, SMT DEF IInv, HdrInv
  <2>4. ColorsInv'
    BY <1>1, <1>4, <1>6, <2>1, SMT DEF IInv, ColorsInv
  <2> QED BY <1>2, <1>3, <2>2, <2>3, <2>4 DEF IInv
<1>7. CASE /\ reader = "hdr"
           /\ dev' = [dev EXCEPT !.hdrChanged = FALSE]
           /\ reader' = IF dev.hdrChanged THEN "updateHDRStaticInfo" ELSE "idle"
           /\ UNCHANGED current
  <2>1. /\ DevFields \subseteq DOMAIN dev' /\ ~dev'.hdrChanged
        /\ dev'.signal = dev.signal /\ dev'.colorsChanged = dev.colorsChanged
    BY <1>4, <1>7 DEF DevFields
  <2>2. SessionInv'
    BY <1>1, <1>4, <1>7, <2>1, SMT DEF IInv, SessionInv
  <2>3. HdrInv'
    BY <1>1, <1>4, <1>7, <2>1, SMT DEF IInv, HdrInv
  <2>4. ColorsInv'
    BY <1>1, <1>4, <1>7, <2>1, SMT DEF IInv, ColorsInv
  <2> QED BY <1>2, <1>3, <2>2, <2>3, <2>4 DEF IInv
<1>8. CASE /\ reader = "updateHDRStaticInfo"
           /\ current' = [current EXCEPT !.hdr = intf.hdr]
           /\ reader' = "idle"
           /\ UNCHANGED dev
  <2>1. /\ DOMAIN current' = {"hdr", "colors"} /\ current'.hdr = intf.hdr
        /\ current'.colors = current.colors
    BY <1>4, <1>8
  <2>2. SessionInv'
    BY <1>1, <1>4, <1>8, <2>1, SMT DEF IInv, SessionInv
  <2>3. HdrInv'
    BY <1>1, <1>4, <1>8, <2>1, SMT DEF IInv, HdrInv
  <2>4. ColorsInv'
    BY <1>1, <1>4, <1>8, <2>1, SMT DEF IInv, ColorsInv
  <2> QED BY <1>2, <1>3, <2>2, <2>3, <2>4 DEF IInv
<1> QED BY <1>5, <1>6, <1>7, <1>8 DEF updateWorkParam
-----------------------------------------------------------------------------
(* Behaviours.                                                               *)

LEMMA StepKeeps ==
    ASSUME IInv, [Next]_vars
    PROVE  IInv'
<1>1. CASE UNCHANGED vars
  <2>1. UNCHANGED interfaceVars /\ UNCHANGED deviceVars
    BY <1>1 DEF vars
  <2>2. UNCHANGED <<name, intf>>
    BY <2>1 DEF interfaceVars
  <2>3. IntfInv'
    BY <2>1, InterfaceKept DEF IInv
  <2>4. SessionInv'
    BY <2>1, <2>2, SMT DEF IInv, SessionInv, deviceVars
  <2>5. FreshInv'
    BY <2>1, <2>2, SMT DEF IInv, FreshInv, deviceVars
  <2>6. HdrInv'
    BY <2>1, <2>2, SMT DEF IInv, HdrInv, deviceVars
  <2>7. ColorsInv'
    BY <2>1, <2>2, SMT DEF IInv, ColorsInv, deviceVars
  <2> QED BY <2>3, <2>4, <2>5, <2>6, <2>7 DEF IInv
<1>2. CASE Next
  BY <1>2, ClientKeeps, StartKeeps, StopKeeps, ConsumerKeeps, ReconfigKeeps, InterlacedKeeps,
     BeginKeeps, ProvideKeeps, FormatKeeps, AllocateKeeps, ResolutionKeeps, FetchKeeps,
     VisibleRectKeeps, UpdateKeeps, ReportKeeps, PictureKeeps DEF Next
<1> QED BY <1>1, <1>2

LEMMA InvCorrect == Spec => []IInv
<1>1. Init => IInv
  BY InitInv
<1>2. IInv /\ [Next]_vars => IInv'
  BY StepKeeps
<1> QED BY <1>1, <1>2, PTL DEF Spec

\* The types, with what setters and handlers bound: the interface's delays and size are
\* possible whatever is configured in whatever order, and a decoder that was started has a mode
\* of double write through every reconfiguration (codecConfig(),
\* checkConfigInfoFromDecoderAndReconfig()).
THEOREM TypeCorrect == Spec => []TypeOK
<1>1. IInv => TypeOK
  <2> SUFFICES ASSUME IInv PROVE TypeOK
    OBVIOUS
  <2>1. Usable \subseteq gVideoDecoderComponents
    BY DEF Usable, IInv, IntfInv, StoreInv
  <2>2. name # noName => GoodInterface(name, intf)
    BY DEF IInv, IntfInv, NameInv
  <2>3. InterfaceTypeOK
    BY <2>1, <2>2 DEF InterfaceTypeOK, GoodInterface, PossibleSize, IInv, IntfInv, ClientInv
  <2> QED BY <2>3, SMT DEF TypeOK, IInv, SessionInv, DoubleWrites
<1> QED BY <1>1, InvCorrect, PTL

\* Whatever batches clients configure, in whatever order, and whatever the component configures
\* of the streams it meets: pictures larger than 1920x1088 have input buffers of 4 MB (the
\* setter MaxSizeCalculator() and the handler onStreamMaxBufferSizeInfoConfigParam() agree), and
\* config() accepts pictures of 4K only within the levels declared by the interface.
THEOREM ParametersAgreeCorrect == Spec => []ParametersAgree
<1>1. IInv => ParametersAgree
  BY DEF IInv, IntfInv, NameInv, LargeEnough, TierCovers, ParametersAgree
<1> QED BY <1>1, InvCorrect, PTL

\* What the decoder says of HDR and colours is not lost between its thread and mThread
\* (checkHDRMetadataAndColorAspects(), updateWorkParam()): with nothing under way, pictures have
\* what the interface has and the interface has what was said last, for any number of infos,
\* sessions, formats and reconfigurations.
THEOREM InfoReportedCorrect == Spec => []InfoReported
<1>1. IInv => InfoReported
  <2> SUFFICES ASSUME IInv, session = "started", writer = <<>>, reader = "idle"
               PROVE  /\ ("hdr" \in reported.seen /\ ~dev.hdrChanged) => current.hdr = intf.hdr
                      /\ ("colors" \in reported.seen /\ ~dev.colorsChanged) =>
                             current.colors = intf.colors
                      /\ reported.hdr # noHdr =>
                             [intf.hdr EXCEPT !.min = 0] = [reported.hdr EXCEPT !.min = 0]
                      /\ reported.colors # none => intf.colors = reported.colors
    BY DEF InfoReported
  <2>1. /\ ~HdrPending(writer) /\ ~ColorsPending(writer)
        /\ ~FlagsHdr(writer) /\ ~FlagsColors(writer)
    BY WriterTable
  <2>2. name # noName /\ reported.hdr \in Hdrs
    BY DEF IInv, SessionInv
  <2>3. intf.hdr \in Hdrs
    BY <2>2 DEF IInv, HdrInv
  <2>4. ASSUME NEW h \in Hdrs, NEW g \in Hdrs, Alike(h, g)
        PROVE  [h EXCEPT !.min = 0] = [g EXCEPT !.min = 0]
    BY <2>4 DEF Hdrs, Alike
  <2>5. reported.hdr # noHdr => Alike(intf.hdr, reported.hdr)
    BY <2>1 DEF IInv, HdrInv
  <2> QED BY <2>1, <2>2, <2>3, <2>4, <2>5, SMT DEF IInv, HdrInv, ColorsInv
<1> QED BY <1>1, InvCorrect, PTL
=============================================================================
