---------------------------- MODULE MCVdecDevice ----------------------------
(* Small instances of VdecDevice for TLC.                                   *)
EXTENDS VdecDevice, TLC

Size(width, height) == [width |-> width, height |-> height]
HD  == Size(1280, 720)
FHD == Size(1920, 1088)
UHD == Size(3840, 2160)
E8K == Size(7680, 4320)

\* media_codecs.xml: pictures up to 1080p, 4K and 8K, in blocks of 16x16.
Attributes(max, blocks) ==
    [minSize |-> Size(64, 64), maxSize |-> max, blocks |-> blocks, blockArea |-> 256,
     blocksPerSecond |-> 30 * blocks]
Xml1080p == Attributes(FHD, 8160)
Xml4k    == Attributes(UHD, 32400)
Xml8k    == Attributes(E8K, 129600)
Xml8kOf4k == Attributes(E8K, 32400)  \* larger pictures than its blocks

Base ==
    [avs |-> TRUE, features |-> {"H264", "H265", "AV1"}, checkFeatures |-> TRUE, checkXml |-> TRUE,
     disableSecure |-> FALSE, xml |-> Name("H264", FALSE) :> Xml1080p,
     support4k |-> FALSE, support8k |-> FALSE, maxRate4k |-> 60,
     maxInput |-> 6291456, maxInputHandler |-> 8388608,
     slice |-> 0, nr |-> TRUE, di |-> TRUE, nr8k |-> FALSE, hwP010 |-> FALSE, swP010 |-> TRUE,
     display8k |-> FALSE, diPost |-> FALSE, gralloc |-> 2, replaceBuffers |-> FALSE,
     mmuArea |-> 2560 * 2160, avc4kMMU |-> FALSE, bufMode8k |-> FALSE, highBitrate |-> FALSE,
     bypassVpp |-> FALSE]

P(codec, xml) == [Base EXCEPT !.xml = Name(codec, FALSE) :> xml]

MCPlatforms ==
    {[P("H264", Xml1080p) EXCEPT !.diPost = TRUE, !.replaceBuffers = TRUE,
                              !.xml = @ @@ Name("H264", TRUE) :> Xml1080p],
     [P("H264", Xml4k) EXCEPT !.slice = 540, !.support4k = TRUE],
     [P("H265", Xml4k) EXCEPT !.gralloc = 1, !.diPost = TRUE],
     [P("H265", Xml8k) EXCEPT !.slice = 1080, !.nr8k = TRUE],
     [P("H265", Xml4k) EXCEPT !.hwP010 = TRUE, !.swP010 = FALSE, !.bypassVpp = TRUE],
     [P("AV1", Xml8kOf4k) EXCEPT !.display8k = TRUE],
     [P("VP9", Xml4k) EXCEPT !.features = {"VP9"}, !.avs = FALSE]}

Param(param, value) == [param |-> param, value |-> value]
MCBatches ==
    {<<Param("size", UHD), Param("rate", 60)>>,
     <<Param("streamInputDelay", 100), Param("size", E8K)>>,
     <<Param("avc4kMMU", TRUE)>>,
     <<Param("maxInput", 65536), Param("tunnel", TRUE)>>,
     <<Param("pixelFormat", "10bit"), Param("lowLatency", TRUE), Param("size", FHD)>>}

Stream(size, interlaced, depth, hdr, colors) ==
    [size |-> size, interlaced |-> interlaced, depth |-> depth, hdr |-> hdr, colors |-> colors]
Hdr(red, max, min) == [primaries |-> 1, red |-> red, max |-> max, min |-> min]
MCStreams ==
    {Stream(HD, FALSE, 8, noHdr, "bt709"),
     Stream(FHD, TRUE, 8, noHdr, none),
     Stream(UHD, FALSE, 10, Hdr(2, 4, 1), "bt2020")}

Budget(cs, sessions, formats, consumers, infos) ==
    [configs |-> cs, sessions |-> sessions, formats |-> formats, consumers |-> consumers,
     infos |-> infos]
MCBudgets == {Budget(1, 1, 2, 1, 0), Budget(0, 2, 2, 0, 2), Budget(2, 0, 0, 0, 0)}
=============================================================================
