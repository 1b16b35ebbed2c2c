----------------------------- MODULE MCRoutines -----------------------------
(***************************************************************************)
(* The routines that make something - curves, built-in profiles, black     *)
(* points, PostScript - next to the handlers of the tag types.  Each is    *)
(* called once with arguments for each of its ways, and what it made is    *)
(* freed.                                                                  *)
(***************************************************************************)
EXTENDS TagHandlers, Routines, Measurements, VirtualProfiles, TLC

Resource == INSTANCE PostScript

(***************************************************************************)
(* The handlers of cmstypes.c on small objects: what a program writes is   *)
(* read back, duplicated, and both freed; a file made by others is read,   *)
(* duplicated and freed.                                                   *)
(***************************************************************************)
\* Objects.
Plain == [n |-> 2]
WithText(n, text) == [kind |-> MultiLocalizedUnicode, text |-> text, n |-> n, ascii |-> text,
                      unicode |-> text, recLen |-> 12, where |-> "inside"]
ATable == [segments |-> <<>>, entries |-> 3, kind |-> Tabulated, count |-> 3, type |-> 0]
Shaped(types) == [segments |-> types, entries |-> 5, kind |-> Parametric, count |-> 5, type |-> 0]
ALut(in, out, matrix, pre, grid, post) ==
    [in |-> in, out |-> out, matrix |-> matrix, pre |-> pre, post |-> post, clut |-> grid,
     inEntries |-> 2, outEntries |-> 2, others |-> FALSE, SaveAs8Bits |-> Len(pre) > 0 /\ pre[1] = 256]
SomeParts(in, out, stages, c, precision) ==
    [in |-> in, out |-> out, stages |-> stages, curve |-> c, file |-> c, points |-> 2,
     precision |-> precision, float |-> FALSE, fits |-> TRUE, SaveAs8Bits |-> FALSE]
Sequenced(n, version) ==
    [n |-> n, text |-> WithText(1, 2), found |-> WithText(1, 2), ICCVersion |-> version]
Element(kind, in, out, segments) ==
    [kind |-> kind, in |-> in, out |-> out, segments |-> segments, points |-> 2, segmented |-> TRUE,
     float |-> TRUE, precision |-> 2]
Elements(in, out, elements) == [in |-> in, out |-> out, elements |-> elements, fits |-> TRUE]
Entry(value, display) == [value |-> value, display |-> display]
Entries(entries) == [entries |-> entries, length |-> 2, text |-> WithText(1, 2), known |-> TRUE]
Gammas(segments) == [gamma |-> "table", channels |-> 3, entries |-> 2, width |-> 1, segments |-> segments]

Object(tag, version, s) ==
    [mode |-> "written", tag |-> tag, ICCVersion |-> version, s |-> s,
     type |-> DecideType(tag, version, s)]
File(tag, type, s, n) == [mode |-> "foreign", tag |-> tag, type |-> type, s |-> s, bytes |-> n]

Straightforward ==
    {Object(tag, 4, Plain) : tag \in {"rXYZ", "calt", "chad", "clro", "clrt", "tech", "meas", "psd0",
                                      "view", "scrn"}}
    \cup {Object("cicp", 4, [n |-> 4]), Object("chrm", 2, [nChans |-> 3, shifted |-> FALSE]),
          Object("ncl2", 4, [n |-> 2, coords |-> 3]),
          Object("bfd ", 2, [ucr |-> 1, bg |-> 2, text |-> 3]),
          Object("crdi", 2, [fits |-> TRUE, text |-> 2])}
Strings ==
    {Object(tag, version, WithText(2, 3)) : tag \in {"cprt", "desc", "dscm"}, version \in {2, 4}}
    \cup {Object("desc", 2, WithText(0, 0))}
CurveObjects ==
    {Object("rTRC", version, c) : version \in {2, 4},
                                  c \in {ATable, Shaped(<<1>>), Shaped(<<4>>), Shaped(<<6, 0, 6>>)}}
Luts ==
    {Object("AToB0", 2, ALut(3, 1, "other", <<2, 2, 2>>, 2, <<4>>)),
     Object("BToA0", 2, ALut(1, 3, "no", <<>>, 2, <<>>)),
     Object("pre0", 2, ALut(3, 3, "identity", <<>>, 0, <<3, 3, 3>>)),
     Object("AToB1", 2, ALut(3, 1, "other", <<256, 256, 256>>, 2, <<2>>))}
    \cup {Object("AToB0", 4, SomeParts(1, 2, stages, Shaped(<<1>>), 1)) : stages \in A2BStages \ {<<>>}}
    \cup {Object("BToA0", 4, SomeParts(2, 1, stages, ATable, 2)) : stages \in B2AStages}
Sets ==
    {Object("pseq", 4, Sequenced(2, 4)), Object("psid", 4, Sequenced(2, 4)),
     Object("psid", 2, Sequenced(2, 2)),
     Object("D2B0", 4, Elements(2, 1, <<Element("MPEcurve", 2, 2, <<6, 0>>),
                                        Element("MPEclut", 2, 1, <<>>),
                                        Element("MPEmatrix", 1, 1, <<>>)>>)),
     Object("meta", 4, Entries(<<Entry(TRUE, {}), Entry(TRUE, {})>>)),
     Object("meta", 4, Entries(<<Entry(TRUE, {DisplayName}), Entry(TRUE, {DisplayName, DisplayValue})>>)),
     Object("vcgt", 4, Gammas(<<Formula>>)), Object("vcgt", 4, Gammas(<<>>))}
MHC2s == {Object("MHC2", 4, [n |-> 2, identity |-> identity]) : identity \in BOOLEAN}

\* What other programs write.
Foreign ==
    {File("chrm", "chrm", [nChans |-> 3, shifted |-> TRUE], 32),
     File("chrm", "chrm", [nChans |-> 4, shifted |-> FALSE], 32),
     File("clro", "clro", [n |-> 17], 21), File("rXYZ", cmsCorbisBrokenXYZtype, Plain, 12),
     File("rTRC", cmsMonacoBrokenCurveType, ATable, 10), File("rTRC", "sf32", Plain, 8),
     File("rTRC", Tabulated, [ATable EXCEPT !.count = 40000], 10),
     File("kTRC", Parametric, [Shaped(<<1>>) EXCEPT !.type = 7], 10),
     File("cprt", TextDescription, [WithText(0, 3) EXCEPT !.unicode = 0], 16),
     File("desc", TextDescription, WithText(0, 3), 5), File("desc", TextDescription, WithText(0, 3), 16),
     File("desc", TextDescription, WithText(0, 3), 23), File("desc", Text, WithText(0, 3), 3),
     File("desc", MultiLocalizedUnicode, [WithText(1, 2) EXCEPT !.where = "outside"], 30),
     File("desc", MultiLocalizedUnicode, [WithText(1, 2) EXCEPT !.recLen = 16], 30),
     File("targ", Text, WithText(0, 0), 0), File("psd0", "data", Plain, 3), File("chad", "sf32", Plain, 3),
     File("AToB0", "mft1", ALut(3, 1, "other", <<2>>, 1, <<2>>), 0),
     File("AToB0", "mft2", ALut(17, 1, "no", <<>>, 2, <<>>), 0),
     File("AToB0", "mft2", [ALut(3, 1, "no", <<>>, 2, <<>>) EXCEPT !.inEntries = 1], 0),
     File("AToB0", "mft1", ALut(15, 2, "no", <<>>, 3, <<>>), 0),
     File("AToB0", "mAB ", SomeParts(1, 2, <<"A", "CLUT", "B">>, ATable, 3), 0),
     File("AToB0", "mAB ", [SomeParts(1, 2, <<"A", "CLUT", "B">>, ATable, 1) EXCEPT !.fits = FALSE], 0),
     File("BToA0", "mBA ", [SomeParts(1, 2, <<"B">>, ATable, 1) EXCEPT !.file.kind = "none"], 0),
     File("scrn", "scrn", [n |-> 17], 212), File("crdi", "crdi", [fits |-> FALSE, text |-> 2], 20),
     File("bfd ", "bfd ", [ucr |-> 0, bg |-> 1, text |-> 2], 20),
     File("bfd ", "bfd ", [ucr |-> 1, bg |-> 1, text |-> 2], 9),
     File("pseq", "pseq", [Sequenced(1, 2) EXCEPT !.found.kind = "none"], 100),
     File("pseq", "pseq", [Sequenced(1, 2) EXCEPT !.found.kind = Text], 23),
     File("pseq", "pseq", [Sequenced(1, 2) EXCEPT !.found.kind = Text], 100),
     File("pseq", "pseq", Sequenced(0, 2), 4),
     File("D2B0", "mpet", Elements(1, 1, <<Element("BAcs", 1, 1, <<>>)>>), 0),
     File("D2B0", "mpet", Elements(1, 1, <<Element("none", 1, 1, <<>>)>>), 0),
     File("D2B0", "mpet", Elements(1, 1, <<Element("MPEcurve", 1, 1, <<9>>)>>), 0),
     File("D2B0", "mpet", Elements(1, 1, <<[Element("MPEclut", 1, 1, <<>>) EXCEPT !.points = 1]>>), 0),
     File("D2B0", "mpet", [Elements(1, 1, <<Element("MPEmatrix", 1, 2, <<>>)>>) EXCEPT !.fits = FALSE], 0),
     File("vcgt", "vcgt", [Gammas(<<>>) EXCEPT !.width = 3], 0),
     File("vcgt", "vcgt", [Gammas(<<>>) EXCEPT !.gamma = "none"], 0),
     File("meta", "dict", [Entries(<<>>) EXCEPT !.known = FALSE], 8),
     File("meta", "dict", Entries(<<Entry(FALSE, {})>>), 40),
     File("meta", "dict", Entries(<<Entry(TRUE, {})>>), 20),
     File("MHC2", "MHC2", [n |-> 4097, identity |-> TRUE], 0)}

MCJobs == Straightforward \cup Strings \cup CurveObjects \cup Luts \cup Sets \cup MHC2s \cup Foreign

Copies == <<Call("dup", "copy", "tag"), Call("free", "tag", "tag"), Call("free", "copy", "copy")>>
MCCalls(j) ==
    CASE j.mode = "written" -> <<Call("write", "writer", ""), Call("read", "tag", "writer")>> \o Copies
      [] j.mode = "foreign" -> <<Call("read", "tag", "")>> \o Copies

\* What is in the file after an object was written.
Found(j) ==
    CASE j.mode = "foreign" -> j.s
      [] OTHER ->
           CASE j.type \in {"mft1", "mft2"} -> WrittenLut(j.s)
             [] j.type \in {"mAB ", "mBA "} -> WrittenParts(j.s)
             [] j.type \in {"pseq", "psid"} -> WrittenTexts(j.s)
             [] j.type = "vcgt" -> WrittenGamma(j.s)
             [] j.type \in {Tabulated, Parametric} -> CurveWritten(j.s)
             [] j.type = TextDescription ->
                  [j.s EXCEPT !.ascii = Max({j.s.text, 1}), !.unicode = Max({j.s.text, 1})]
             [] OTHER -> j.s

StepsOf(j, name, size) ==
    CASE name = "write" -> WriteTag(j.tag, j.ICCVersion, j.s)
      [] name = "read" -> ReadTag(j.tag, j.type, Found(j), size)
      [] OTHER -> GetHandler(j.type, name, Found(j), 0)
SizeOfTag(j) == IF j.mode = "foreign" THEN j.bytes
                ELSE Length(WriteTag(j.tag, j.ICCVersion, j.s), TypeBase)
MCProgram(j, name) == StepsOf(j, name, IF name = "read" THEN SizeOfTag(j) ELSE 0)

(***************************************************************************)
(* What is not a tag.                                                      *)
(***************************************************************************)
\* Profiles to measure.
AProfile ==
    [class |-> "prtr", space |-> "CMYK", pcs |-> "Lab ", version |-> 2, channels |-> 4, cmyk |-> TRUE,
     nProfiles |-> 2, monotonic |-> TRUE, ends |-> TRUE, clut |-> TRUE, matrixShaper |-> FALSE,
     supported |-> {"perceptual", "relative", "saturation"}, shaper |-> <<"table", "table", "power">>]
Measured ==
    {AProfile, [AProfile EXCEPT !.class = "link"], [AProfile EXCEPT !.version = 4],
     [AProfile EXCEPT !.version = 4, !.matrixShaper = TRUE],
     [AProfile EXCEPT !.space = "RGB ", !.class = "mntr", !.channels = 3],
     [AProfile EXCEPT !.space = "HSV ", !.supported = {"relative"}],
     [AProfile EXCEPT !.clut = FALSE, !.ends = FALSE, !.supported = {"relative"}],
     [AProfile EXCEPT !.channels = 16, !.cmyk = FALSE], [AProfile EXCEPT !.monotonic = FALSE]}
PSProfiles ==
    {AProfile, [AProfile EXCEPT !.class = "nmcl"], [AProfile EXCEPT !.pcs = "RGB "],
     [AProfile EXCEPT !.matrixShaper = TRUE], [AProfile EXCEPT !.matrixShaper = TRUE, !.space = "RGB "],
     [AProfile EXCEPT !.matrixShaper = TRUE, !.space = "GRAY"]}
Intents == {"perceptual", "relative", "saturation", "absolute"}
Inputs(inputs, curves, samples) == [inputs |-> inputs, curves |-> curves, samples |-> samples]
PSTables ==
    {Inputs(1, <<>>, 0), Inputs(3, <<>>, 2), Inputs(4, <<>>, 2), Inputs(5, <<>>, 2), Inputs(3, <<>>, 0),
     Inputs(3, <<"linear", "table", "table">>, 3), Inputs(4, <<"power", "none", "table", "table">>, 2)}
Transforms ==
    {[in |-> i, out |-> o, stages |-> s, optimized |-> s, table |-> t, inks |-> k] :
        i \in {"Lab ", "RGB "}, o \in {"Lab ", "CMYK"}, k \in BOOLEAN,
        s \in {<<cvst, clut, cvst>>, <<matf, matf>>}, t \in {<<clut>>, <<cvst, clut, cvst>>, <<matf>>}}

\* Jobs: what is made, and from what.
Made(makers) == [mode : {"made"}, maker : makers]
With(jobs, field, S) == {j @@ (field :> v) : j \in jobs, v \in S}
Curving ==
    Made({"cmsJoinToneCurve"})
    \cup With(Made({"cmsBuildTabulatedToneCurve16", "cmsBuildTabulatedToneCurveFloat"}), "n", {0, 3, 65531})
    \cup With(Made({"cmsBuildSegmentedToneCurve", "cmsDupToneCurve", "cmsReverseToneCurveEx"}), "types",
              {<<>>, <<1>>, <<9>>, <<0>>, <<6, 0, 0>>})
    \cup With(Made({"cmsBuildParametricToneCurve"}), "n", {1, 9, -4, 109})
    \cup With(Made({"cmsSmoothToneCurve"}), "n", {3, 4097})
Virtual ==
    Made({"cmsCreateLinearizationDeviceLinkTHR", "cmsCreateLab2ProfileTHR", "cmsCreateLab4ProfileTHR",
          "cmsCreateXYZProfileTHR", "cmsCreate_sRGBProfileTHR", "cmsCreate_OkLabProfile",
          "cmsCreateBCHSWabstractProfileTHR", "cmsCreateNULLProfileTHR"})
    \cup With(Made({"cmsCreateRGBProfileTHR", "cmsCreateGrayProfileTHR"}), "given",
              SUBSET {"WhitePoint", "Primaries", "TransferFunction"})
    \cup With(Made({"cmsCreateInkLimitingDeviceLinkTHR"}), "space", {"CMYK", "RGB "})
    \cup With(Made({"CreateNamedColorDevicelink"}), "given", {{}, {"Original"}})
    \cup With(With(Made({"cmsTransform2DeviceLink"}), "x", Transforms), "given",
              SUBSET {"IsV4", "guess", "FORCE_CLUT"})
Measures ==
    With(Made({"_cmsBuildKToneCurve", "cmsDetectTAC", "cmsDetectRGBProfileGamma"}), "p", Measured)
    \cup With(Made({"_cmsCreateGamutCheckPipeline"}), "n", {0, 1, 256})
    \cup With(With(Made({"cmsDetectBlackPoint"}), "p", Measured), "Intent", Intents)
    \cup With(With(With(Made({"cmsDetectDestinationBlackPoint"}), "p", Measured), "Intent", Intents),
              "ramp", {"flat", "straight", "few", "fitted"})
Printed ==
    With(With(Made({"cmsGetPostScriptCSA"}), "p", PSProfiles), "lut", PSTables)
    \* (Dictionaries are rendered from Lab, and a table is forced.)
    \cup With(With(Made({"cmsGetPostScriptCRD"}), "p", PSProfiles), "lut",
              {t \in PSTables : t.inputs = 3 /\ t.samples > 0})

Maker(j) ==
    CASE j.maker = "cmsJoinToneCurve" -> cmsJoinToneCurve
      [] j.maker = "cmsBuildTabulatedToneCurve16" -> cmsBuildTabulatedToneCurve16(j.n)
      [] j.maker = "cmsBuildTabulatedToneCurveFloat" -> cmsBuildTabulatedToneCurveFloat(j.n)
      [] j.maker = "cmsBuildParametricToneCurve" -> cmsBuildParametricToneCurve(j.n, FALSE)
      [] j.maker = "cmsBuildSegmentedToneCurve" -> cmsBuildSegmentedToneCurve(j.types, TRUE)
      [] j.maker = "cmsDupToneCurve" -> cmsDupToneCurve(2, j.types)
      [] j.maker = "cmsReverseToneCurveEx" -> cmsReverseToneCurveEx(3, j.types)
      [] j.maker = "cmsSmoothToneCurve" -> cmsSmoothToneCurve(j.n, FALSE)
      [] j.maker = "cmsCreateLinearizationDeviceLinkTHR" -> cmsCreateLinearizationDeviceLinkTHR
      [] j.maker = "cmsCreateLab2ProfileTHR" -> cmsCreateLab2ProfileTHR
      [] j.maker = "cmsCreateLab4ProfileTHR" -> cmsCreateLab4ProfileTHR
      [] j.maker = "cmsCreateXYZProfileTHR" -> cmsCreateXYZProfileTHR
      [] j.maker = "cmsCreate_sRGBProfileTHR" -> cmsCreate_sRGBProfileTHR
      [] j.maker = "cmsCreate_OkLabProfile" -> cmsCreate_OkLabProfile
      [] j.maker = "cmsCreateBCHSWabstractProfileTHR" -> cmsCreateBCHSWabstractProfileTHR
      [] j.maker = "cmsCreateNULLProfileTHR" -> cmsCreateNULLProfileTHR
      [] j.maker = "cmsCreateRGBProfileTHR" ->
           cmsCreateRGBProfileTHR("WhitePoint" \in j.given, "Primaries" \in j.given,
                                  "TransferFunction" \in j.given)
      [] j.maker = "cmsCreateGrayProfileTHR" ->
           cmsCreateGrayProfileTHR("WhitePoint" \in j.given, "TransferFunction" \in j.given)
      [] j.maker = "cmsCreateInkLimitingDeviceLinkTHR" -> cmsCreateInkLimitingDeviceLinkTHR(j.space)
      [] j.maker = "CreateNamedColorDevicelink" -> CreateNamedColorDevicelink("Original" \in j.given)
      [] j.maker = "cmsTransform2DeviceLink" ->
           cmsTransform2DeviceLink(j.x, "IsV4" \in j.given, "guess" \in j.given, "FORCE_CLUT" \in j.given)
      [] j.maker = "_cmsBuildKToneCurve" -> _cmsBuildKToneCurve(j.p)
      [] j.maker = "cmsDetectTAC" -> cmsDetectTAC(j.p)
      [] j.maker = "cmsDetectRGBProfileGamma" -> cmsDetectRGBProfileGamma(j.p)
      [] j.maker = "_cmsCreateGamutCheckPipeline" -> _cmsCreateGamutCheckPipeline(j.n)
      [] j.maker = "cmsDetectBlackPoint" -> cmsDetectBlackPoint(j.p, j.Intent)
      [] j.maker = "cmsDetectDestinationBlackPoint" -> cmsDetectDestinationBlackPoint(j.p, j.Intent, j.ramp)
      [] j.maker = "cmsGetPostScriptCSA" -> Resource!cmsGetPostScriptCSA(j.p, j.lut)
      [] j.maker = "cmsGetPostScriptCRD" -> Resource!cmsGetPostScriptCRD(j.p, j.lut)

Result(j) ==
    CASE j \in Virtual -> "hICC"
      [] j.maker = "_cmsCreateGamutCheckPipeline" -> "Gamut"
      [] j.maker = "_cmsBuildKToneCurve" -> "KTone"
      [] j.maker = "cmsJoinToneCurve" -> "out"
      [] j \in Curving -> "p"
      [] OTHER -> ""

AllJobs == MCJobs \cup Curving \cup Virtual \cup Measures \cup Printed
AllCalls(j) ==
    IF j.mode = "made" THEN <<Call("make", "made", ""), Call("free", "made", "made")>> ELSE MCCalls(j)
\* A routine returns what it made, or nothing but an answer.
AllProgram(j, name) ==
    CASE j.mode # "made" -> MCProgram(j, name)
      [] name = "make" -> LET made == Maker(j) IN
           IF Result(j) = "" \/ made[Len(made)].op = "return" THEN made
           ELSE Append(made, Return(Result(j)))
      [] OTHER -> IF Result(j) = "" THEN <<>> ELSE <<Drop(Result(j))>>

\* A resource is well nested: each bracket is closed by its like, and no value stands
\* outside (cmsps2.c writes the brackets of a table when its sampler meets new values).
Closes == (")" :> "(") @@ ("]" :> "[") @@ ("}" :> "{") @@ (">" :> "<") @@ (">>" :> "<<")
WellNested ==
    Succeeded /\ job.mode = "made" /\ call = 1 =>
        LET after(open, k) ==
              LET t == IF k \in DOMAIN stream THEN stream[k].what ELSE "blank"
              IN  CASE t = "blank" -> open
                    [] t \in DOMAIN Closes ->
                         IF open # <<>> /\ open[Len(open)] = Closes[t] THEN Front(open) ELSE <<"none">>
                    [] t = "value" -> IF open # <<>> THEN open ELSE <<"none">>
                    [] OTHER -> Append(open, t)
        IN  FoldLeft(after, <<>>, [k \in 1..cursor |-> k]) = <<>>
=============================================================================
