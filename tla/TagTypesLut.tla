---------------------------- MODULE TagTypesLut ----------------------------
(***************************************************************************)
(* The lookup tables of cmstypes.c: lut8, lut16, lutAToB and lutBToA.  s   *)
(* is the pipeline to be written, or what is in a file: in and out         *)
(* channels, and the stages.  For lut8 and lut16, matrix is "no",          *)
(* "identity" or "other", pre and post are the numbers of entries of each  *)
(* curve, <<>> for no curves, and clut the grid points, 0 for no table.    *)
(* For the other two, stages are the stages in the order of the pipeline,  *)
(* and curve is the curve of all their sets.                               *)
(***************************************************************************)
EXTENDS TagTypes

MPE(k) == <<"mpe", k>>
\* A stage made by some steps goes into the pipeline, which goes if they fail.
Insert(lut, k, fits, steps) ==
    Within(B(lut), steps) \o Within(B(lut), cmsPipelineInsertStage(lut, k, fits))

(***************************************************************************)
(* lut8 and lut16.                                                         *)
(***************************************************************************)
\* The range of the integers that sizes are computed in, made smaller.
UINT_MAX == 2^24 - 1
Overflown == -1
\* n * a^b, checked at each step.
uipow(n, a, b) ==
    LET power == FoldLeft(LAMBDA rv, i : IF rv = Overflown \/ rv * a > UINT_MAX \div a
                                         THEN Overflown ELSE rv * a, 1, [i \in 1..b |-> i])
        rc == (power * n) % (UINT_MAX + 1)
    IN  CASE a = 0 \/ n = 0 -> 0
          [] a # 0 /\ n # 0 /\ power = Overflown -> Overflown
          [] OTHER -> IF power # rc \div n THEN Overflown ELSE rc

MatStage == 1
PreStage == 2
CLUTStage == 3
PostStage == 4

Read8bitTables(k, n) ==
    LET tables == AllCurves(k, n)
    IN  <<Require(n > 0 /\ n <= cmsMAXCHANNELS), New("Temp")>>
        \o Within(tables \cup B("Temp"),
                  Curves(k, n) \o Loop(n, LAMBDA i : <<GetAt("Tables", Part(k, i), 256)>>))
        \o <<Drop("Temp")>>
        \o Within(tables, cmsStageAllocToneCurves(k, n) \o cmsPipelineInsertStage("NewLUT", k, TRUE))
        \o FreeCurves(k, n)
\* Tables of two entries are those of the identity.
Write8bitTables(k, n, entries) ==
    When(entries # <<>>,
         Loop(n, LAMBDA i : <<Require(entries[i + 1] \in {2, 256}),
                              PutAt("Tables", Part(k, i), 256)>>))

Read16bitTables(k, n, nEntries) ==
    LET tables == AllCurves(k, n)
    IN  When(nEntries > 0,
             <<Require(nEntries >= 2 /\ n <= cmsMAXCHANNELS)>>
             \o Within(tables,
                  Loop(n, LAMBDA i : <<NewAt("curve", Part(k, i)),
                                       GetAt("Tables", Part(k, i), 2 * nEntries)>>)
                  \o cmsStageAllocToneCurves(k, n) \o cmsPipelineInsertStage("NewLUT", k, TRUE))
             \o FreeCurves(k, n))
Write16bitTables(k, entries) ==
    Loop(Len(entries), LAMBDA i : <<PutAt("Tables", Part(k, i), 2 * entries[i + 1])>>)

ReadLutMatrix(s) ==
    Loop(9, LAMBDA i : <<GetAt("Matrix", i, 4)>>)
    \o When(s.in = 3 /\ s.matrix = "other",
            cmsStageAllocMatrix(MatStage, FALSE) \o cmsPipelineInsertStage("NewLUT", MatStage, TRUE))
WriteLutMatrix == Loop(9, LAMBDA i : <<PutAt("Matrix", i, 4)>>)

ChannelsFit(s) == s.in \in 1..cmsMAXCHANNELS /\ s.out \in 1..cmsMAXCHANNELS

Type_LUT8_Read(s) ==
    LET nTabSize == uipow(s.out, s.clut, s.in)
    IN  <<Get("InputChannels", 1), Get("OutputChannels", 1), Get("CLUTpoints", 1),
          Require(s.clut # 1), Get("Padding", 1), Require(ChannelsFit(s))>>
        \o cmsPipelineAlloc("NewLUT", s.in, s.out)
        \o Within(B("NewLUT"),
             ReadLutMatrix(s)
             \o Read8bitTables(PreStage, s.in)
             \o <<Require(nTabSize # Overflown)>>
             \o When(nTabSize > 0,
                     <<New("T"), New("Temp") ?? B("T"),
                       Get("CLUT", nTabSize) ?? (B("T") \cup B("Temp")), Drop("Temp")>>
                     \o Within(B("T"), cmsStageAllocCLut16bit(CLUTStage, nTabSize)
                                       \o cmsPipelineInsertStage("NewLUT", CLUTStage, TRUE))
                     \o <<Drop("T")>>)
             \o Read8bitTables(PostStage, s.out))
        \o <<Return("NewLUT")>>

\* Without curves, no tables are written.
Type_LUT8_Write(s) ==
    LET nTabSize == uipow(s.out, s.clut, s.in)
    IN  <<Require(s.matrix # "no" \/ s.pre # <<>> \/ s.clut # 0 \/ s.post # <<>>),
          Require(s.matrix # "no" => s.in = 3), Require(~s.others),
          Put("InputChannels", 1), Put("OutputChannels", 1), Put("CLUTpoints", 1),
          Put("Padding", 1)>>
        \o WriteLutMatrix
        \o Write8bitTables(PreStage, s.in, s.pre)
        \o <<Require(nTabSize # Overflown), Put("CLUT", nTabSize)>>
        \o Write8bitTables(PostStage, s.out, s.post)

\* Before the pipeline is there, NULL is returned at once.
Type_LUT16_Read(s) ==
    LET nTabSize == uipow(s.out, s.clut, s.in)
    IN  <<Get("InputChannels", 1), Get("OutputChannels", 1), Get("CLUTpoints", 1),
          Get("Padding", 1), Require(ChannelsFit(s))>>
        \o cmsPipelineAlloc("NewLUT", s.in, s.out)
        \o Within(B("NewLUT"),
             ReadLutMatrix(s)
             \o <<Get("InputEntries", 2), Get("OutputEntries", 2),
                  Require(s.inEntries <= 32767 /\ s.outEntries <= 32767), Require(s.clut # 1)>>
             \o Read16bitTables(PreStage, s.in, s.inEntries)
             \o <<Require(nTabSize # Overflown)>>
             \o When(nTabSize > 0,
                     <<New("T"), Get("CLUT", 2 * nTabSize) ?? B("T")>>
                     \o Within(B("T"), cmsStageAllocCLut16bit(CLUTStage, nTabSize)
                                       \o cmsPipelineInsertStage("NewLUT", CLUTStage, TRUE))
                     \o <<Drop("T")>>)
             \o Read16bitTables(PostStage, s.out, s.outEntries))
        \o <<Return("NewLUT")>>

\* Two entries are written for the curves that are not there; for the others, the
\* entries of the first one are counted.
EntriesWritten(entries) == IF entries = <<>> THEN 2 ELSE entries[1]
Straight(n) == [i \in 1..n |-> 2]
Type_LUT16_Write(s) ==
    LET nTabSize == uipow(s.out, s.clut, s.in)
    IN  <<Require(s.matrix # "no" => s.in = 3), Require(~s.others),
          Put("InputChannels", 1), Put("OutputChannels", 1), Put("CLUTpoints", 1),
          Put("Padding", 1)>>
        \o WriteLutMatrix
        \o <<Put("InputEntries", 2), Put("OutputEntries", 2)>>
        \o Write16bitTables(PreStage, IF s.pre = <<>> THEN Straight(s.in) ELSE s.pre)
        \o <<Require(nTabSize # Overflown), Put("CLUT", 2 * nTabSize)>>
        \o Write16bitTables(PostStage, IF s.post = <<>> THEN Straight(s.out) ELSE s.post)

\* What is read of what was written.
WrittenLut(s) == [s EXCEPT !.inEntries = EntriesWritten(s.pre), !.outEntries = EntriesWritten(s.post)]

Type_LUT_Free(s) == <<Drop("NewLUT")>>

\* The stages of a pipeline that was read from a file.
LutDup(stages, s) ==
    LET elements == [k \in stages |->
                       CASE k = MatStage -> MatrixElemDup(k, FALSE)
                         [] k = PreStage -> CurveSetDup(k, s.in)
                         [] k = CLUTStage -> CLUTElemDup(k)
                         [] k = PostStage -> CurveSetDup(k, s.out)]
    IN  cmsPipelineDup("NewLUT", stages, elements) \o <<Return("NewLUT")>>
HasMatrix(s) == s.in = 3 /\ s.matrix = "other"
HasCLUT(s) == uipow(s.out, s.clut, s.in) > 0
Type_LUT8_Dup(s) ==
    LutDup({PreStage, PostStage} \cup (IF HasMatrix(s) THEN {MatStage} ELSE {})
           \cup (IF HasCLUT(s) THEN {CLUTStage} ELSE {}), s)
Type_LUT16_Dup(s) ==
    LutDup((IF s.inEntries > 0 THEN {PreStage} ELSE {})
           \cup (IF s.outEntries > 0 THEN {PostStage} ELSE {})
           \cup (IF HasMatrix(s) THEN {MatStage} ELSE {})
           \cup (IF HasCLUT(s) THEN {CLUTStage} ELSE {}), s)

(***************************************************************************)
(* lutAToB and lutBToA.  The parts are found by their offsets, which are   *)
(* written after them, in the place left for it; 0 is for no part.         *)
(***************************************************************************)
Parts == <<"B", "Matrix", "M", "CLUT", "A">>
Number(part) == CHOOSE k \in DOMAIN Parts : Parts[k] = part
Has(s, part) == \E k \in DOMAIN s.stages : s.stages[k] = part

\* What is written for a curve; a table when it has no parametric form.
CurveWritten(c) ==
    LET kind == IF \/ c.segments = <<>>
                   \/ Len(c.segments) = 3 /\ c.segments[2] = 0
                   \/ c.segments[1] < 0
                THEN Tabulated ELSE Parametric
    IN  [kind |-> kind,
         count |-> IF c.segments = <<1>> THEN 1 ELSE c.entries,
         type |-> IF c.segments = <<>> THEN 0 ELSE c.segments[1] - 1]

ReadEmbeddedCurve(k, f) ==
    <<GetAt("CurveType", k, 8), Require(f.kind \in {Tabulated, Parametric})>>
    \o CASE f.kind = Tabulated -> Type_Curve_Read(k, f)
         [] f.kind = Parametric -> Type_ParametricCurve_Read(k, f)
         [] OTHER -> <<>>

ReadSetOfCurves(k, n, f) ==
    <<SeekAt("position", k)>>
    \o Within(AllCurves(k, n),
              Loop(n, LAMBDA i : ReadEmbeddedCurve(Part(k, i), f) \o <<GetAlign>>)
              \o cmsStageAllocToneCurves(k, n))
    \o FreeCurves(k, n)
\* (Each curve after the other.)
WriteSetOfCurvesUnaligned(k, n, c) ==
    Loop(n, LAMBDA i : <<PutAt("CurveType", Part(k, i), 8)>> \o Type_Curve_Write(Part(k, i), c))
WriteSetOfCurves(k, n, c) ==
    Loop(n, LAMBDA i :
      <<PutAt("CurveType", Part(k, i), 8)>>
      \o (IF CurveWritten(c).kind = Tabulated THEN Type_Curve_Write(Part(k, i), c)
                                              ELSE Type_ParametricCurve_Write(Part(k, i), c))
      \o <<PutAlign>>)

ReadMatrix(k) ==
    <<SeekAt("position", k)>> \o Loop(12, LAMBDA i : <<GetAt("Matrix", i, 4)>>)
    \o cmsStageAllocMatrix(k, TRUE)
WriteMatrix == Loop(12, LAMBDA i : <<PutAt("Matrix", i, 4)>>)

Nodes(s) == s.out * s.points^s.in
Bytes(s) == IF s.precision = 1 THEN Nodes(s) ELSE 2 * Nodes(s)
ReadCLUT(k, s) ==
    <<SeekAt("position", k), Get("gridPoints", 16), Require(s.points # 1),
      Get("Precision", 1), Get("Padding", 3)>>
    \o cmsStageAllocCLut16bitGranular(k, Nodes(s))
    \o Within({MPE(k)}, <<Require(s.precision \in {1, 2}), Get("CLUT", Bytes(s))>>)
WriteCLUT(s) ==
    <<Require(~s.float), Put("gridPoints", 16), Put("Precision", 1), Put("Padding", 3),
      Put("CLUT", Bytes(s)), PutAlign>>

\* The channels of a set of curves: those on the side of the device, A, are the
\* others than those on the side of B.
ChannelsOf(s, part, inner, outer) == IF part = "A" THEN outer ELSE inner

ReadPart(s, part, n) ==
    LET k == Number(part)
    IN  CASE part = "CLUT" -> ReadCLUT(k, s)
          [] part = "Matrix" -> ReadMatrix(k)
          [] OTHER -> ReadSetOfCurves(k, n, s.file)
WritePart(s, part, n) ==
    CASE part = "CLUT" -> WriteCLUT(s)
      [] part = "Matrix" -> WriteMatrix
      [] OTHER -> WriteSetOfCurves(Number(part), n, s.curve)

ReadLut(s, order, inner, outer) ==
    <<Get("inputChan", 1), Get("outputChan", 1), Get("Padding", 2)>>
    \o Loop(5, LAMBDA i : IF Has(s, Parts[i + 1])
                          THEN <<GetVar("offset", i + 1, 4, "position", "BaseOffset")>>
                          ELSE <<GetAt("offset", i + 1, 4)>>)
    \o <<Require(s.in \in 1..(cmsMAXCHANNELS - 1) /\ s.out \in 1..(cmsMAXCHANNELS - 1))>>
    \o cmsPipelineAlloc("NewLUT", s.in, s.out)
    \o FlattenSeq([i \in 1..5 |->
         When(Has(s, order[i]),
              Insert("NewLUT", Number(order[i]), s.fits,
                     ReadPart(s, order[i], ChannelsOf(s, order[i], inner, outer))))])
    \o <<Return("NewLUT")>>

\* A and the table come first, whichever the direction.
WriteLut(s, allowed, inner, outer) ==
    <<TellAt("BaseOffset", 0, 8), Require(s.stages \in allowed),
      Put("inputChan", 1), Put("outputChan", 1), Put("Padding", 2), Tell("DirectoryPos")>>
    \o Loop(5, LAMBDA i : <<PutAt("offset", i + 1, 4)>>)
    \o FlattenSeq([i \in 1..5 |->
         LET part == <<"A", "CLUT", "M", "Matrix", "B">>[i]
         IN  When(Has(s, part), <<TellAt("position", Number(part), 0)>>
                                \o WritePart(s, part, ChannelsOf(s, part, inner, outer)))])
    \o <<Tell("CurrentPos"), Seek("DirectoryPos")>>
    \o Loop(5, LAMBDA i : IF Has(s, Parts[i + 1])
                          THEN <<PutVar("offset", i + 1, 4, "position", "BaseOffset")>>
                          ELSE <<PutAt("offset", i + 1, 4)>>)
    \o <<Seek("CurrentPos")>>

PartDup(s, inner, outer) ==
    LET stages == {Number(s.stages[i]) : i \in DOMAIN s.stages}
        elements == [k \in stages |->
          CASE Parts[k] = "CLUT" -> CLUTElemDup(k)
            [] Parts[k] = "Matrix" -> MatrixElemDup(k, TRUE)
            [] OTHER -> CurveSetDup(k, ChannelsOf(s, Parts[k], inner, outer))]
    IN  cmsPipelineDup("NewLUT", stages, elements) \o <<Return("NewLUT")>>

A2BStages == { <<>>, <<"B">>, <<"M", "Matrix", "B">>, <<"A", "CLUT", "B">>,
               <<"A", "CLUT", "M", "Matrix", "B">> }
B2AStages == { <<"B">>, <<"B", "Matrix", "M">>, <<"B", "CLUT", "A">>,
               <<"B", "Matrix", "M", "CLUT", "A">> }

Type_LUTA2B_Read(s) == ReadLut(s, <<"A", "CLUT", "M", "Matrix", "B">>, s.out, s.in)
Type_LUTA2B_Write(s) == WriteLut(s, A2BStages, s.out, s.in)
Type_LUTA2B_Dup(s) == PartDup(s, s.out, s.in)
Type_LUTB2A_Read(s) == ReadLut(s, <<"B", "Matrix", "M", "CLUT", "A">>, s.in, s.out)
Type_LUTB2A_Write(s) == WriteLut(s, B2AStages, s.in, s.out)
Type_LUTB2A_Dup(s) == PartDup(s, s.in, s.out)

\* What is read of what was written.
WrittenParts(s) == [s EXCEPT !.file = CurveWritten(s.curve)]

DecideLUTtypeA2B(ICCVersion, s) ==
    IF ICCVersion >= 4 THEN "mAB " ELSE IF s.SaveAs8Bits THEN "mft1" ELSE "mft2"
DecideLUTtypeB2A(ICCVersion, s) ==
    IF ICCVersion >= 4 THEN "mBA " ELSE IF s.SaveAs8Bits THEN "mft1" ELSE "mft2"
=============================================================================
