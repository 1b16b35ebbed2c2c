---------------------------- MODULE TagTypesSets ----------------------------
(***************************************************************************)
(* The tag types of cmstypes.c that hold other objects: lists of colours,  *)
(* sequences of profiles, curves with a text, multi-process elements,      *)
(* dictionaries, video card gammas, and the private types (MHC2, cicp).    *)
(***************************************************************************)
EXTENDS TagTypesLut

(***************************************************************************)
(* Tables of positions.  t tells the tables apart; the k-th element begins *)
(* at position Part(t, k), which is kept less BaseOffset.                  *)
(***************************************************************************)
Tables(t) == {<<"ElementOffsets", t>>, <<"ElementSizes", t>>}
AllocTables(t, Count) ==
    <<Require(Count > 0), NewAt("ElementOffsets", t),
      NewAt("ElementSizes", t) ?? {<<"ElementOffsets", t>>}>>
FreeTables(t) == <<DropAt("ElementOffsets", t), DropAt("ElementSizes", t)>>
ReadTable(t, Count, base) ==
    Loop(Count, LAMBDA i : <<GetVar("offset", Part(t, i), 4, "position", base),
                             GetAt("size", Part(t, i), 4)>>)
\* The table comes first, and is written again when the elements are there.
NoTable(t, Count) ==
    Loop(Count, LAMBDA i : <<PutAt("offset", Part(t, i), 4), PutAt("size", Part(t, i), 4)>>)
WriteTable(t, Count, base) ==
    Loop(Count, LAMBDA i : <<PutVar("offset", Part(t, i), 4, "position", base),
                             PutVar("size", Part(t, i), 4, "length", "")>>)
\* (Without coming back.)
BackpatchOnly(t, steps) == <<SeekAt("DirectoryPos", t)>> \o steps
Backpatch(t, steps) ==
    <<TellAt("CurrentPos", t, 0), SeekAt("DirectoryPos", t)>> \o steps \o <<SeekAt("CurrentPos", t)>>

\* elements are the steps for each.  A file may be shorter than the count says.
ReadPositionTable(t, Count, base, elements) ==
    <<Try("ReportedSize")>> \o AllocTables(t, Count)
    \o Within(Tables(t),
              ReadTable(t, Count, base)
              \o Loop(Count, LAMBDA i : <<SeekAt("position", Part(t, i))>> \o elements[i + 1]))
    \o FreeTables(t)
WritePositionTable(t, Count, base, elements) ==
    AllocTables(t, Count)
    \o Within(Tables(t),
              <<TellAt("DirectoryPos", t, 0)>> \o NoTable(t, Count)
              \o Loop(Count, LAMBDA i : <<TellAt("position", Part(t, i), 0)>> \o elements[i + 1]
                                        \o <<Span("length", Part(t, i), "position")>>)
              \o Backpatch(t, WriteTable(t, Count, base)))
    \o FreeTables(t)

(***************************************************************************)
(* Colorants and named colours.                                            *)
(***************************************************************************)
Type_ColorantTable_Read(s) ==
    <<Get("Count", 4), Require(s.n <= cmsMAXCHANNELS)>> \o cmsAllocNamedColorList(s.n, 0)
    \o Within(B("v"), Loop(s.n, LAMBDA i : <<GetAt("Name", i, 32), GetAt("PCS", i, 6)>>))
    \o <<Return("v")>>
Type_ColorantTable_Write(s) ==
    <<Put("Count", 4)>> \o Loop(s.n, LAMBDA i : <<PutAt("Name", i, 32), PutAt("PCS", i, 6)>>)

Type_NamedColor_Read(s) ==
    <<Get("vendorFlag", 4), Get("count", 4), Get("nDeviceCoords", 4), Get("prefix", 32),
      Get("suffix", 32)>>
    \o cmsAllocNamedColorList(s.n, s.coords)
    \o Within(B("v"), Loop(s.n, LAMBDA i : <<GetAt("Root", i, 32), GetAt("PCS", i, 6),
                                             GetAt("Colorant", i, 2 * s.coords)>>))
    \o <<Return("v")>>
Type_NamedColor_Write(s) ==
    <<Put("vendorFlag", 4), Put("count", 4), Put("nDeviceCoords", 4), Put("prefix", 32),
      Put("suffix", 32)>>
    \o Loop(s.n, LAMBDA i : <<PutAt("Root", i, 32), PutAt("PCS", i, 6),
                              PutAt("Colorant", i, 2 * s.coords)>>)
Type_NamedColor_Dup(s) == cmsDupNamedColorList(s.n, FALSE) \o <<Return("v")>>
Type_NamedColor_Free(s) == <<Drop("v")>>

(***************************************************************************)
(* Sequences of profiles.  s.text is the object of every text, s.found     *)
(* what is found in the file for it.                                       *)
(***************************************************************************)
Manufacturer == 1
Model == 2
Description == 3

ReadEmbeddedText(k, f, SizeOfTag) ==
    <<GetAt("TextType", k, 8), Require(f.kind \in {Text, TextDescription, MultiLocalizedUnicode})>>
    \o CASE f.kind = Text -> Type_Text_Read(k, f, SizeOfTag)
         [] f.kind = TextDescription -> Type_Text_Description_Read(k, f, SizeOfTag)
         [] f.kind = MultiLocalizedUnicode -> Type_MLU_Read(k, f)
         [] OTHER -> <<>>
SaveDescription(k, s) ==
    <<PutAt("TextType", k, 8)>>
    \o IF s.ICCVersion < 4 THEN Type_Text_Description_Write(k, s.text)
                           ELSE Type_MLU_Write(k, s.text)
SavedText(s) ==
    [s.text EXCEPT !.kind = IF s.ICCVersion < 4 THEN TextDescription ELSE MultiLocalizedUnicode,
                   !.ascii = Max({s.text.text, 1}), !.unicode = Max({s.text.text, 1})]
WrittenTexts(s) == [s EXCEPT !.found = SavedText(s)]

Type_ProfileSequenceDesc_Read(s, SizeOfTag) ==
    LET rest(i) == SizeOfTag - 4 - 20 * (i + 1)
        fields(i) == <<GetAt("deviceMfg", i, 4), GetAt("deviceModel", i, 4),
                       GetAt("attributes", i, 8), GetAt("technology", i, 4), Require(rest(i) >= 0)>>
        text(i, m) == ReadEmbeddedText(Part(i, m), s.found, rest(i))
                      \o <<GiveAt("mlu", Part(i, m), "seq", 0)>>
    IN  <<Get("Count", 4), Require(SizeOfTag >= 4)>>
        \o cmsAllocProfileSequenceDescription(s.n)
        \o Within(B("Seq"), Loop(s.n, LAMBDA i : fields(i) \o text(i, Manufacturer) \o text(i, Model)))
        \o <<Return("Seq")>>
Type_ProfileSequenceDesc_Write(s) ==
    <<Put("Count", 4)>>
    \o Loop(s.n, LAMBDA i :
         <<PutAt("deviceMfg", i, 4), PutAt("deviceModel", i, 4), PutAt("attributes", i, 8),
           PutAt("technology", i, 4)>>
         \o SaveDescription(Part(i, Manufacturer), s) \o SaveDescription(Part(i, Model), s))
Type_ProfileSequenceDesc_Dup(s) ==
    cmsDupProfileSequenceDescription(s.n, {Manufacturer, Model}) \o <<Return("Seq")>>
Type_ProfileSequenceDesc_Free(s) == <<Drop("Seq")>>

ReadSeqID(i, s, SizeOfTag) ==
    <<GetAt("ProfileID", i, 16)>> \o ReadEmbeddedText(Part(i, Description), s.found, SizeOfTag)
    \o <<GiveAt("mlu", Part(i, Description), "seq", 0)>>
WriteSeqID(i, s) == <<PutAt("ProfileID", i, 16)>> \o SaveDescription(Part(i, Description), s)
Type_ProfileSequenceId_Read(s, SizeOfTag) ==
    <<TellAt("BaseOffset", 0, 8), Get("Count", 4)>> \o cmsAllocProfileSequenceDescription(s.n)
    \o Within(B("Seq"), ReadPositionTable(0, s.n, "BaseOffset", [i \in 1..s.n |-> ReadSeqID(i - 1, s, SizeOfTag)]))
    \o <<Return("Seq")>>
Type_ProfileSequenceId_Write(s) ==
    <<TellAt("BaseOffset", 0, 8), Put("Count", 4)>>
    \o WritePositionTable(0, s.n, "BaseOffset", [i \in 1..s.n |-> WriteSeqID(i - 1, s)])
Type_ProfileSequenceId_Dup(s) ==
    cmsDupProfileSequenceDescription(s.n, {Description}) \o <<Return("Seq")>>

(***************************************************************************)
(* Under colour removal: two curves, of which s.ucr and s.bg are the       *)
(* entries, and a text that fills the tag.                                 *)
(***************************************************************************)
Ucr == 1
Bg == 2
Type_UcrBg_Read(s, SizeOfTag) ==
    LET rest == SizeOfTag - 4 - 2 * s.ucr - 4 - 2 * s.bg
        curve(c, n) == <<Require(n > 0), NewAt("curve", c), GiveAt("curve", c, "n", 0)>>
    IN  <<New("n"), Overlooked(Require(SizeOfTag >= 4)), Overlooked(Get("CountUcr", 4))>>
        \o Within(B("n"),
             curve(Ucr, s.ucr) \o <<Require(SizeOfTag - 4 >= 2 * s.ucr), Get("Ucr", 2 * s.ucr),
                                    Require(SizeOfTag - 8 - 2 * s.ucr >= 0), Get("CountBg", 4)>>
             \o curve(Bg, s.bg) \o <<Require(rest >= 0), Get("Bg", 2 * s.bg), Require(rest <= 32000)>>
             \o cmsMLUalloc(0)
             \o <<Give("mlu", "n"), Unasked(New("ASCIIString")), Use("ASCIIString"),
                  Get("Desc", rest) ?? B("ASCIIString")>>)
        \o Heedless(cmsMLUsetASCII(0, FALSE)) \o <<Drop("ASCIIString"), Return("n")>>
Type_UcrBg_Write(s) ==
    <<Put("CountUcr", 4), Put("Ucr", 2 * s.ucr), Put("CountBg", 4), Put("Bg", 2 * s.bg),
      Unasked(New("Text")), Use("Text"), Overlooked(Put("Desc", s.text)), Drop("Text")>>
Type_UcrBg_Dup(s) ==
    <<New("n"), Unasked(NewAt("curve", Bg)), GiveAt("curve", Bg, "n", 0),
      Unasked(NewAt("curve", Ucr)), GiveAt("curve", Ucr, "n", 0)>>
    \o Heedless(cmsMLUdup(0, TRUE)) \o <<Give("mlu", "n"), Return("n")>>
Type_UcrBg_Free(s) == <<Drop("n")>>

(***************************************************************************)
(* Names of colour rendering dictionaries: five texts of one object.       *)
(***************************************************************************)
Sections == 5
ReadCountAndString(i, s) ==
    <<GetAt("Count", i, 4), Require(s.fits), NewAt("Text", i),
      GetAt("Text", i, s.text) ?? {<<"Text", i>>}>>
    \o Heedless(When(i = 0, AddMLUBlock(0, FALSE))) \o <<DropAt("Text", i)>>
WriteCountAndString(i, s) ==
    <<Unasked(NewAt("Text", i)), Overlooked(PutAt("Count", i, 4)), UseAt("Text", i),
      Overlooked(PutAt("Text", i, s.text)), DropAt("Text", i)>>
Type_CrdInfo_Read(s) ==
    Heedless(cmsMLUalloc(0))
    \o Within(B("mlu"), Loop(Sections, LAMBDA i : ReadCountAndString(i, s))) \o <<Return("mlu")>>
Type_CrdInfo_Write(s) == Loop(Sections, LAMBDA i : WriteCountAndString(i, s))
Type_CrdInfo_Dup(s) == cmsMLUdup(0, TRUE) \o <<Return("mlu")>>

(***************************************************************************)
(* Screening, viewing conditions, video signals.                           *)
(***************************************************************************)
\* A file with more channels than there is room for is read as far.
ScreeningChannels(s) == Min({s.n, cmsMAXCHANNELS - 1})
Type_Screening_Read(s) ==
    <<New("sc")>>
    \o Within(B("sc"), <<Get("Flag", 4), Get("nChannels", 4)>>
                       \o Loop(ScreeningChannels(s), LAMBDA i : <<GetAt("Channel", i, 12)>>))
    \o <<Return("sc")>>
Type_Screening_Write(s) ==
    <<Put("Flag", 4), Put("nChannels", 4)>> \o Loop(s.n, LAMBDA i : <<PutAt("Channel", i, 12)>>)
Type_Screening_Dup(s) == <<New("sc"), Return("sc")>>
Type_Screening_Free(s) == <<Drop("sc")>>

Type_ViewingConditions_Read(s) ==
    <<New("vc")>>
    \o Within(B("vc"), <<Get("IlluminantXYZ", 12), Get("SurroundXYZ", 12), Get("IlluminantType", 4)>>)
    \o <<Return("vc")>>
Type_ViewingConditions_Write(s) ==
    <<Put("IlluminantXYZ", 12), Put("SurroundXYZ", 12), Put("IlluminantType", 4)>>
Type_ViewingConditions_Dup(s) == <<New("vc"), Return("vc")>>
Type_ViewingConditions_Free(s) == <<Drop("vc")>>

Codes == 4
Type_VideoSignal_Read(s, SizeOfTag) ==
    <<Require(SizeOfTag = 4), New("cicp")>>
    \o Within(B("cicp"), Loop(Codes, LAMBDA i : <<GetAt("code", i, 1)>>)) \o <<Return("cicp")>>
Type_VideoSignal_Write(s) == Loop(Codes, LAMBDA i : <<PutAt("code", i, 1)>>)
Type_VideoSignal_Dup(s) == <<New("cicp"), Return("cicp")>>
Type_VideoSignal_Free(s) == <<Drop("cicp")>>

(***************************************************************************)
(* Multi-process elements.  s.elements are the stages: kind, channels n,   *)
(* and the segments of each curve, points of a sampled one.                *)
(***************************************************************************)
Formulas == <<4, 5, 5>>
Sampled == 0

\* The break points, then the segments.  A curve that was not built is used.
ReadSegmentedCurve(c, f) ==
    LET segments == Len(f.segments)
        Segment(j) ==
          LET at == Part(c, j)
              type == f.segments[j + 1]
          IN  <<GetAt("ElementSig", at, 8)>>
              \o (IF type = Sampled
                  THEN <<GetAt("GridPoints", at, 4), Require(f.points >= 0),
                         NewAt("SampledPoints", at), GiveAt("SampledPoints", at, "Segments", c),
                         GetAt("Points", at, 4 * (f.points - 1))>>
                  ELSE <<GetAt("Type", at, 4), Require(type \in 6..8)>>
                       \o When(type \in 6..8, <<GetAt("Params", at, 4 * Formulas[type - 5])>>))
    IN  <<GetAt("CurveSig", c, 4), Require(f.segmented), GetAt("reserved", c, 4),
          GetAt("nSegments", c, 4), Require(segments >= 1), NewAt("Segments", c)>>
        \o Within({<<"Segments", c>>},
                  Loop(segments - 1, LAMBDA j : <<GetAt("x1", Part(c, j), 4)>>)
                  \o Loop(segments, Segment))
        \o <<Unasked(NewAt("curve", c)), DropAt("Segments", c), UseAt("curve", c)>>
\* Without segments, those that are not there are used.
WriteSegmentedCurve(c, f) ==
    LET segments == Len(f.segments)
        Segment(j) ==
          LET at == Part(c, j)
              type == f.segments[j + 1]
          IN  <<PutAt("ElementSig", at, 8)>>
              \o (IF type = Sampled
                  THEN <<PutAt("GridPoints", at, 4), PutAt("Points", at, 4 * (f.points - 1))>>
                  ELSE <<Require(type \in 6..8), PutAt("Type", at, 4)>>
                       \o When(type \in 6..8, <<PutAt("Params", at, 4 * Formulas[type - 5])>>))
    IN  <<PutAt("CurveSig", c, 4), PutAt("reserved", c, 4), PutAt("nSegments", c, 4)>>
        \o When(segments = 0, <<UseAt("Segments", c)>>)
        \o Loop(segments - 1, LAMBDA j : <<PutAt("x1", Part(c, j), 4)>>)
        \o Loop(segments, Segment)

\* The curves of an element are found by a table of their own.
Type_MPEcurve_Read(k, e) ==
    <<TellAt("ElementBase", 0, 8), GetAt("InputChans", k, 2), GetAt("OutputChans", k, 2),
      Require(e.in = e.out), Require(e.in > 0), NewAt("GammaTables", k)>>
    \o Within(AllCurves(k, e.in) \cup {<<"GammaTables", k>>},
              ReadPositionTable(k, e.in, "ElementBase", [i \in 1..e.in |-> ReadSegmentedCurve(Part(k, i - 1), e)])
              \o cmsStageAllocToneCurves(k, e.in))
    \o FreeCurves(k, e.in) \o <<DropAt("GammaTables", k)>>
Type_MPEcurve_Write(k, e) ==
    <<TellAt("ElementBase", 0, 8), PutAt("InputChans", k, 2), PutAt("OutputChans", k, 2)>>
    \o WritePositionTable(k, e.in, "ElementBase", [i \in 1..e.in |-> WriteSegmentedCurve(Part(k, i - 1), e)])

Type_MPEmatrix_Read(k, e) ==
    <<GetAt("InputChans", k, 2), GetAt("OutputChans", k, 2),
      Require(e.in < cmsMAXCHANNELS /\ e.out < cmsMAXCHANNELS), Require(e.in > 0 /\ e.out > 0),
      NewAt("Matrix", k), NewAt("Offsets", k) ?? {<<"Matrix", k>>}>>
    \o Within({<<"Matrix", k>>, <<"Offsets", k>>},
              <<GetAt("Elems", k, 4 * e.in * e.out), GetAt("Offset", k, 4 * e.out)>>
              \o cmsStageAllocMatrix(k, TRUE))
    \o <<DropAt("Matrix", k), DropAt("Offsets", k)>>
Type_MPEmatrix_Write(k, e) ==
    <<PutAt("InputChans", k, 2), PutAt("OutputChans", k, 2), PutAt("Elems", k, 4 * e.in * e.out),
      PutAt("Offset", k, 4 * e.out)>>

Type_MPEclut_Read(k, e) ==
    <<GetAt("InputChans", k, 2), GetAt("OutputChans", k, 2),
      Require(e.in \in 1..(cmsMAXCHANNELS - 1) /\ e.out \in 1..(cmsMAXCHANNELS - 1)),
      GetAt("Dimensions8", k, 16), Require(e.points # 1)>>
    \o cmsStageAllocCLutFloatGranular(k, Nodes(e))
    \o Within({MPE(k)}, <<GetAt("TFloat", k, 4 * Nodes(e))>>)
Type_MPEclut_Write(k, e) ==
    <<Require(e.in < cmsMAXCHANNELS), Require(e.float), PutAt("InputChans", k, 2),
      PutAt("OutputChans", k, 2), PutAt("Dimensions8", k, 16), PutAt("TFloat", k, 4 * Nodes(e))>>

\* The elements that begin and end a conversion for devices are passed over.
Ignored == {"BAcs", "EAcs"}
SupportedMPEtypes == {"MPEcurve", "MPEmatrix", "MPEclut"} \cup Ignored
ReadMPEElem(k, e, fits) ==
    <<GetAt("StageSig", k, 8), Require(e.kind \in SupportedMPEtypes)>>
    \o When(e.kind \notin Ignored,
            (CASE e.kind = "MPEcurve" -> Type_MPEcurve_Read(k, e)
               [] e.kind = "MPEmatrix" -> Type_MPEmatrix_Read(k, e)
               [] e.kind = "MPEclut" -> Type_MPEclut_Read(k, e)
               [] OTHER -> <<>>)
            \o cmsPipelineInsertStage("NewLUT", k, fits))
WriteMPEElem(k, e) ==
    <<Require(e.kind \in SupportedMPEtypes), PutAt("StageSig", k, 8)>>
    \o CASE e.kind = "MPEcurve" -> Type_MPEcurve_Write(k, e)
         [] e.kind = "MPEmatrix" -> Type_MPEmatrix_Write(k, e)
         [] e.kind = "MPEclut" -> Type_MPEclut_Write(k, e)
         [] OTHER -> <<>>

\* The first channels and the last must be those that the header gives.
Type_MPE_Read(s) ==
    <<TellAt("BaseOffset", 0, 8), Get("InputChans", 2), Get("OutputChans", 2),
      Require(s.in \in 1..(cmsMAXCHANNELS - 1) /\ s.out \in 1..(cmsMAXCHANNELS - 1))>>
    \o cmsPipelineAlloc("NewLUT", s.in, s.out)
    \o Within(B("NewLUT"),
              <<Get("ElementCount", 4)>>
              \o ReadPositionTable(0, Len(s.elements), "BaseOffset",
                                   [i \in DOMAIN s.elements |-> ReadMPEElem(i, s.elements[i], s.fits)])
              \o <<Require(s.fits)>>)
    \o <<Return("NewLUT")>>
\* The sizes of the elements count what aligns the next one.
Type_MPE_Write(s) ==
    LET ElemCount == Len(s.elements)
    IN  <<TellAt("BaseOffset", 0, 8)>>
        \o AllocTables(0, ElemCount)
        \o Within(Tables(0),
             <<Put("InputChans", 2), Put("OutputChans", 2), Put("ElementCount", 4),
               TellAt("DirectoryPos", 0, 0)>>
             \o NoTable(0, ElemCount)
             \o Loop(ElemCount, LAMBDA i :
                  <<TellAt("position", Part(0, i), 0)>> \o WriteMPEElem(i + 1, s.elements[i + 1])
                  \o <<PutAlign, Span("length", Part(0, i), "position")>>)
             \o Backpatch(0, WriteTable(0, ElemCount, "BaseOffset")))
        \o FreeTables(0)
GenericMPEdup(k, e) ==
    CASE e.kind = "MPEcurve" -> CurveSetDup(k, e.in)
      [] e.kind = "MPEmatrix" -> MatrixElemDup(k, TRUE)
      [] e.kind = "MPEclut" -> CLUTElemDup(k)
      [] OTHER -> <<>>
Type_MPE_Dup(s) ==
    cmsPipelineDup("NewLUT", {k \in DOMAIN s.elements : s.elements[k].kind \notin Ignored},
                   [k \in DOMAIN s.elements |-> GenericMPEdup(k, s.elements[k])])
    \o <<Return("NewLUT")>>

(***************************************************************************)
(* Gammas of video cards: three curves, as tables or as formulas.          *)
(***************************************************************************)
Formula == 5
Type_vcgt_Read(s) ==
    <<Get("TagType", 4), New("Curves")>>
    \o Within(B("Curves"),
         CASE s.gamma = "table" ->
                <<Get("nChannels", 2), Require(s.channels = 3), Get("nElems", 2), Get("nBytes", 2)>>
                \o Loop(3, LAMBDA n : NewIn("curve", n, "Curves", 0)
                                      \o <<Require(s.width \in {1, 2}),
                                           GetAt("Table16", n, s.entries * s.width)>>)
           [] s.gamma = "formula" ->
                Loop(3, LAMBDA n : <<GetAt("Gamma", n, 12)>> \o NewIn("curve", n, "Curves", 0))
           [] OTHER -> <<Require(FALSE)>>)
    \o <<Return("Curves")>>
\* Whatever the curves are, a table is written with 256 entries of two bytes.
Type_vcgt_Write(s) ==
    IF s.segments = <<Formula>>
    THEN <<Put("TagType", 4)>> \o Loop(3, LAMBDA n : <<PutAt("Gamma", n, 12)>>)
    ELSE <<Put("TagType", 4), Put("nChannels", 2), Put("nElems", 2), Put("nBytes", 2)>>
         \o Loop(3, LAMBDA n : <<PutAt("Table16", n, 512)>>)
WrittenGamma(s) ==
    [s EXCEPT !.gamma = IF s.segments = <<Formula>> THEN "formula" ELSE "table",
              !.entries = 256, !.width = 2, !.channels = 3]
Type_vcgt_Dup(s) ==
    <<New("Curves")>>
    \o Loop(3, LAMBDA n : <<Unasked(NewAt("curve", n)), GiveAt("curve", n, "Curves", 0)>>)
    \o <<Return("Curves")>>
Type_vcgt_Free(s) == <<Drop("Curves")>>

(***************************************************************************)
(* Dictionaries.  s.entries says of each entry whether it has a value, and *)
(* what is displayed for its name and its value.                           *)
(***************************************************************************)
Name == 1
Value == 2
DisplayName == 3
DisplayValue == 4

AllocArray(present) ==
    Each(present, LAMBDA e : AllocTables(e, 1))
ArrayBlocks(present) == UNION {Tables(e) : e \in present}
FreeArray(present) == Each(present, FreeTables)

\* The record of an entry has two fields, three with a name displayed, four with a
\* value displayed too: what is counted, not which.
Displayed(s) == UNION {s.entries[i].display : i \in DOMAIN s.entries}
RecordOf(s) == 1..(2 + Cardinality(Displayed(s)))
TextOf(i, e) == 100 + Part(i, e)
In(s, i, e) == CASE e = Name -> TRUE
                 [] e = Value -> s.entries[i + 1].value
                 [] OTHER -> e \in s.entries[i + 1].display

ReadOneElem(i, e, there) ==
    IF there THEN <<GetVar("offset", Part(e, i), 4, "position", "BaseOffset"), GetAt("size", Part(e, i), 4)>>
             ELSE <<GetAt("offset", Part(e, i), 4), GetAt("size", Part(e, i), 4)>>
ReadOneWChar(i, e, s) ==
    When(In(s, i, e),
         <<SeekAt("position", Part(e, i)), NewAt("WCS", Part(e, i)),
           ReadWCharArray("String", Part(e, i), s.length) ?? {<<"WCS", Part(e, i)>>}>>)
ReadOneMLUC(i, e, s) ==
    When(In(s, i, e), <<SeekAt("position", Part(e, i))>> \o Type_MLU_Read(TextOf(i, e), s.text))

Type_Dictionary_Read(s, SizeOfTag) ==
    LET Count == Len(s.entries)
        record == RecordOf(s)
        strings(i) == {<<"WCS", Part(e, i)>> : e \in {Name, Value}}
        text(i, e) == When(e \in record, ReadOneMLUC(i, e, s))
        kept(i, e) == {<<"mlu", TextOf(i, e)>>}
        entry(i) ==
          Within(strings(i),
            ReadOneWChar(i, Name, s) \o ReadOneWChar(i, Value, s) \o text(i, DisplayName)
            \o Within(kept(i, DisplayName),
                 text(i, DisplayValue)
                 \o Within(kept(i, DisplayValue),
                      <<Require(In(s, i, Value))>>
                      \o cmsDictAddEntry(i, TRUE, s.entries[i + 1].display))))
          \o <<DropAt("WCS", Part(Name, i)), DropAt("WCS", Part(Value, i))>>
          \o Each(s.entries[i + 1].display, LAMBDA e : <<DropAt("mlu", TextOf(i, e))>>)
    IN  <<TellAt("BaseOffset", 0, 8), Require(SizeOfTag >= 4), Get("Count", 4),
          Require(SizeOfTag >= 8), Get("Length", 4), Require(s.known)>>
        \o cmsDictAlloc
        \o Within(B("dict") \cup ArrayBlocks(record),
             <<Require(Count > 0)>> \o AllocArray(record)
             \o <<Require(SizeOfTag - 8 >= 8 * Cardinality(record) * Count)>>
             \o Loop(Count, LAMBDA i : Each(record, LAMBDA e : ReadOneElem(i, e, In(s, i, e))))
             \o Loop(Count, entry))
        \o FreeArray(record) \o <<Return("dict")>>

\* Written twice: before the positions are known, and after.
WriteOffsetArray(s, known) ==
    Loop(Len(s.entries), LAMBDA i : Each(RecordOf(s), LAMBDA e :
        IF known /\ In(s, i, e)
        THEN <<PutVar("offset", Part(e, i), 4, "position", "BaseOffset"),
               PutVar("size", Part(e, i), 4, "length", "")>>
        ELSE <<PutAt("offset", Part(e, i), 4), PutAt("size", Part(e, i), 4)>>))
Type_Dictionary_Write(s) ==
    LET record == RecordOf(s)
        written(i, e, steps) ==
          When(In(s, i, e), <<TellAt("position", Part(e, i), 0)>> \o steps
                            \o <<Span("length", Part(e, i), "position")>>)
        entry(i) ==
          written(i, Name, <<WriteWCharArray("String", Part(Name, i), s.length)>>)
          \o written(i, Value, <<WriteWCharArray("String", Part(Value, i), s.length)>>)
          \o Each({DisplayName, DisplayValue},
                  LAMBDA e : written(i, e, Type_MLU_Write(TextOf(i, e), s.text)))
    IN  <<TellAt("BaseOffset", 0, 8), Put("Count", 4), Put("Length", 4),
          TellAt("DirectoryPos", 0, 0), Require(s.entries # <<>>)>>
        \o Within(ArrayBlocks(record),
             AllocArray(record) \o WriteOffsetArray(s, FALSE) \o Loop(Len(s.entries), entry)
             \o Backpatch(0, WriteOffsetArray(s, TRUE)))
        \o FreeArray(record)
Type_Dictionary_Dup(s) ==
    cmsDictDup(s.entries) \o <<Return("dict")>>
Type_Dictionary_Free(s) == <<Drop("dict")>>

(***************************************************************************)
(* MHC2: a matrix, unless it is the identity, and three tables.            *)
(***************************************************************************)
Tables3 == 1..3
MatrixPart == 4
Type_MHC2_Read(s) ==
    <<TellAt("BaseOffset", 0, 8), New("mhc2")>>
    \o Within(B("mhc2"),
         <<Get("CurveEntries", 4), Require(s.n \in 1..4096)>>
         \o Each(Tables3, LAMBDA i : NewIn("Curve", i, "mhc2", 0))
         \o <<Get("MinLuminance", 4), Get("PeakLuminance", 4),
              IF s.identity THEN GetAt("offset", MatrixPart, 4)
                            ELSE GetVar("offset", MatrixPart, 4, "position", "BaseOffset")>>
         \o Each(Tables3, LAMBDA i : <<GetVar("offset", i, 4, "position", "BaseOffset")>>)
         \o When(~s.identity,
                 <<TellAt("At", 0, 0), SeekAt("position", MatrixPart), Get("XYZ2XYZmatrix", 48),
                   SeekAt("At", 0)>>)
         \o Each(Tables3, LAMBDA i :
              <<TellAt("At", i, 0), SeekAt("position", i), GetAt("TableType", i, 8),
                GetAt("Table", i, 4 * s.n), SeekAt("At", i)>>))
    \o <<Return("mhc2")>>
\* The cursor stays behind the offsets.
Type_MHC2_Write(s) ==
    <<TellAt("BaseOffset", 0, 8), Put("CurveEntries", 4), Put("MinLuminance", 4),
      Put("PeakLuminance", 4), Tell("TablesOffsetPos"), PutAt("offset", MatrixPart, 4)>>
    \o Each(Tables3, LAMBDA i : <<PutAt("offset", i, 4)>>)
    \o When(~s.identity, <<TellAt("position", MatrixPart, 0), Put("XYZ2XYZmatrix", 48)>>)
    \o Each(Tables3, LAMBDA i : <<TellAt("position", i, 0), PutAt("TableType", i, 8),
                                  PutAt("Table", i, 4 * s.n)>>)
    \o <<Seek("TablesOffsetPos"),
         IF s.identity THEN PutAt("offset", MatrixPart, 4)
                       ELSE PutVar("offset", MatrixPart, 4, "position", "BaseOffset")>>
    \o Each(Tables3, LAMBDA i : <<PutVar("offset", i, 4, "position", "BaseOffset")>>)
Type_MHC2_Dup(s) ==
    <<Unasked(New("mhc2")), Use("mhc2")>>
    \o Within(B("mhc2"), Each(Tables3, LAMBDA i : NewIn("Curve", i, "mhc2", 0)))
    \o <<Return("mhc2")>>
Type_MHC2_Free(s) == <<Drop("mhc2")>>
=============================================================================
