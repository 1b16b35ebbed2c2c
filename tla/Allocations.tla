---------------------------- MODULE Allocations ----------------------------
(***************************************************************************)
(* How stages, pipelines, tone curves, strings, colour lists, sequences    *)
(* and dictionaries are allocated and duplicated (cmslut.c, cmsgamma.c,    *)
(* cmsnamed.c).  k tells objects of a kind apart; the parts of the k-th    *)
(* are k, or 10 * k + i when it has several.  A block that holds others    *)
(* frees them with itself, as cmsStageFree, cmsPipelineFree, cmsMLUfree,   *)
(* cmsFreeNamedColorList and their like do.                                *)
(***************************************************************************)
EXTENDS Steps

cmsMAXCHANNELS == 16
Part(k, i) == 10 * k + i

(***************************************************************************)
(* Tone curves.  Elsewhere a curve is one block.                           *)
(***************************************************************************)
Curve(k) == <<NewAt("curve", k)>>
Curves(k, n) == Loop(n, LAMBDA i : Curve(Part(k, i)))
FreeCurves(k, n) == Loop(n, LAMBDA i : <<DropAt("curve", Part(k, i))>>)
AllCurves(k, n) == Bs("curve", {Part(k, i) : i \in 0..(n - 1)})

\* segments says of each segment whether it is sampled; its points are copied
\* without asking whether there was memory for them.
AllocateToneCurveStruct(entries, segments) ==
    LET sampled == {i \in DOMAIN segments : segments[i]}
        parts == B("Segments") \cup B("Evals") \cup B("Table16") \cup B("SegInterp") \cup B("p")
        part(b) == NewIn(b, 0, "p", 0)
    IN  <<Require(entries <= 65530), Require(entries > 0 \/ segments # <<>>), New("p")>>
        \o Freeing(parts, When(segments # <<>>, part("Segments") \o part("Evals"))
                          \o When(entries > 0, part("Table16"))
                          \o When(segments # <<>>, part("SegInterp")))
        \o Each(sampled, LAMBDA i :
             <<Unasked(NewAt("interp", i)), GiveAt("interp", i, "SegInterp", 0),
               Unasked(NewAt("points", i)), GiveAt("points", i, "Segments", 0)>>)
        \o Freeing(parts \cup Bs("interp", sampled) \cup Bs("points", sampled),
                   part("InterpParams"))
        \o <<Return("p")>>

(***************************************************************************)
(* Stages.                                                                 *)
(***************************************************************************)
StageAllocPlaceholder(k) == <<NewAt("mpe", k)>>

\* The parts of a stage: Data and what it holds.
StageData(k, steps) == Within({<<"mpe", k>>}, NewIn("Data", k, "mpe", k) \o steps)

cmsStageAllocIdentity(k) == StageAllocPlaceholder(k)
StageAllocLab2XYZ(k) == StageAllocPlaceholder(k)
StageAllocXYZ2Lab(k) == StageAllocPlaceholder(k)
StageClipNegatives(k) == StageAllocPlaceholder(k)

cmsStageAllocToneCurves(k, n) ==
    StageAllocPlaceholder(k)
    \o StageData(k, NewIn("TheCurves", k, "Data", k)
                    \o Loop(n, LAMBDA i : NewIn("curveOf", Part(k, i), "TheCurves", k)))
StageAllocIdentityCurves(k, n) == cmsStageAllocToneCurves(k, n)

cmsStageAllocMatrix(k, offset) ==
    StageAllocPlaceholder(k)
    \o StageData(k, NewIn("Double", k, "Data", k)
                    \o When(offset, NewIn("Offset", k, "Data", k)))
StageAllocLabV2ToV4(k) == cmsStageAllocMatrix(k, FALSE)
StageAllocLabV4ToV2(k) == cmsStageAllocMatrix(k, FALSE)
StageNormalizeFromLabFloat(k) == cmsStageAllocMatrix(k, TRUE)
StageNormalizeFromXyzFloat(k) == cmsStageAllocMatrix(k, FALSE)
StageNormalizeToLabFloat(k) == cmsStageAllocMatrix(k, TRUE)
StageNormalizeToXyzFloat(k) == cmsStageAllocMatrix(k, FALSE)

\* points is the number of nodes, 0 when CubeSize finds it too large or too small.
cmsStageAllocCLut16bitGranular(k, points) ==
    StageAllocPlaceholder(k)
    \o StageData(k, <<Require(points > 0)>> \o NewIn("Tab", k, "Data", k)
                    \o NewIn("Params", k, "Data", k))
cmsStageAllocCLut16bit(k, points) == cmsStageAllocCLut16bitGranular(k, points)
cmsStageAllocCLutFloatGranular(k, points) ==
    StageAllocPlaceholder(k)
    \o StageData(k, <<Require(points > 0)>> \o NewIn("Tab", k, "Data", k)
                    \o NewIn("Params", k, "Data", k))
StageAllocIdentityCLut(k) ==
    cmsStageAllocCLut16bitGranular(k, 2) \o <<Try("IdentitySampler") ?? {<<"mpe", k>>}>>

StageAllocLabV2ToV4curves(k) ==
    Within(AllCurves(k, 3), [i \in 1..3 |-> Anyway(NewAt("curve", Part(k, i - 1)))]
                            \o <<Try("LabTable[j] == NULL")>>
                            \o cmsStageAllocToneCurves(k, 3))
    \o FreeCurves(k, 3)

\* The curves of this one are copied into the stage, and stay.
StageAllocLabPrelin(k) ==
    [i \in 1..3 |-> Anyway(NewAt("curve", Part(k, i - 1)))] \o cmsStageAllocToneCurves(k, 3)

\* The list is duplicated first; the stage is made whether or not it was.
StageAllocNamedColor(k) ==
    <<Anyway(NewAt("Data", k)), NewAt("List", k), GiveAt("List", k, "Data", k)>>
    \o StageAllocPlaceholder(k) \o <<GiveAt("Data", k, "mpe", k)>>

\* What DupElemPtr copies, the parts of each kind of stage, is the stage's when it is
\* complete.
DupElem(k, parts) == <<NewAt("Data", k)>> \o parts \o <<GiveAt("Data", k, "mpe", k)>>
\* (With the parts in the stage while they are made.)
CurveSetDupWithin(k, n) ==
    NewIn("Data", k, "mpe", k)
    \o Within({<<"Data", k>>},
         NewIn("TheCurves", k, "Data", k)
         \o Loop(n, LAMBDA i : NewIn("curveOf", Part(k, i), "TheCurves", k)))
CurveSetDup(k, n) ==
    DupElem(k, Within({<<"Data", k>>},
      NewIn("TheCurves", k, "Data", k)
      \o Loop(n, LAMBDA i : NewIn("curveOf", Part(k, i), "TheCurves", k))))
MatrixElemDup(k, offset) ==
    DupElem(k, <<Unasked(NewAt("Double", k)), GiveAt("Double", k, "Data", k)>>
               \o When(offset, <<Unasked(NewAt("Offset", k)), GiveAt("Offset", k, "Data", k)>>))
\* (With the parameters of the original.)
CLUTElemDupSharing(k) == DupElem(k, Within({<<"Data", k>>}, NewIn("Tab", k, "Data", k)))
CLUTElemDup(k) ==
    DupElem(k, Within({<<"Data", k>>}, NewIn("Tab", k, "Data", k) \o NewIn("Params", k, "Data", k)))
DupNamedColorList(k) == DupElem(k, Within({<<"Data", k>>}, NewIn("List", k, "Data", k)))

cmsStageDup(k, elements) ==
    StageAllocPlaceholder(k) \o Within({<<"mpe", k>>}, elements)

(***************************************************************************)
(* Pipelines, which hold their stages.                                     *)
(***************************************************************************)
cmsPipelineAlloc(lut, inputs, outputs) ==
    <<Require(inputs < cmsMAXCHANNELS /\ outputs < cmsMAXCHANNELS), New(lut)>>

\* The stage is linked before the channels are looked at; of no stage, FALSE.
cmsPipelineInsertStage(lut, k, fits) == <<GiveAt("mpe", k, lut, 0), Require(fits)>>

\* Stages are copied one after the other into the new pipeline; elements[k] are the
\* steps that copy the data of the k-th.
cmsPipelineDup(lut, stages, elements) ==
    cmsPipelineAlloc(lut, 1, 1)
    \o Within(B(lut), Each(stages, LAMBDA k : cmsStageDup(k, elements[k]) \o <<GiveAt("mpe", k, lut, 0)>>))

(***************************************************************************)
(* Strings.  The k-th has entries and, unless it is empty, a pool.         *)
(***************************************************************************)
cmsMLUalloc(k) ==
    <<NewAt("mlu", k), NewAt("Entries", k) !! {<<"mlu", k>>}, GiveAt("Entries", k, "mlu", k)>>
\* Room for the text is made once; filled says whether there is some already.
AddMLUBlock(k, filled) == When(~filled, NewIn("MemPool", k, "mlu", k))
cmsMLUsetWide(k, filled) == AddMLUBlock(k, filled)
\* (A copy of the text that is forgotten when there is no room.)
cmsMLUsetASCIIKeeping(k, filled) ==
    <<NewAt("WStr", k)>> \o AddMLUBlock(k, filled) \o <<DropAt("WStr", k)>>
cmsMLUsetASCII(k, filled) ==
    <<NewAt("WStr", k)>> \o Freeing({<<"WStr", k>>}, AddMLUBlock(k, filled)) \o <<DropAt("WStr", k)>>
\* A string without text is not duplicated.
cmsMLUdup(k, filled) ==
    cmsMLUalloc(k)
    \o Within({<<"mlu", k>>}, <<Require(filled)>> \o NewIn("MemPool", k, "mlu", k))

(***************************************************************************)
(* Lists of named colours.                                                 *)
(***************************************************************************)
cmsAllocNamedColorList(colours, colorants) ==
    <<Require(colorants <= cmsMAXCHANNELS), New("v")>>
    \o When(colours > 0, Within(B("v"), NewIn("List", 0, "v", 0)))
cmsDupNamedColorList(colours, allocated) ==
    cmsAllocNamedColorList(colours, 0)
    \o When(colours = 0 /\ allocated, Within(B("v"), NewIn("List", 0, "v", 0)))

(***************************************************************************)
(* Sequences of profiles and dictionaries.                                 *)
(***************************************************************************)
cmsAllocProfileSequenceDescription(n) ==
    <<Require(n > 0 /\ n <= 255), New("Seq"), New("seq") !! B("Seq"), Give("seq", "Seq")>>

\* texts are the names of the strings of each profile.  Whether they were duplicated
\* is not asked.
cmsDupProfileSequenceDescription(n, texts) ==
    <<New("Seq")>>
    \o Within(B("Seq"), IF n = 0 THEN <<Require(FALSE)>> ELSE NewIn("seq", 0, "Seq", 0))
    \o Loop(n, LAMBDA i : Each(texts, LAMBDA m : Heedless(cmsMLUdup(Part(i, m), TRUE))
                          \o <<GiveAt("mlu", Part(i, m), "seq", 0)>>))

cmsDictAlloc == <<New("dict")>>
\* Neither are the copies of a name, a value and what is displayed for them.
cmsDictAddEntry(i, value, displayed) ==
    <<NewAt("entry", i)>>
    \o Each(displayed, LAMBDA m : Heedless(cmsMLUdup(Part(i, m), TRUE))
                         \o <<GiveAt("mlu", Part(i, m), "entry", i)>>)
    \o <<Unasked(NewAt("Name", i)), GiveAt("Name", i, "entry", i)>>
    \o When(value, <<Unasked(NewAt("Value", i)), GiveAt("Value", i, "entry", i)>>)
    \o <<GiveAt("entry", i, "dict", 0)>>
cmsDictDup(entries) ==
    cmsDictAlloc
    \o Within(B("dict"), Loop(Len(entries), LAMBDA i :
                            cmsDictAddEntry(i, entries[i + 1].value, entries[i + 1].display)))

(***************************************************************************)
(* How curves are built, joined, reversed and smoothed.  A curve is the    *)
(* types of its segments, 0 for a sampled one, or no segments and a table. *)
(***************************************************************************)
DefaultCurves == {1, 2, 3, 4, 5, 6, 7, 8, 108, 109}
GetParametricCurveByType(type) == type \in DefaultCurves \/ -type \in DefaultCurves

cmsBuildTabulatedToneCurve16(nEntries) == AllocateToneCurveStruct(nEntries, <<>>)

EntriesByGamma(isOne) == IF isOne THEN 2 ELSE 4096
\* isOne: is it a gamma of 1?
cmsBuildSegmentedToneCurve(types, isOne) ==
    AllocateToneCurveStruct(IF types = <<1>> THEN EntriesByGamma(isOne) ELSE 4096,
                            [i \in DOMAIN types |-> types[i] = 0])
cmsBuildTabulatedToneCurveFloat(nEntries) ==
    <<Require(nEntries > 0)>> \o cmsBuildSegmentedToneCurve(<<6, 0, 6>>, FALSE)
cmsBuildParametricToneCurve(type, isOne) ==
    <<Require(GetParametricCurveByType(type))>> \o cmsBuildSegmentedToneCurve(<<type>>, isOne)
cmsBuildGamma(isOne) == cmsBuildParametricToneCurve(1, isOne)
cmsDupToneCurve(nEntries, types) ==
    AllocateToneCurveStruct(nEntries, [i \in DOMAIN types |-> types[i] = 0])

\* The inverse of a formula is a formula; that of anything else, a table.
cmsReverseToneCurveEx(nResultSamples, types) ==
    IF Len(types) = 1 /\ types[1] > 0 /\ GetParametricCurveByType(types[1])
    THEN cmsBuildParametricToneCurve(-types[1], FALSE)
    ELSE cmsBuildTabulatedToneCurve16(nResultSamples)

\* (The curves it makes are one block each here.)
cmsJoinToneCurve ==
    <<New("Yreversed"), New("Res") ?? B("Yreversed"), New("out") ?? (B("Yreversed") \cup B("Res")),
      Drop("Res"), Drop("Yreversed"), Return("out")>>

\* The three arrays are asked for at once.
cmsSmoothToneCurve(nItems, linear) ==
    <<Require(linear \/ nItems < 4097)>>
    \o When(~linear,
         Within(B("w") \cup B("y") \cup B("z"),
                <<New("w"), New("y"), New("z"), Use("w"), Use("y"), Use("z"), Try("smooth2")>>)
         \o <<Drop("z"), Drop("y"), Drop("w")>>)
============================================================================
