------------------------------- MODULE Stages -------------------------------
(***************************************************************************)
(* Pipelines of stages (cmslut.c).                                         *)
(*                                                                         *)
(* What a stage computes is a word: a sequence of the parts of profiles    *)
(* that a colour goes through, in which a part and its inverse cancel.     *)
(* What its numbers mean before and after it is an encoding: one of the    *)
(* ways to write Lab or XYZ, or a device space.  A stage that only changes *)
(* the encoding has the empty word.                                        *)
(***************************************************************************)
EXTENDS Integers, Sequences, SequencesExt, Functions

cmsChannelsOfColorSpace ==
    [GRAY |-> 1, named |-> 1, RGB |-> 3, Lab |-> 3, XYZ |-> 3, CMYK |-> 4, MCH4 |-> 4]

\* What the numbers of a colour space are written as: tables of 16 bits have the Lab
\* of version 2, and floating point ones plain numbers; in between and in buffers it
\* is that of version 4.
Encoding(space, type) ==
    CASE space = "Lab" /\ type = "Lut16" -> "Lab2"
      [] space = "Lab" /\ type = "MPE" -> "LabFloat"
      [] space = "Lab" /\ type \notin {"Lut16", "MPE"} -> "Lab4"
      [] space = "XYZ" /\ type = "MPE" -> "XYZFloat"
      [] space = "MCH4" -> "CMYK"
      [] OTHER -> space

(***************************************************************************)
(* Words.                                                                  *)
(***************************************************************************)
Forth(p, part) == <<<<p, part, 0, "forth">>>>
Back(p, part) == <<<<p, part, 0, "back">>>>
Once(p, part, k) == <<<<p, part, k, "once">>>>     \* has no inverse
Undoes(a, b) == {a[4], b[4]} = {"forth", "back"} /\ SubSeq(a, 1, 3) = SubSeq(b, 1, 3)
Reduced(word) ==
    FoldLeft(LAMBDA r, a : IF r # <<>> /\ Undoes(a, Last(r)) THEN Front(r) ELSE Append(r, a),
             <<>>, word)

(***************************************************************************)
(* Stages.  A stage's type says how it is evaluated, Implements what for.  *)
(***************************************************************************)
_cmsStageAllocPlaceholder(type, in, out, from, to, word) ==
    [Type |-> type, Implements |-> type, InputChannels |-> in, OutputChannels |-> out,
     from |-> from, to |-> to, word |-> word, Offset |-> FALSE, white |-> FALSE]
cmsStageAllocIdentity(n, encoding) ==
    _cmsStageAllocPlaceholder("Identity", n, n, encoding, encoding, <<>>)
cmsStageAllocToneCurves(n, from, to, word) == _cmsStageAllocPlaceholder("Curves", n, n, from, to, word)
cmsStageAllocMatrix(in, out, from, to, word, offset) ==
    [_cmsStageAllocPlaceholder("Matrix", in, out, from, to, word) EXCEPT !.Offset = offset]
cmsStageAllocCLut16bit(in, out, from, to, word) == _cmsStageAllocPlaceholder("CLut", in, out, from, to, word)
_cmsStageAllocNamedColor(n, to, word) == _cmsStageAllocPlaceholder("NamedColor", 1, n, "named", to, word)
_cmsStageClipNegatives(n, encoding) ==
    _cmsStageAllocPlaceholder("ClipNegatives", n, n, encoding, encoding, <<>>)
_cmsStageAllocXYZ2Lab == _cmsStageAllocPlaceholder("XYZ2Lab", 3, 3, "XYZ", "Lab4", <<>>)
_cmsStageAllocLab2XYZ == _cmsStageAllocPlaceholder("Lab2XYZ", 3, 3, "Lab4", "XYZ", <<>>)

\* These are matrices, and say what they are for.
Conversion(for, from, to, offset) ==
    [cmsStageAllocMatrix(3, 3, from, to, <<>>, offset) EXCEPT !.Implements = for]
_cmsStageAllocLabV2ToV4 == Conversion("LabV2toV4", "Lab2", "Lab4", FALSE)
_cmsStageAllocLabV4ToV2 == Conversion("LabV4toV2", "Lab4", "Lab2", FALSE)
_cmsStageNormalizeFromLabFloat == Conversion("Lab2FloatPCS", "LabFloat", "Lab4", TRUE)
_cmsStageNormalizeFromXyzFloat == Conversion("XYZ2FloatPCS", "XYZFloat", "XYZ", FALSE)
_cmsStageNormalizeToLabFloat == Conversion("FloatPCS2Lab", "Lab4", "LabFloat", TRUE)
_cmsStageNormalizeToXyzFloat == Conversion("FloatPCS2XYZ", "XYZ", "XYZFloat", FALSE)

\* Nothing is changed: tone curves that are lines, a matrix that is the identity.
IsIdentity(stage) == Reduced(stage.word) = <<>> /\ stage.from = stage.to /\ ~stage.Offset

(***************************************************************************)
(* Pipelines: stages, and a function that evaluates 16-bit colours on data *)
(* of its own; that data is the pipeline, or what an optimisation made.    *)
(***************************************************************************)
Itself == [word |-> <<>>, kind |-> "itself"]
cmsPipelineAlloc(in, out) ==
    [InputChannels |-> in, OutputChannels |-> out, Elements |-> <<>>,
     Eval16Fn |-> "_LUTeval16", Data |-> Itself]
\* There is none.
NULL == [cmsPipelineAlloc(0, 0) EXCEPT !.Eval16Fn = "NULL"]
_cmsPipelineSetOptimizationParameters(lut, fn, word, kind) ==
    [lut EXCEPT !.Eval16Fn = fn, !.Data = [word |-> word, kind |-> kind]]

\* The channels of the ends, when there are any, and whether the others agree.
Blessed(lut) ==
    IF lut.Elements = <<>> THEN lut
    ELSE [lut EXCEPT !.InputChannels = lut.Elements[1].InputChannels,
                     !.OutputChannels = Last(lut.Elements).OutputChannels]
Consistent(lut) ==
    \A k \in 1..Len(lut.Elements) - 1 :
        lut.Elements[k + 1].InputChannels = lut.Elements[k].OutputChannels

AT_BEGIN == "cmsAT_BEGIN"
AT_END == "cmsAT_END"
\* A stage that does not fit is in the pipeline all the same, and the caller is told.
cmsPipelineInsertStage(lut, loc, stage) ==
    Blessed([lut EXCEPT !.Elements = IF loc = AT_BEGIN THEN <<stage>> \o @ ELSE Append(@, stage)])
cmsPipelineUnlinkStage(lut, loc) ==
    Blessed([lut EXCEPT !.Elements = IF loc = AT_BEGIN THEN Tail(@) ELSE Front(@)])
\* Mutant: stages are inserted at the beginning.
cmsPipelineCatBefore(l1, l2) ==
    IF l1.Elements = <<>> THEN l2 ELSE Blessed([l1 EXCEPT !.Elements = l2.Elements \o @])
cmsPipelineCat(l1, l2) ==
    LET of == IF l1.Elements = <<>> /\ l2.Elements = <<>> THEN l2 ELSE l1
    IN  Blessed([l1 EXCEPT !.InputChannels = of.InputChannels, !.OutputChannels = of.OutputChannels,
                           !.Elements = @ \o l2.Elements])

\* A copy has copies of the stages, and of the data if there is a function to make
\* one; if there is none, the function of the copy is given the copy.
cmsPipelineDup(lut) == [lut EXCEPT !.Data = IF @.kind = "duplicated" THEN @ ELSE Itself]

\* What the stages and what the function for 16 bits compute.
Word(lut) == Reduced(FlattenSeq([k \in DOMAIN lut.Elements |-> lut.Elements[k].word]))
Word16(lut) ==
    CASE lut.Data # Itself -> Reduced(lut.Data.word)
      [] lut.Data = Itself /\ lut.Eval16Fn = "_LUTeval16" -> Word(lut)
      [] lut.Data = Itself /\ lut.Eval16Fn = "FastIdentity16" -> <<>>
      [] OTHER -> <<"garbage">>

cmsPipelineCheckAndRetreiveStages(lut, types) ==
    Len(lut.Elements) = Len(types) /\ \A k \in DOMAIN types : lut.Elements[k].Type = types[k]

\* Each stage is given what the one before it gives.
StagesMeet(lut) ==
    /\ Consistent(lut)
    /\ \A k \in 1..Len(lut.Elements) - 1 : lut.Elements[k].to = lut.Elements[k + 1].from
=============================================================================
