------------------------------ MODULE Optimisers ------------------------------
(***************************************************************************)
(* What may be done to a pipeline so that it is faster (cmsopt.c).  A pixel*)
(* format is a record: its space ("any" if it does not say), the bytes of a*)
(* channel, whether it is floating point, and planar.                      *)
(***************************************************************************)
EXTENDS Stages

_cmsFormatterIsFloat(f) == f.float
_cmsFormatterIs8bit(f) == f.bytes = 1

(***************************************************************************)
(* Stages that undo each other are taken out, in one pass over the list.   *)
(* After a pair is gone the next stage is compared with the ones after it. *)
(***************************************************************************)
With(lut, elements) == Blessed([lut EXCEPT !.Elements = elements])

_Remove1Op(elements, op) ==
    FoldLeft(LAMBDA kept, stage : IF stage.Implements = op THEN kept ELSE Append(kept, stage),
             <<>>, elements)

\* The stages passed, and the one that waits to be compared.
Passed(p) == p.done \o p.last
Unpassed == [done |-> <<>>, last |-> <<>>, stop |-> FALSE]

\* Mutant: the second of a pair may be anything.
_Remove2OpOfOne(elements, op1, op2) ==
    Passed(FoldLeft(LAMBDA p, stage :
        IF p.last # <<>> /\ p.last[1].Implements = op1
        THEN [p EXCEPT !.last = <<>>]
        ELSE [p EXCEPT !.done = Passed(p), !.last = <<stage>>], Unpassed, elements))
_Remove2Op(elements, op1, op2) ==
    Passed(FoldLeft(LAMBDA p, stage :
        IF p.last # <<>> /\ p.last[1].Implements = op1 /\ stage.Implements = op2
        THEN [p EXCEPT !.last = <<>>]
        ELSE [p EXCEPT !.done = Passed(p), !.last = <<stage>>], Unpassed, elements))

\* Two matrices become one, or none if that is the identity.  Those that are not of
\* three by three numbers only end the pass.
Simple(stage) == ~stage.Offset /\ stage.InputChannels = 3 /\ stage.OutputChannels = 3
Product(m1, m2) ==
    cmsStageAllocMatrix(3, 3, m1.from, m2.to, Reduced(m1.word \o m2.word), FALSE)
_MultiplyMatrix(elements) ==
    FoldLeft(LAMBDA p, stage :
        IF p.last = <<>> \/ p.stop \/ p.last[1].Implements # "Matrix" \/ stage.Implements # "Matrix"
        THEN [p EXCEPT !.done = Passed(p), !.last = <<stage>>]
        ELSE IF ~Simple(p.last[1]) \/ ~Simple(stage)
        THEN [p EXCEPT !.done = Passed(p), !.last = <<stage>>, !.stop = TRUE]
        ELSE [p EXCEPT !.last = IF IsIdentity(Product(p.last[1], stage)) THEN <<>>
                                ELSE <<Product(p.last[1], stage)>>], Unpassed, elements)

\* A product that cannot be allocated ends the pass too, when both matrices are gone already:
\* whether element k is the second of two that are multiplied, and what is left without them.
_Multiplies(elements, k) ==
    LET p == _MultiplyMatrix(SubSeq(elements, 1, k - 1))
    IN  /\ p.last # <<>> /\ ~p.stop
        /\ p.last[1].Implements = "Matrix" /\ elements[k].Implements = "Matrix"
        /\ Simple(p.last[1]) /\ Simple(elements[k])
        /\ ~IsIdentity(Product(p.last[1], elements[k]))
_WithoutProduct(elements, k) ==
    _MultiplyMatrix(SubSeq(elements, 1, k - 1)).done \o SubSeq(elements, k + 1, Len(elements))

\* The passes of PreOptimize, and whether each says that it did something.
Pairs == << <<"XYZ2Lab", "Lab2XYZ">>, <<"Lab2XYZ", "XYZ2Lab">>, <<"LabV4toV2", "LabV2toV4">>,
            <<"LabV2toV4", "LabV4toV2">>, <<"Lab2FloatPCS", "FloatPCS2Lab">>,
            <<"XYZ2FloatPCS", "FloatPCS2XYZ">> >>
Passes == Len(Pairs) + 2
Preoptimised(lut, pass) ==
    LET was == lut.Elements
        now == CASE pass = 1 -> _Remove1Op(was, "Identity")
                 [] pass \in 2..Passes - 1 -> _Remove2Op(was, Pairs[pass - 1][1], Pairs[pass - 1][2])
                 [] pass = Passes -> Passed(_MultiplyMatrix(was))
        says == IF pass = Passes THEN ~_MultiplyMatrix(was).stop ELSE TRUE
    IN  [lut |-> [lut EXCEPT !.Elements = now], opt |-> now # was /\ says]

(***************************************************************************)
(* The optimisations.  Each gives the pipeline that takes the place of the *)
(* one it is given, or refuses.                                            *)
(***************************************************************************)
Refused == [ok |-> FALSE, lut |-> NULL, flags |-> {}]
Optimised(lut, flags) == [ok |-> TRUE, lut |-> lut, flags |-> flags]
FastIdentity(lut) == [lut EXCEPT !.Eval16Fn = "FastIdentity16", !.Data = Itself]

AllCurvesAreLinear(stage) == IsIdentity(stage)
Ends(lut) == [from |-> lut.Elements[1].from, to |-> Last(lut.Elements).to]

OptimizeByJoiningCurves(lut, in, out) ==
    LET n == lut.InputChannels
        joined == cmsStageAllocToneCurves(n, Ends(lut).from, Ends(lut).to, Word(lut))
        dest == cmsPipelineAlloc(n, lut.OutputChannels)
        curves == cmsPipelineInsertStage(dest, AT_BEGIN, joined)
    IN  IF in.float \/ out.float \/ \E k \in DOMAIN lut.Elements : lut.Elements[k].Type # "Curves"
        THEN Refused
        ELSE IF AllCurvesAreLinear(joined)
        THEN Optimised(FastIdentity(cmsPipelineInsertStage(dest, AT_BEGIN,
                                        cmsStageAllocIdentity(n, Ends(lut).from))), {"NOCACHE"})
        ELSE Optimised(_cmsPipelineSetOptimizationParameters(curves,
                           IF _cmsFormatterIs8bit(in) THEN "FastEvaluateCurves8" ELSE "FastEvaluateCurves16",
                           joined.word, "duplicated"), {"NOCACHE"})

\* Curves, one or two matrices, and curves again.
OptimizeMatrixShaper(lut, in, out) ==
    LET four == cmsPipelineCheckAndRetreiveStages(lut, <<"Curves", "Matrix", "Matrix", "Curves">>)
        three == cmsPipelineCheckAndRetreiveStages(lut, <<"Curves", "Matrix", "Curves">>)
        n == Len(lut.Elements)
        curve1 == lut.Elements[1]
        first == lut.Elements[2]
        last == lut.Elements[n - 1]
        curve2 == lut.Elements[n]
        res == [Product(first, last) EXCEPT !.Offset = last.Offset,
                    !.word = IF four THEN @ ELSE first.word]
        begun == cmsPipelineInsertStage(cmsPipelineAlloc(3, 3), AT_BEGIN, curve1)
        whole == cmsPipelineInsertStage(cmsPipelineInsertStage(begun, AT_END, res), AT_END, curve2)
        joined == cmsPipelineInsertStage(begun, AT_END, curve2)
    IN  IF ~(cmsChannelsOfColorSpace[in.space] = 3 /\ cmsChannelsOfColorSpace[out.space] = 3
             /\ _cmsFormatterIs8bit(in) /\ (four \/ three))
        THEN Refused
        ELSE IF {first.InputChannels, first.OutputChannels, last.InputChannels, last.OutputChannels} # {3}
                \/ (four /\ first.Offset)
        THEN Refused
        ELSE IF IsIdentity(res)
        THEN IF OptimizeByJoiningCurves(joined, in, out).ok THEN OptimizeByJoiningCurves(joined, in, out)
             ELSE Optimised(joined, {})
        ELSE Optimised(_cmsPipelineSetOptimizationParameters(whole, "MatShaperEval16",
                           curve1.word \o res.word \o curve2.word, "duplicated"), {"NOCACHE"})

\* White is moved to where it should be, in the table, if there is just that.
FixWhiteMisalignment(lut) ==
    [ok |-> \E types \in {<<"Curves", "CLut", "Curves">>, <<"Curves", "CLut">>,
                          <<"CLut", "Curves">>, <<"CLut">>} : cmsPipelineCheckAndRetreiveStages(lut, types),
     lut |-> [lut EXCEPT !.Elements = [k \in DOMAIN @ |->
                 [@[k] EXCEPT !.white = lut.Elements[k].Type = "CLut"]]]]

Prelin(lut, fn) ==
    _cmsPipelineSetOptimizationParameters(lut, fn, Word(lut), "duplicated")

\* What the pipeline gives is sampled, after curves that straighten it and which are
\* undone before it: that depends on what it gives ("suitable").
OptimizeByComputingLinearization(lut, in, out, flags, absolute, suitable) ==
    LET straight == Forth("any", "straightening")
        plain == cmsStageAllocToneCurves(3, Ends(lut).from, <<"straight">>, straight)
        undo == cmsStageAllocToneCurves(3, <<"straight">>, Ends(lut).from, Back("any", "straightening"))
        LutPlusCurves == cmsPipelineInsertStage(cmsPipelineDup(lut), AT_BEGIN, undo)
        clut == cmsStageAllocCLut16bit(3, lut.OutputChannels, <<"straight">>, Ends(lut).to, Word(LutPlusCurves))
        dest == Prelin(cmsPipelineInsertStage(
                    cmsPipelineInsertStage(cmsPipelineAlloc(3, lut.OutputChannels), AT_BEGIN, plain),
                    AT_END, clut),
                    IF _cmsFormatterIs8bit(in) THEN "PrelinEval8" ELSE "PrelinEval16")
    IN  IF in.float \/ out.float \/ in.space # "RGB" \/ out.space # "RGB" \/ in.planar \/ out.planar
           \/ (~_cmsFormatterIs8bit(in) /\ "CLUT_PRE_LINEARIZATION" \notin flags)
           \/ lut.Elements = <<>> \/ ~suitable
        THEN Refused
        ELSE IF absolute THEN Optimised(dest, {"NOWHITEONWHITEFIXUP"})
        ELSE IF "NOWHITEONWHITEFIXUP" \in flags THEN Optimised(dest, {})
        ELSE IF FixWhiteMisalignment(dest).ok THEN Optimised(FixWhiteMisalignment(dest).lut, {})
        ELSE Refused

\* Everything is sampled, but the curves at the ends if these are to be kept.  They
\* are unlinked while it is sampled.
IsBent(lut, k) == lut.Elements[k].Type = "Curves" /\ ~AllCurvesAreLinear(lut.Elements[k])
KeepPreLin(lut, flags) == "CLUT_PRE_LINEARIZATION" \in flags /\ lut.Elements # <<>> /\ IsBent(lut, 1)
\* Mutant: the stage that was first is sampled again.
UnlinkedPreLinNot(lut, flags) == lut
UnlinkedPreLin(lut, flags) == IF KeepPreLin(lut, flags) THEN cmsPipelineUnlinkStage(lut, AT_BEGIN) ELSE lut
KeepPostLin(lut, flags) ==
    /\ "CLUT_POST_LINEARIZATION" \in flags
    /\ UnlinkedPreLin(lut, flags).Elements # <<>>
    /\ IsBent(UnlinkedPreLin(lut, flags), Len(UnlinkedPreLin(lut, flags).Elements))

OptimizeByResampling(lut, in, out, flags, absolute) ==
    LET pre == KeepPreLin(lut, flags)
        post == KeepPostLin(lut, flags)
        within == UnlinkedPreLin(lut, flags)
        src == IF post THEN cmsPipelineUnlinkStage(within, AT_END) ELSE within
        \* An empty pipeline is in the encoding of the space.
        from == IF pre THEN lut.Elements[1].to ELSE IF lut.Elements = <<>> THEN Encoding(in.space, "pixels") ELSE Ends(lut).from
        to == IF post THEN Last(lut.Elements).from ELSE IF lut.Elements = <<>> THEN from ELSE Ends(lut).to
        clut == cmsStageAllocCLut16bit(src.InputChannels, src.OutputChannels, from, to, Word(src))
        before == IF pre THEN <<lut.Elements[1]>> ELSE <<>>
        after == IF post THEN <<Last(lut.Elements)>> ELSE <<>>
        made == With(cmsPipelineAlloc(lut.InputChannels, lut.OutputChannels),
                     before \o <<clut>> \o after)
        dest == IF pre \/ post THEN Prelin(made, "PrelinEval16")
                ELSE _cmsPipelineSetOptimizationParameters(made, "Lerp16", clut.word, "CLUT's")
    IN  IF in.float \/ out.float \/ in.space = "any" \/ out.space = "any"
        THEN Refused
        ELSE IF lut.Elements # <<>> /\ "FORCE_CLUT" \notin flags /\ in.space = "Lab" /\ in.bytes = 2
        THEN Refused
        ELSE IF absolute THEN Optimised(dest, {"NOWHITEONWHITEFIXUP"})
        ELSE IF "NOWHITEONWHITEFIXUP" \in flags THEN Optimised(dest, {})
        ELSE Optimised(IF FixWhiteMisalignment(dest).ok THEN FixWhiteMisalignment(dest).lut ELSE dest, {})
=============================================================================
