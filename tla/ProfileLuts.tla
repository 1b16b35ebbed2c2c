----------------------------- MODULE ProfileLuts -----------------------------
(***************************************************************************)
(* What linking takes out of a profile (cmsio1.c): a pipeline that goes    *)
(* between its colour space and the XYZ or Lab that pipelines agree on, in *)
(* whichever form the profile has it.                                      *)
(*                                                                         *)
(* A profile is a record with its name, DeviceClass, ColorSpace, PCS,      *)
(* whether it is of version 4, the tags it has and, for each tag that is a *)
(* pipeline, its type, the types of its stages and its channels.           *)
(***************************************************************************)
EXTENDS Stages

INTENT_PERCEPTUAL == 0
INTENT_RELATIVE_COLORIMETRIC == 1
INTENT_SATURATION == 2
INTENT_ABSOLUTE_COLORIMETRIC == 3

Device2PCS16 == <<"AToB0", "AToB1", "AToB2", "AToB1">>
Device2PCSFloat == <<"DToB0", "DToB1", "DToB2", "DToB3">>
PCS2Device16 == <<"BToA0", "BToA1", "BToA2", "BToA1">>
PCS2DeviceFloat == <<"BToD0", "BToD1", "BToD2", "BToD3">>

cmsIsTag(p, tag) == tag \in DOMAIN p.tags

(***************************************************************************)
(* The pipeline in a tag.                                                  *)
(***************************************************************************)
Stored(p, tag, entry, exit) ==
    LET t == p.tags[tag]
        n == Len(t.parts)
        from == Encoding(entry, t.type)
        to == Encoding(exit, t.type)
        \* The part that changes the channels comes before or after part k.
        turn == SelectInSeq(t.parts, LAMBDA type : type \in {"CLut", "Matrix"})
        side(k) == IF turn # 0 /\ k >= turn THEN t.out ELSE t.in
        at(k) == IF k = 0 THEN from ELSE IF k = n THEN to ELSE <<p.name, tag, k>>
    IN  Blessed([cmsPipelineAlloc(t.in, t.out) EXCEPT !.Elements =
            [k \in 1..n |-> _cmsStageAllocPlaceholder(t.parts[k], side(k - 1), side(k),
                                                      at(k - 1), at(k), Once(p.name, tag, k))]])
Towards(p, tag) == Stored(p, tag, p.ColorSpace, p.PCS)
Away(p, tag) == Stored(p, tag, p.PCS, p.ColorSpace)

\* Each insertion may be refused, in which case the pipeline is freed.
Begin(lut, stage) ==
    IF lut = NULL THEN NULL
    ELSE LET new == cmsPipelineInsertStage(lut, AT_BEGIN, stage)
         IN  IF Consistent(new) THEN new ELSE NULL
End(lut, stage) ==
    IF lut = NULL THEN NULL
    ELSE LET new == cmsPipelineInsertStage(lut, AT_END, stage)
         IN  IF Consistent(new) THEN new ELSE NULL
BeginIf(c, lut, stage) == IF c THEN Begin(lut, stage) ELSE lut
EndIf(c, lut, stage) == IF c THEN End(lut, stage) ELSE lut

(***************************************************************************)
(* Pipelines out of curves and colorants.                                  *)
(***************************************************************************)
BuildGrayInputMatrixPipeline(p) ==
    IF ~cmsIsTag(p, "GrayTRC") THEN NULL
    ELSE IF p.PCS = "Lab"
    THEN End(End(cmsPipelineAlloc(1, 3),
                 cmsStageAllocMatrix(1, 3, "GRAY", <<p.name, "GGG">>, Once(p.name, "OneToThree", 0), FALSE)),
             cmsStageAllocToneCurves(3, <<p.name, "GGG">>, "Lab4", Forth(p.name, "GrayTRC")))
    ELSE End(End(cmsPipelineAlloc(1, 3),
                 cmsStageAllocToneCurves(1, "GRAY", <<p.name, "linear">>, Forth(p.name, "GrayTRC"))),
             cmsStageAllocMatrix(1, 3, <<p.name, "linear">>, "XYZ", Once(p.name, "GrayInput", 0), FALSE))

BuildGrayOutputPipeline(p) ==
    IF ~cmsIsTag(p, "GrayTRC") THEN NULL
    ELSE End(End(cmsPipelineAlloc(3, 1),
                 IF p.PCS = "Lab"
                 THEN cmsStageAllocMatrix(3, 1, "Lab4", <<p.name, "linear">>, Once(p.name, "PickLstar", 0), FALSE)
                 ELSE cmsStageAllocMatrix(3, 1, "XYZ", <<p.name, "linear">>, Once(p.name, "PickY", 0), FALSE)),
             cmsStageAllocToneCurves(1, <<p.name, "linear">>, "GRAY", Back(p.name, "GrayTRC")))

BuildRGBInputMatrixShaper(p) ==
    IF ~({"Colorants", "TRC"} \subseteq DOMAIN p.tags) THEN NULL
    ELSE EndIf(p.PCS = "Lab",
            End(End(cmsPipelineAlloc(3, 3),
                    cmsStageAllocToneCurves(3, "RGB", <<p.name, "linear">>, Forth(p.name, "TRC"))),
                cmsStageAllocMatrix(3, 3, <<p.name, "linear">>, "XYZ", Forth(p.name, "Colorants"), FALSE)),
            _cmsStageAllocXYZ2Lab)

BuildRGBOutputMatrixShaper(p) ==
    IF ~({"Colorants", "TRC"} \subseteq DOMAIN p.tags) THEN NULL
    ELSE End(End(EndIf(p.PCS = "Lab", cmsPipelineAlloc(3, 3), _cmsStageAllocLab2XYZ),
                 cmsStageAllocMatrix(3, 3, "XYZ", <<p.name, "linear">>, Back(p.name, "Colorants"), FALSE)),
             cmsStageAllocToneCurves(3, <<p.name, "linear">>, "RGB", Back(p.name, "TRC")))

(***************************************************************************)
(* Floating point tags.                                                    *)
(***************************************************************************)
NormalizeTo(lut, space) ==
    CASE space = "Lab" -> Begin(lut, _cmsStageNormalizeToLabFloat)
      [] space = "XYZ" -> Begin(lut, _cmsStageNormalizeToXyzFloat)
      [] OTHER -> lut
NormalizeFrom(lut, space) ==
    CASE space = "Lab" -> End(lut, _cmsStageNormalizeFromLabFloat)
      [] space = "XYZ" -> End(lut, _cmsStageNormalizeFromXyzFloat)
      [] OTHER -> lut
_cmsReadFloatInputTag(p, tag) == NormalizeFrom(NormalizeTo(Towards(p, tag), p.ColorSpace), p.PCS)
_cmsReadFloatOutputTag(p, tag) == NormalizeFrom(NormalizeTo(Away(p, tag), p.PCS), p.ColorSpace)
_cmsReadFloatDevicelinkTag(p, tag) == NormalizeFrom(NormalizeTo(Towards(p, tag), p.ColorSpace), p.PCS)

(***************************************************************************)
(* What linking asks for.  Tags of an intent that is missing are replaced  *)
(* by those of the first one; an intent out of range means the curves.     *)
(***************************************************************************)
Tag16(p, table, Intent) == IF cmsIsTag(p, table[Intent + 1]) THEN table[Intent + 1] ELSE table[1]
IsLut16(p, tag) == p.tags[tag].type = "Lut16"

\* Mutant: input tables of version 2 are taken as they are.
_cmsReadInputLUTAsItIs(p, Intent) ==
    IF cmsIsTag(p, Tag16(p, Device2PCS16, Intent)) THEN Towards(p, Tag16(p, Device2PCS16, Intent))
    ELSE IF p.ColorSpace = "GRAY" THEN BuildGrayInputMatrixPipeline(p) ELSE BuildRGBInputMatrixShaper(p)

_cmsReadInputLUT(p, Intent) ==
    LET inRange == Intent <= INTENT_ABSOLUTE_COLORIMETRIC
        float == Device2PCSFloat[Intent + 1]
        tag16 == Tag16(p, Device2PCS16, Intent)
    IN  CASE p.DeviceClass = "NamedColor" ->
                IF ~cmsIsTag(p, "NamedColor2") THEN NULL
                ELSE End(Begin(cmsPipelineAlloc(0, 0),
                               _cmsStageAllocNamedColor(3, "Lab2", Once(p.name, "PCS of names", 0))),
                         _cmsStageAllocLabV2ToV4)
          [] p.DeviceClass # "NamedColor" /\ inRange /\ cmsIsTag(p, float) -> _cmsReadFloatInputTag(p, float)
          [] p.DeviceClass # "NamedColor" /\ inRange /\ ~cmsIsTag(p, float) /\ cmsIsTag(p, tag16) ->
                LET lut == cmsPipelineDup(Towards(p, tag16))
                    adjust == IsLut16(p, tag16) /\ p.PCS = "Lab"
                IN  EndIf(adjust, BeginIf(adjust /\ p.ColorSpace = "Lab", lut, _cmsStageAllocLabV4ToV2),
                          _cmsStageAllocLabV2ToV4)
          [] OTHER -> IF p.ColorSpace = "GRAY" THEN BuildGrayInputMatrixPipeline(p)
                      ELSE BuildRGBInputMatrixShaper(p)

_cmsReadOutputLUT(p, Intent) ==
    LET inRange == Intent <= INTENT_ABSOLUTE_COLORIMETRIC
        float == PCS2DeviceFloat[Intent + 1]
        tag16 == Tag16(p, PCS2Device16, Intent)
    IN  CASE inRange /\ cmsIsTag(p, float) -> _cmsReadFloatOutputTag(p, float)
          [] inRange /\ ~cmsIsTag(p, float) /\ cmsIsTag(p, tag16) ->
                LET lut == cmsPipelineDup(Away(p, tag16))
                    adjust == IsLut16(p, tag16) /\ p.PCS = "Lab"
                IN  EndIf(adjust /\ p.ColorSpace = "Lab", BeginIf(adjust, lut, _cmsStageAllocLabV4ToV2),
                          _cmsStageAllocLabV2ToV4)
          [] OTHER -> IF p.ColorSpace = "GRAY" THEN BuildGrayOutputPipeline(p)
                      ELSE BuildRGBOutputMatrixShaper(p)

\* Device links, abstract profiles, and a named colour profile on its own.
_cmsReadDevicelinkLUT(p, Intent) ==
    LET float == Device2PCSFloat[Intent + 1]
        tag16 == Tag16(p, Device2PCS16, Intent)
    IN  CASE Intent > INTENT_ABSOLUTE_COLORIMETRIC -> NULL
          [] Intent <= INTENT_ABSOLUTE_COLORIMETRIC /\ p.DeviceClass = "NamedColor" ->
                IF ~cmsIsTag(p, "NamedColor2") THEN NULL
                ELSE EndIf(p.ColorSpace = "Lab",
                           Begin(cmsPipelineAlloc(0, 0),
                                 _cmsStageAllocNamedColor(cmsChannelsOfColorSpace[p.ColorSpace],
                                     Encoding(p.ColorSpace, "Lut16"), Once(p.name, "colorants of names", 0))),
                           _cmsStageAllocLabV2ToV4)
          [] Intent <= INTENT_ABSOLUTE_COLORIMETRIC /\ p.DeviceClass # "NamedColor" ->
                CASE cmsIsTag(p, float) -> _cmsReadFloatDevicelinkTag(p, float)
                  [] ~cmsIsTag(p, float) /\ cmsIsTag(p, Device2PCSFloat[1]) ->
                        cmsPipelineDup(Towards(p, Device2PCSFloat[1]))
                  [] ~cmsIsTag(p, float) /\ ~cmsIsTag(p, Device2PCSFloat[1]) ->
                        IF ~cmsIsTag(p, tag16) THEN NULL
                        ELSE EndIf(IsLut16(p, tag16) /\ p.PCS = "Lab",
                                   BeginIf(IsLut16(p, tag16) /\ p.ColorSpace = "Lab",
                                           cmsPipelineDup(Towards(p, tag16)), _cmsStageAllocLabV4ToV2),
                                   _cmsStageAllocLabV2ToV4)

\* Is it there in curves and colorants, as a table, or in any way?
cmsIsMatrixShaper(p) ==
    CASE p.ColorSpace = "GRAY" -> cmsIsTag(p, "GrayTRC")
      [] p.ColorSpace = "RGB" -> {"Colorants", "TRC"} \subseteq DOMAIN p.tags
      [] OTHER -> FALSE
cmsIsCLUT(p, Intent, table) ==
    /\ p.DeviceClass = "Link" => p.HeaderIntent = Intent
    /\ p.DeviceClass # "Link" =>
        /\ Intent <= INTENT_ABSOLUTE_COLORIMETRIC
        /\ cmsIsTag(p, table[Intent + 1])
cmsIsIntentSupported(p, Intent, table) == cmsIsCLUT(p, Intent, table) \/ cmsIsMatrixShaper(p)
=============================================================================
