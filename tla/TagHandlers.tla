----------------------------- MODULE TagHandlers -----------------------------
(***************************************************************************)
(* The tables of cmstypes.c: which types a tag may have, which of them a   *)
(* version and the data call for, and the handler of each type.  op is     *)
(* "read", "write", "dup" or "free".                                       *)
(***************************************************************************)
EXTENDS TagTypesSets

\* The signatures of two types that are other types under wrong names.
cmsCorbisBrokenXYZtype == "0x17A505B8"
cmsMonacoBrokenCurveType == "0x9478ee00"

TYPE_HANDLER(op, Read, Write, Dup, Free) ==
    CASE op = "read" -> Read [] op = "write" -> Write [] op = "dup" -> Dup [] op = "free" -> Free

\* n is the number of bytes of the tag, SizeOfTag.
Simple(type, op, s, n) ==
    CASE type = "chrm" -> TYPE_HANDLER(op, Type_Chromaticity_Read(s), Type_Chromaticity_Write(s),
                                       Type_Chromaticity_Dup(s), Type_Chromaticity_Free(s))
      [] type = "clro" -> TYPE_HANDLER(op, Type_ColorantOrderType_Read(s),
                                       Type_ColorantOrderType_Write(s),
                                       Type_ColorantOrderType_Dup(s), Type_ColorantOrderType_Free(s))
      [] type = "sf32" -> TYPE_HANDLER(op, Type_S15Fixed16_Read(s, n), Type_S15Fixed16_Write(s),
                                       Type_S15Fixed16_Dup(s), Type_S15Fixed16_Free(s))
      [] type = "uf32" -> TYPE_HANDLER(op, Type_U16Fixed16_Read(s, n), Type_U16Fixed16_Write(s),
                                       Type_U16Fixed16_Dup(s), Type_U16Fixed16_Free(s))
      [] type = "ui08" -> TYPE_HANDLER(op, Type_UInt8_Read(s, n), Type_UInt8_Write(s),
                                       Type_UInt8_Dup(s), Type_UInt8_Free(s))
      [] type = "ui32" -> TYPE_HANDLER(op, Type_UInt32_Read(s, n), Type_UInt32_Write(s),
                                       Type_UInt32_Dup(s), Type_UInt32_Free(s))
      [] type = "ui64" -> TYPE_HANDLER(op, Type_UInt64_Read(s, n), Type_UInt64_Write(s),
                                       Type_UInt64_Dup(s), Type_UInt64_Free(s))
      [] type = "dtim" -> TYPE_HANDLER(op, Type_DateTime_Read(s), Type_DateTime_Write(s),
                                       Type_DateTime_Dup(s), Type_DateTime_Free(s))
      [] type = "sig " -> TYPE_HANDLER(op, Type_Signature_Read(s), Type_Signature_Write(s),
                                       Type_Signature_Dup(s), Type_Signature_Free(s))
      [] type = "meas" -> TYPE_HANDLER(op, Type_Measurement_Read(s), Type_Measurement_Write(s),
                                       Type_Measurement_Dup(s), Type_Measurement_Free(s))
      [] type = "data" -> TYPE_HANDLER(op, Type_Data_Read(s, n), Type_Data_Write(s),
                                       Type_Data_Dup(s), Type_Data_Free(s))
      [] type = "scrn" -> TYPE_HANDLER(op, Type_Screening_Read(s), Type_Screening_Write(s),
                                       Type_Screening_Dup(s), Type_Screening_Free(s))
      [] type = "view" -> TYPE_HANDLER(op, Type_ViewingConditions_Read(s),
                                       Type_ViewingConditions_Write(s),
                                       Type_ViewingConditions_Dup(s), Type_ViewingConditions_Free(s))
      [] type = "cicp" -> TYPE_HANDLER(op, Type_VideoSignal_Read(s, n), Type_VideoSignal_Write(s),
                                       Type_VideoSignal_Dup(s), Type_VideoSignal_Free(s))
      [] type \in {"XYZ ", cmsCorbisBrokenXYZtype} ->
           TYPE_HANDLER(op, Type_XYZ_Read(s), Type_XYZ_Write(s), Type_XYZ_Dup(s), Type_XYZ_Free(s))

Texts(type, op, s, n) ==
    CASE type = Text -> TYPE_HANDLER(op, Type_Text_Read(0, s, n) \o <<Return("mlu")>>,
                                     Type_Text_Write(0, s), Type_Text_Dup(s), Type_Text_Free(s))
      [] type = TextDescription ->
           TYPE_HANDLER(op, Type_Text_Description_Read(0, s, n) \o <<Return("mlu")>>,
                        Type_Text_Description_Write(0, s), Type_Text_Description_Dup(s),
                        Type_Text_Description_Free(s))
      [] type = MultiLocalizedUnicode ->
           TYPE_HANDLER(op, Type_MLU_Read(0, s) \o <<Return("mlu")>>, Type_MLU_Write(0, s),
                        Type_MLU_Dup(s), Type_MLU_Free(s))
      [] type = "crdi" -> TYPE_HANDLER(op, Type_CrdInfo_Read(s), Type_CrdInfo_Write(s),
                                       Type_CrdInfo_Dup(s), Type_MLU_Free(s))
      [] type = "pseq" -> TYPE_HANDLER(op, Type_ProfileSequenceDesc_Read(s, n),
                                       Type_ProfileSequenceDesc_Write(s),
                                       Type_ProfileSequenceDesc_Dup(s), Type_ProfileSequenceDesc_Free(s))
      [] type = "psid" -> TYPE_HANDLER(op, Type_ProfileSequenceId_Read(s, n),
                                       Type_ProfileSequenceId_Write(s),
                                       Type_ProfileSequenceId_Dup(s), Type_ProfileSequenceDesc_Free(s))
      [] type = "clrt" -> TYPE_HANDLER(op, Type_ColorantTable_Read(s), Type_ColorantTable_Write(s),
                                       Type_NamedColor_Dup(s), Type_NamedColor_Free(s))
      [] type = "ncl2" -> TYPE_HANDLER(op, Type_NamedColor_Read(s), Type_NamedColor_Write(s),
                                       Type_NamedColor_Dup(s), Type_NamedColor_Free(s))
      [] type = "dict" -> TYPE_HANDLER(op, Type_Dictionary_Read(s, n), Type_Dictionary_Write(s),
                                       Type_Dictionary_Dup(s), Type_Dictionary_Free(s))

Curved(type, op, s, n) ==
    CASE type \in {Tabulated, cmsMonacoBrokenCurveType} ->
           TYPE_HANDLER(op, Type_Curve_Read(0, s) \o <<Return("curve")>>, Type_Curve_Write(0, s),
                        Type_Curve_Dup(s), Type_Curve_Free(s))
      [] type = Parametric ->
           TYPE_HANDLER(op, Type_ParametricCurve_Read(0, s) \o <<Return("curve")>>,
                        Type_ParametricCurve_Write(0, s), Type_ParametricCurve_Dup(s),
                        Type_ParametricCurve_Free(s))
      [] type = "mft1" -> TYPE_HANDLER(op, Type_LUT8_Read(s), Type_LUT8_Write(s), Type_LUT8_Dup(s),
                                       Type_LUT_Free(s))
      [] type = "mft2" -> TYPE_HANDLER(op, Type_LUT16_Read(s), Type_LUT16_Write(s), Type_LUT16_Dup(s),
                                       Type_LUT_Free(s))
      [] type = "mAB " -> TYPE_HANDLER(op, Type_LUTA2B_Read(s), Type_LUTA2B_Write(s),
                                       Type_LUTA2B_Dup(s), Type_LUT_Free(s))
      [] type = "mBA " -> TYPE_HANDLER(op, Type_LUTB2A_Read(s), Type_LUTB2A_Write(s),
                                       Type_LUTB2A_Dup(s), Type_LUT_Free(s))
      [] type = "mpet" -> TYPE_HANDLER(op, Type_MPE_Read(s), Type_MPE_Write(s), Type_MPE_Dup(s),
                                       Type_LUT_Free(s))
      [] type = "bfd " -> TYPE_HANDLER(op, Type_UcrBg_Read(s, n), Type_UcrBg_Write(s),
                                       Type_UcrBg_Dup(s), Type_UcrBg_Free(s))
      [] type = "vcgt" -> TYPE_HANDLER(op, Type_vcgt_Read(s), Type_vcgt_Write(s), Type_vcgt_Dup(s),
                                       Type_vcgt_Free(s))
      [] type = "MHC2" -> TYPE_HANDLER(op, Type_MHC2_Read(s), Type_MHC2_Write(s), Type_MHC2_Dup(s),
                                       Type_MHC2_Free(s))

SimpleTypes == {"chrm", "clro", "sf32", "uf32", "ui08", "ui32", "ui64", "dtim", "sig ", "meas",
                "data", "scrn", "view", "cicp", "XYZ ", cmsCorbisBrokenXYZtype}
TextTypes == {Text, TextDescription, MultiLocalizedUnicode, "crdi", "pseq", "psid", "clrt",
              "ncl2", "dict"}
CurvedTypes == {Tabulated, cmsMonacoBrokenCurveType, Parametric, "mft1", "mft2", "mAB ", "mBA ",
                "mpet", "bfd ", "vcgt", "MHC2"}
SupportedTagTypes == SimpleTypes \cup TextTypes \cup CurvedTypes

GetHandler(type, op, s, n) ==
    CASE type \in SimpleTypes -> Simple(type, op, s, n)
      [] type \in TextTypes -> Texts(type, op, s, n)
      [] type \in CurvedTypes -> Curved(type, op, s, n)

(***************************************************************************)
(* The tags, with the types that each supports, the first one where it is  *)
(* not decided.                                                            *)
(***************************************************************************)
Tags(names, types) == [name \in names |-> types]
SupportedTags ==
    Tags({"AToB0", "AToB1", "AToB2"}, <<"mft2", "mAB ", "mft1">>)
    @@ Tags({"BToA0", "BToA1", "BToA2", "gamt", "pre0", "pre1", "pre2"}, <<"mft2", "mBA ", "mft1">>)
    @@ Tags({"rXYZ", "gXYZ", "bXYZ", "bkpt", "wtpt"}, <<"XYZ ", cmsCorbisBrokenXYZtype>>)
    @@ Tags({"rTRC", "gTRC", "bTRC"}, <<Tabulated, Parametric, cmsMonacoBrokenCurveType>>)
    @@ Tags({"kTRC"}, <<Tabulated, Parametric>>)
    @@ Tags({"calt", "dtim"}, <<"dtim">>) @@ Tags({"targ"}, <<Text>>)
    @@ Tags({"chad", "arts"}, <<"sf32">>) @@ Tags({"chrm"}, <<"chrm">>)
    @@ Tags({"clro"}, <<"clro">>) @@ Tags({"clrt", "clot"}, <<"clrt">>)
    @@ Tags({"cprt"}, <<Text, MultiLocalizedUnicode, TextDescription>>)
    @@ Tags({"dmnd", "dmdd", "desc", "vued"}, <<TextDescription, MultiLocalizedUnicode, Text>>)
    @@ Tags({"lumi"}, <<"XYZ ">>) @@ Tags({"ncl2"}, <<"ncl2">>) @@ Tags({"pseq"}, <<"pseq">>)
    @@ Tags({"tech", "ciis", "rig0", "rig2"}, <<"sig ">>) @@ Tags({"meas"}, <<"meas">>)
    @@ Tags({"psd0", "psd1", "psd2", "psd3", "ps2s", "ps2i"}, <<"data">>)
    @@ Tags({"bfd "}, <<"bfd ">>) @@ Tags({"crdi"}, <<"crdi">>)
    @@ Tags({"D2B0", "D2B1", "D2B2", "D2B3", "B2D0", "B2D1", "B2D2", "B2D3"}, <<"mpet">>)
    @@ Tags({"scrd"}, <<TextDescription>>) @@ Tags({"view"}, <<"view">>) @@ Tags({"scrn"}, <<"scrn">>)
    @@ Tags({"vcgt"}, <<"vcgt">>) @@ Tags({"meta"}, <<"dict">>) @@ Tags({"psid"}, <<"psid">>)
    @@ Tags({"dscm"}, <<MultiLocalizedUnicode>>) @@ Tags({"cicp"}, <<"cicp">>)
    @@ Tags({"MHC2"}, <<"MHC2">>)

A2BTags == {"AToB0", "AToB1", "AToB2"}
B2ATags == {"BToA0", "BToA1", "BToA2", "gamt", "pre0", "pre1", "pre2"}
TRCTags == {"rTRC", "gTRC", "bTRC", "kTRC"}
TextDescTags == {"dmnd", "dmdd", "desc", "vued"}
XYZTags == {"rXYZ", "gXYZ", "bXYZ"}
DecideXYZtype(ICCVersion, s) == "XYZ "
DecideType(tag, ICCVersion, s) ==
    CASE tag \in A2BTags -> DecideLUTtypeA2B(ICCVersion, s)
      [] tag \in B2ATags -> DecideLUTtypeB2A(ICCVersion, s)
      [] tag \in XYZTags -> DecideXYZtype(ICCVersion, s)
      [] tag \in TRCTags -> DecideCurveType(ICCVersion, s)
      [] tag = "cprt" -> DecideTextType(ICCVersion, s)
      [] tag \in TextDescTags -> DecideTextDescType(ICCVersion, s)
      [] OTHER -> SupportedTags[tag][1]
IsTypeSupported(tag, type) == \E i \in DOMAIN SupportedTags[tag] : SupportedTags[tag][i] = type

\* A tag is written only as a type that it supports.
WriteTag(tag, ICCVersion, s) ==
    LET type == DecideType(tag, ICCVersion, s)
    IN  <<Require(IsTypeSupported(tag, type)), Require(type \in SupportedTagTypes)>>
        \o GetHandler(type, "write", s, 0)
ReadTag(tag, type, s, n) ==
    <<Require(IsTypeSupported(tag, type)), Require(type \in SupportedTagTypes)>>
    \o GetHandler(type, "read", s, n)
=============================================================================
