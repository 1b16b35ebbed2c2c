--------------------------- MODULE VirtualProfiles ---------------------------
(***************************************************************************)
(* The profiles that Little CMS makes by itself (cmsvirt.c): routines that *)
(* allocate a profile, a pipeline and its stages, write tags, and must     *)
(* release all of it on whichever of their ways out.  A tag that is        *)
(* written keeps a copy.                                                   *)
(***************************************************************************)
EXTENDS Steps

\* Stages of a pipeline: made, and linked into it.
Stage(k) == NewAt("mpe", k)
Into(lut, k) == GiveAt("mpe", k, lut, 0)
InsertNew(lut, k) == <<Stage(k), Into(lut, k)>>
Stages(S) == Bs("mpe", S)
Pipeline(lut) == <<New(lut)>>
WriteTags(names) == [k \in DOMAIN names |-> Try("cmsWriteTag")]

\* The k-th time that texts are written.
SetTextTagsAgain(k) ==
    LET texts == {"DescriptionMLU", "CopyrightMLU"} \X {k}
    IN  Within(texts, <<NewAt("DescriptionMLU", k), NewAt("CopyrightMLU", k), Try("cmsMLUsetWide"),
                        Try("cmsMLUsetWide")>> \o WriteTags(<<"desc", "cprt">>))
        \o <<DropAt("DescriptionMLU", k), DropAt("CopyrightMLU", k)>>
SetTextTags == SetTextTagsAgain(1)
SetSeqDescTag == <<New("Seq"), Try("_cmsWriteProfileSequence") ?? B("Seq"), Drop("Seq")>>

\* A profile that is closed when a later step fails.
cmsCreateProfilePlaceholder == <<New("hICC")>>
Profile(steps) == cmsCreateProfilePlaceholder \o Within(B("hICC"), steps)
\* A pipeline that goes into it, and is freed whatever happens.
WithLUT(steps) == Pipeline("LUT") \o Within(B("LUT"), steps) \o <<Drop("LUT")>>

cmsCreateRGBProfileTHR(WhitePoint, Primaries, TransferFunction) ==
    Profile(SetTextTags
            \o When(WhitePoint, WriteTags(<<"wtpt", "chad">>))
            \o When(WhitePoint /\ Primaries,
                    <<Try("_cmsBuildRGB2XYZtransferMatrix")>> \o WriteTags(<<"rXYZ", "bXYZ", "gXYZ">>))
            \o When(TransferFunction, WriteTags(<<"rTRC", "gTRC", "bTRC">>))
            \o When(Primaries, WriteTags(<<"chrm">>)))
cmsCreateGrayProfileTHR(WhitePoint, TransferFunction) ==
    Profile(SetTextTags \o When(WhitePoint, WriteTags(<<"wtpt">>))
            \o When(TransferFunction, WriteTags(<<"kTRC">>)))
cmsCreateLinearizationDeviceLinkTHR ==
    Profile(WithLUT(InsertNew("LUT", 1) \o SetTextTags \o WriteTags(<<"A2B0">>) \o SetSeqDescTag))

\* The table is not in the pipeline yet when it is filled and when the curves
\* that go before it are made.
cmsCreateInkLimitingDeviceLinkTHR(ColorSpace) ==
    <<Require(ColorSpace = "CMYK")>>
    \o Profile(WithLUT(
         <<Stage(2), Overlooked(Try("cmsStageSampleCLut16bit")), Overlooked(Stage(1)),
           Into("LUT", 1), Into("LUT", 2)>>
         \o InsertNew("LUT", 3) \o SetTextTags \o WriteTags(<<"A2B0">>) \o SetSeqDescTag))

\* The identity of a space, on top of a profile that has only texts.
Identity(rgb) ==
    rgb \o Within(B("hICC"), SetTextTagsAgain(2)
                             \o WithLUT(InsertNew("LUT", 1) \o WriteTags(<<"A2B0">>)))
cmsCreateLab2ProfileTHR == Identity(cmsCreateRGBProfileTHR(TRUE, FALSE, FALSE))
cmsCreateLab4ProfileTHR ==
    Identity(cmsCreateRGBProfileTHR(FALSE, FALSE, FALSE) \o <<Try("cmsWriteTag") ?? B("hICC")>>)
cmsCreateXYZProfileTHR == Identity(cmsCreateRGBProfileTHR(TRUE, FALSE, FALSE))

Build_sRGBGamma == <<New("Gamma22")>>
cmsCreate_sRGBProfileTHR ==
    Build_sRGBGamma \o Within(B("Gamma22"), cmsCreateRGBProfileTHR(TRUE, TRUE, TRUE))
    \o <<Drop("Gamma22")>> \o Within(B("hICC"), SetTextTagsAgain(2))

\* All the stages are made before the profile, whether or not there was memory for
\* those before; the ones not yet inserted are forgotten when a step fails.
ToOkLab == {1, 2, 3, 4, 5}
FromOkLab == {6, 7, 8, 9, 10}
cmsCreate_OkLabProfile ==
    LET all == B("BToA") \cup B("AToB") \cup B("CubeRoot") \cup B("Cube") \cup B("hICC")
        link(lut, S) == Each(S, LAMBDA k : <<Use("hICC"), Into(lut, k)>>)
    IN  Each(ToOkLab \cup FromOkLab, LAMBDA k : <<Overlooked(Stage(k))>>)
        \o Within(all, [k \in 1..5 |->
             Overlooked(New(<<"CubeRoot", "Cube", "AToB", "BToA", "hICC">>[k]))])
        \o Within(all, link("BToA", ToOkLab) \o <<Overlooked(Try("cmsWriteTag"))>>
                       \o link("AToB", FromOkLab) \o WriteTags(<<"A2B0">>))
        \o <<Drop("BToA"), Drop("AToB"), Drop("CubeRoot"), Drop("Cube")>>

cmsCreateBCHSWabstractProfileTHR ==
    Profile(WithLUT(<<Stage(1), Overlooked(Try("cmsStageSampleCLut16bit")), Into("LUT", 1)>>
                    \o SetTextTags \o WriteTags(<<"wtpt", "A2B0">>)))

\* Both curve stages are made, whether or not there was memory for the curve, and
\* inserted one after the other.
cmsCreateNULLProfileTHR ==
    Profile(SetTextTags
            \o WithLUT(<<Overlooked(New("EmptyTab")), Overlooked(Stage(1)), Overlooked(Stage(3)),
                         Drop("EmptyTab"), Into("LUT", 1), Overlooked(Stage(2)), Into("LUT", 2),
                         Into("LUT", 3)>>
                       \o WriteTags(<<"B2A0", "wtpt">>)))

\* The copy of the colours stays when the tag is not written.
CreateNamedColorDevicelink(Original) ==
    Profile(SetTextTags
            \o <<Require(Original), New("nc2"), Overlooked(Try("cmsWriteTag")), Drop("nc2")>>)

(***************************************************************************)
(* A transform saved as a profile.                                         *)
(***************************************************************************)
cvst == "cvst"
matf == "matf"
clut == "clut"
cmsAllowedLUT(IsV4, RequiredTag, MpeTypes) ==
    [IsV4 |-> IsV4, RequiredTag |-> RequiredTag, MpeTypes |-> MpeTypes]
AllowedLUTTypes ==
    {cmsAllowedLUT(FALSE, "", types) : types \in {<<matf, cvst, clut, cvst>>, <<cvst, clut, cvst>>,
                                                 <<cvst, clut>>}}
    \cup {cmsAllowedLUT(TRUE, "", <<cvst>>)}
    \cup {cmsAllowedLUT(TRUE, "A2B0", types) :
            types \in {<<cvst, matf, cvst>>, <<cvst, clut, cvst>>, <<cvst, clut, cvst, matf, cvst>>}}
    \cup {cmsAllowedLUT(TRUE, "B2A0", types) :
            types \in {<<cvst>>, <<cvst, matf, cvst>>, <<cvst, clut, cvst>>,
                       <<cvst, matf, cvst, clut, cvst>>}}
FindCombination(types, IsV4, DestinationTag) ==
    \E tab \in AllowedLUTTypes : /\ tab.IsV4 = IsV4
                                 /\ tab.RequiredTag \in {"", DestinationTag}
                                 /\ tab.MpeTypes = types

IsPCS(space) == space \in {"XYZ ", "Lab "}
\* The class that a link gets, guessed from its spaces when asked to.
FixColorSpaces(in, out, guess) ==
    CASE guess /\ IsPCS(in) /\ IsPCS(out) -> "abst"
      [] guess /\ IsPCS(in) /\ ~IsPCS(out) -> "prtr"
      [] guess /\ ~IsPCS(in) /\ IsPCS(out) -> "scnr"
      [] OTHER -> "link"

\* x is the transform: its spaces, the types of its stages, those that the optimiser
\* leaves, those after the optimiser was told to make a table, and what is known of
\* its inks.
cmsTransform2DeviceLink(x, IsV4, guess, FORCE_CLUT) ==
    LET class == FixColorSpaces(x.in, x.out, guess)
        DestinationTag == IF class = "prtr" THEN "B2A0" ELSE "A2B0"
        toV2(types) == (IF x.in = "Lab " /\ ~IsV4 THEN <<cvst>> ELSE <<>>) \o types
                       \o (IF x.out = "Lab " /\ ~IsV4 THEN <<matf>> ELSE <<>>)
        allowed(types) == FindCombination(types, IsV4, DestinationTag)
        asIs == ~FORCE_CLUT /\ allowed(toV2(x.stages))
        between(types) == types # <<>> /\ types[1] # cvst
        after(types) == types # <<>> /\ types[Len(types)] # cvst
        framed == (IF between(x.table) THEN <<cvst>> ELSE <<>>) \o x.table
                  \o (IF after(x.table) THEN <<cvst>> ELSE <<>>)
        found == asIs \/ allowed(x.optimized)
    IN  Pipeline("LUT")
        \o Within(B("LUT"),
             When(x.in = "Lab " /\ ~IsV4, InsertNew("LUT", 1))
             \o When(x.out = "Lab " /\ ~IsV4, InsertNew("LUT", 2)))
        \o Within(B("LUT") \cup B("hICC"),
             cmsCreateProfilePlaceholder
             \o When(~found, When(between(x.table), InsertNew("LUT", 3))
                             \o When(after(x.table), InsertNew("LUT", 4))
                             \o <<Require(allowed(framed))>>)
             \o SetTextTags \o WriteTags(<<DestinationTag>>)
             \o When(x.inks /\ class \in {"link", "scnr"}, WriteTags(<<"clrt">>))
             \o When(x.inks, WriteTags(<<IF class = "link" THEN "clot" ELSE "clrt">>))
             \o When(class = "link", <<Try("_cmsWriteProfileSequence")>>)
             \o WriteTags(<<"wtpt">>))
        \o <<Drop("LUT")>>
=============================================================================
