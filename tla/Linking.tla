------------------------------- MODULE Linking -------------------------------
(***************************************************************************)
(* A transform is asked for: the profiles of a chain are linked into one   *)
(* pipeline (cmscnvrt.c), which is checked against the formats of pixels   *)
(* (cmsxform.c) and optimised (cmsopt.c).  One call, step by step; memory  *)
(* may run out at each.  Pipelines in memory are numbered.                 *)
(*                                                                         *)
(* One intent is for the whole chain and adaptation is complete, so that a *)
(* conversion can be computed; colorants can be inverted, and tags that are*)
(* there can be read.  Plug-ins have intents and optimisers of their own.  *)
(***************************************************************************)
EXTENDS ProfileLuts, Optimisers, FiniteSets

CONSTANTS
    Chains,     \* the sequences of profiles that are asked for
    Intents,    \* the rendering intents, the same for the whole chain
    FlagSets,   \* sets of flags
    Depths      \* what the two formats say besides the space

ASSUME ChainAssumption ==
    \A chain \in Chains : chain \in Seq(ToSet(chain)) /\ Len(chain) \in 1..255

VARIABLES
    call,       \* what is asked for
    at,         \* where the call is
    link,       \* the local variables
    heap,       \* the pipelines in memory
    unlucky     \* the places where memory has run out

vars == <<call, at, link, heap, unlucky>>

(***************************************************************************)
(* What the profiles are used for.                                         *)
(***************************************************************************)
n == Len(call.profiles)
p == call.profiles[link.i]
Space == {"XYZ", "Lab"}
lIsDeviceLink == p.DeviceClass \in {"Link", "Abstract"}
lIsInput == IF link.i = 1 /\ ~lIsDeviceLink THEN TRUE ELSE link.Current \notin Space
ColorSpaceIn == IF lIsInput \/ lIsDeviceLink THEN p.ColorSpace ELSE p.PCS
ColorSpaceOut == IF lIsInput \/ lIsDeviceLink THEN p.PCS ELSE p.ColorSpace

\* Mutant: XYZ and Lab are different spaces.
ColorSpaceIsTheSame(a, b) == a = b \/ {a, b} = {"MCH4", "CMYK"}
ColorSpaceIsCompatible(a, b) == a = b \/ {a, b} \in {{"MCH4", "CMYK"}, {"XYZ", "Lab"}}

\* The spaces a transform says it goes between, found by another loop.
GetXFormColorSpaces(profiles) ==
    LET many == Len(profiles) > 1
        Post(q, current) ==
            CASE q.DeviceClass = "NamedColor" -> IF many THEN q.PCS ELSE q.ColorSpace
              [] q.DeviceClass # "NamedColor" /\ (current \notin Space \/ q.DeviceClass = "Link") -> q.PCS
              [] OTHER -> q.ColorSpace
        Entry(q) ==
            CASE q.DeviceClass = "NamedColor" -> "named"
              [] q.DeviceClass # "NamedColor" /\ (q.ColorSpace \notin Space \/ q.DeviceClass = "Link") -> q.ColorSpace
              [] OTHER -> q.PCS
    IN  [Input |-> Entry(profiles[1]),
         Output |-> FoldLeft(LAMBDA current, q : Post(q, current), profiles[1].ColorSpace, profiles)]
EntryColorSpace == GetXFormColorSpaces(call.profiles).Input
ExitColorSpace == GetXFormColorSpaces(call.profiles).Output

\* The formats that IsProperColorSpace lets pass say what the spaces are, and names
\* have a format that does not say.
Format(space, depth) ==
    [space |-> IF space = "named" THEN "any" ELSE space, bytes |-> depth.bytes,
     float |-> depth.float, planar |-> depth.planar]

(***************************************************************************)
(* The intents.                                                            *)
(***************************************************************************)
TranslateNonICCIntents(Intent) == IF Intent \in 10..12 THEN Intent - 10
                                  ELSE IF Intent \in 13..15 THEN Intent - 13 ELSE Intent
SearchIntent(Intent) ==
    CASE Intent \in 0..3 -> "DefaultICCintents"
      [] Intent \in 10..12 -> "BlackPreservingKOnlyIntents"
      [] Intent \in 13..15 -> "BlackPreservingKPlaneIntents"
      [] OTHER -> "unsupported"

\* BPC is not for absolute colorimetric, and always for version 4 in two others.
BPC(q) == IF call.Intent = INTENT_ABSOLUTE_COLORIMETRIC THEN FALSE
          ELSE IF call.Intent \in {INTENT_PERCEPTUAL, INTENT_SATURATION} /\ q.v4 THEN TRUE
          ELSE call.bpc

\* Links from CMYK to CMYK at the end are for later, but for the first two profiles.
is_cmyk_devicelink(q) == q.DeviceClass = "Link" /\ q.ColorSpace = "CMYK"
lastProfilePos ==
    CHOOSE k \in 1..n :
        /\ \A j \in k + 1..n : is_cmyk_devicelink(call.profiles[j]) /\ j > 2
        /\ ~is_cmyk_devicelink(call.profiles[k]) \/ k <= 2
KeepsBlack ==
    LET hLastProfile == call.profiles[lastProfilePos]
    IN  /\ call.profiles[1].ColorSpace = "CMYK"
        /\ hLastProfile.ColorSpace = "CMYK" \/ hLastProfile.DeviceClass = "Output"

(***************************************************************************)
(* The layer between two profiles: from the white, or the black, of one to *)
(* that of the other.                                                      *)
(***************************************************************************)
ComputeConversion(before, after, Intent) ==
    IF Intent = INTENT_ABSOLUTE_COLORIMETRIC
    THEN Forth(before.white, "white") \o Back(after.white, "white")
    ELSE IF BPC(after) THEN Forth(before.black, "black") \o Back(after.black, "black")
    ELSE <<>>
IsEmptyLayer(m) == Reduced(m) = <<>>

\* Mutant: the layer is applied to Lab.
AddConversionAnywhere(lut, InPCS, OutPCS, m) ==
    LET layer == cmsStageAllocMatrix(3, 3, "XYZ", "XYZ", Reduced(m), TRUE)
        Layer(x) == IF IsEmptyLayer(m) THEN x ELSE End(x, layer)
    IN  CASE InPCS = "XYZ" /\ OutPCS = "XYZ" -> Layer(lut)
          [] InPCS = "XYZ" /\ OutPCS = "Lab" -> End(Layer(lut), _cmsStageAllocXYZ2Lab)
          [] InPCS = "Lab" /\ OutPCS = "XYZ" -> Layer(End(lut, _cmsStageAllocLab2XYZ))
          [] InPCS = "Lab" /\ OutPCS = "Lab" -> Layer(lut)
          [] InPCS \notin Space /\ InPCS = OutPCS -> lut
          [] OTHER -> NULL
AddConversion(lut, InPCS, OutPCS, m) ==
    LET layer == cmsStageAllocMatrix(3, 3, "XYZ", "XYZ", Reduced(m), TRUE)
        Layer(x) == IF IsEmptyLayer(m) THEN x ELSE End(x, layer)
    IN  CASE InPCS = "XYZ" /\ OutPCS = "XYZ" -> Layer(lut)
          [] InPCS = "XYZ" /\ OutPCS = "Lab" -> End(Layer(lut), _cmsStageAllocXYZ2Lab)
          [] InPCS = "Lab" /\ OutPCS = "XYZ" -> Layer(End(lut, _cmsStageAllocLab2XYZ))
          [] InPCS = "Lab" /\ OutPCS = "Lab" ->
                IF IsEmptyLayer(m) THEN lut
                ELSE End(Layer(End(lut, _cmsStageAllocLab2XYZ)), _cmsStageAllocXYZ2Lab)
          [] InPCS \notin Space /\ InPCS = OutPCS -> lut
          [] OTHER -> NULL

(***************************************************************************)
(* The heap.                                                               *)
(***************************************************************************)
Fresh == CHOOSE id \in 1..Cardinality(DOMAIN heap) + 1 : id \notin DOMAIN heap
Without(ids) == Restrict(heap, DOMAIN heap \ ids)
Adding(h, id, lut) == [x \in DOMAIN h \union {id} |-> IF x = id THEN lut ELSE h[x]]
Going(label) == at' = label

Nil == 0
NoLink == [i |-> 0, count |-> 0, handler |-> "", Current |-> "", Result |-> Nil, Lut |-> Nil,
           Kept |-> Nil, LabK |-> Nil, forgotten |-> {}, pass |-> 0, Opt |-> FALSE]
Init == call = <<>> /\ at = "idle" /\ link = NoLink /\ heap = <<>> /\ unlucky = {}

(***************************************************************************)
(* _cmsLinkProfiles, and what the handlers do first.                       *)
(***************************************************************************)
_cmsLinkProfiles ==
    /\ at = "idle"
    /\ \E chain \in Chains, Intent \in Intents, bpc \in BOOLEAN, flags \in FlagSets,
          depths \in Depths :
         call' = [profiles |-> chain, Intent |-> Intent, bpc |-> bpc, flags |-> flags,
                  from |-> depths[1], to |-> depths[2]]
    /\ link' = [NoLink EXCEPT !.handler = SearchIntent(call'.Intent)]
    /\ Going(IF SearchIntent(call'.Intent) = "unsupported" THEN "refused" ELSE "handler")
    /\ UNCHANGED <<heap, unlucky>>

Intent == TranslateNonICCIntents(call.Intent)
Handler == IF KeepsBlack THEN link.handler ELSE "DefaultICCintents"

\* The pipeline with black kept is made before the others, or after them.
BlackPreservingKOnlyIntents ==
    /\ at = "handler" /\ Handler = "BlackPreservingKOnlyIntents"
    /\ heap' = Adding(heap, Fresh, cmsPipelineAlloc(4, 4))
    /\ link' = [link EXCEPT !.Kept = Fresh, !.count = lastProfilePos]
    /\ Going("link") /\ UNCHANGED <<call, unlucky>>
BlackPreservingKPlaneIntents ==
    /\ at = "handler" /\ Handler = "BlackPreservingKPlaneIntents"
    /\ LET lut == _cmsReadInputLUT(call.profiles[lastProfilePos], INTENT_RELATIVE_COLORIMETRIC)
       IN  \/ /\ lut = NULL /\ Going("refused") /\ UNCHANGED <<link, heap>>
           \/ /\ lut # NULL
              /\ heap' = Adding(heap, Fresh, lut)
              /\ link' = [link EXCEPT !.LabK = Fresh, !.count = lastProfilePos]
              \* The area coverage must be known: it is measured by a transform from Lab.
              /\ \/ call.profiles[lastProfilePos].DeviceClass = "Output" /\ Going("link")
                 \/ Going("clean up")
    /\ UNCHANGED <<call, unlucky>>
Default ==
    /\ at = "handler"
    /\ link.handler = "DefaultICCintents" \/ ~KeepsBlack
    /\ link' = [link EXCEPT !.count = n, !.handler = "DefaultICCintents"]
    /\ Going("link") /\ UNCHANGED <<call, heap, unlucky>>

(***************************************************************************)
(* DefaultICCintents: for each profile its pipeline is read, the layer to  *)
(* it is added to the result, and then the stages are copied.              *)
(***************************************************************************)
DefaultICCintents ==
    /\ at = "link"
    /\ heap' = Adding(heap, Fresh, cmsPipelineAlloc(0, 0))
    /\ link' = [link EXCEPT !.Result = Fresh, !.i = 1, !.Current = call.profiles[1].ColorSpace]
    /\ Going("profile") /\ UNCHANGED <<call, unlucky>>

Alone == p.DeviceClass = "NamedColor" /\ link.count = 1
ReadLUT == CASE lIsDeviceLink \/ Alone -> _cmsReadDevicelinkLUT(p, Intent)
             [] ~lIsDeviceLink /\ ~Alone /\ lIsInput -> _cmsReadInputLUT(p, Intent)
             [] OTHER -> _cmsReadOutputLUT(p, Intent)
Read ==
    /\ at = "profile" /\ link.i <= link.count
    /\ LET lut == IF ColorSpaceIsCompatible(ColorSpaceIn, link.Current) THEN ReadLUT ELSE NULL
       IN  \/ /\ lut = NULL /\ Going("error") /\ UNCHANGED <<link, heap>>
           \/ /\ lut # NULL /\ Going("connect")
              /\ heap' = Adding(heap, Fresh, lut)
              /\ link' = [link EXCEPT !.Lut = Fresh]
    /\ UNCHANGED <<call, unlucky>>

Connected ==
    LET result == heap[link.Result]
        layer == IF (p.DeviceClass = "Abstract" /\ link.i > 1) \/ ~(lIsDeviceLink \/ Alone)
                 THEN ComputeConversion(call.profiles[link.i - 1], p, Intent) ELSE <<>>
    IN  IF lIsDeviceLink \/ Alone \/ ~lIsInput
        THEN AddConversion(result, link.Current, ColorSpaceIn, layer)
        ELSE result
Connect ==
    /\ at = "connect"
    /\ LET both == IF Connected = NULL THEN NULL ELSE cmsPipelineCat(Connected, heap[link.Lut])
       IN  \/ /\ both = NULL \/ ~Consistent(both)
              /\ Going("error") /\ UNCHANGED <<link, heap>>
           \/ /\ both # NULL /\ Consistent(both)
              /\ heap' = [Without({link.Lut}) EXCEPT ![link.Result] = both]
              /\ link' = [link EXCEPT !.Lut = Nil, !.Current = ColorSpaceOut, !.i = @ + 1]
              /\ Going("profile")
    /\ UNCHANGED <<call, unlucky>>

Clips == "NONEGATIVES" \in call.flags /\ link.Current \in {"GRAY", "RGB", "CMYK"}
Clipped ==
    LET result == heap[link.Result]
    IN  IF Clips THEN End(result, _cmsStageClipNegatives(cmsChannelsOfColorSpace[link.Current],
                                                         Encoding(link.Current, "pixels")))
        ELSE result
Returns == IF link.handler = "DefaultICCintents" \/ ~KeepsBlack THEN "linked" ELSE "keep black"
LastCheck ==
    /\ at = "profile" /\ link.i > link.count
    /\ \/ /\ Clipped = NULL \/ cmsChannelsOfColorSpace[link.Current] # Clipped.OutputChannels
          /\ Going("error") /\ UNCHANGED heap
       \/ /\ Clipped # NULL /\ cmsChannelsOfColorSpace[link.Current] = Clipped.OutputChannels
          /\ heap' = [heap EXCEPT ![link.Result] = Clipped]
          /\ Going(Returns)
    /\ UNCHANGED <<call, link, unlucky>>

\* Mutant: what was read last is kept.
ErrorKeeping ==
    /\ at = "error"
    /\ heap' = Without({link.Result})
    /\ link' = [link EXCEPT !.Lut = Nil, !.Result = Nil]
    /\ Going("clean up") /\ UNCHANGED <<call, unlucky>>
Error ==
    /\ at = "error"
    /\ heap' = Without({link.Lut, link.Result})
    /\ link' = [link EXCEPT !.Lut = Nil, !.Result = Nil]
    /\ Going("clean up") /\ UNCHANGED <<call, unlucky>>

(***************************************************************************)
(* A table in which black stays black takes the place of what was linked,  *)
(* if there is a curve from black to black: it is measured through all the *)
(* profiles but the last one, and must rise.  The links that were left out *)
(* are appended; nothing frees the pipelines these are read into.          *)
(***************************************************************************)
_cmsBuildKToneCurve ==
    LET hLastProfile == call.profiles[link.count]
    IN  link.count > 1 /\ hLastProfile.ColorSpace = "CMYK" /\ hLastProfile.DeviceClass = "Output"
KeepBlack ==
    /\ at = "keep black"
    /\ LET CLUT == cmsStageAllocCLut16bit(4, 4, "CMYK", "CMYK", Once("black", "kept", 0) \o Word(heap[link.Result]))
           kept == cmsPipelineInsertStage(cmsPipelineAlloc(4, 4), AT_BEGIN, CLUT)
           id == IF link.Kept = Nil THEN Fresh ELSE link.Kept
       IN  \/ Going("clean up") /\ UNCHANGED <<link, heap>>
           \/ /\ _cmsBuildKToneCurve /\ Going("links")
              /\ heap' = Adding(heap, id, kept)
              /\ link' = [link EXCEPT !.Kept = id, !.i = link.count + 1]
    /\ UNCHANGED <<call, unlucky>>
KeepsPlane == link.handler = "BlackPreservingKPlaneIntents"
devlink == _cmsReadDevicelinkLUT(p, Intent)
Appended == cmsPipelineCat(heap[link.Kept], devlink)
\* Where the plane of black is kept, the table is freed and the next link is appended to
\* NULL; without a next one there is no result.
AppendFails ==
    /\ heap' = Adding(IF KeepsPlane THEN Without({link.Kept}) ELSE heap, Fresh, devlink)
    /\ link' = [link EXCEPT !.i = @ + 1, !.forgotten = @ \union {Fresh},
                            !.Kept = IF KeepsPlane THEN Nil ELSE @]
    /\ Going(IF KeepsPlane THEN "links" ELSE "clean up")
Append_devlink ==
    /\ at = "links" /\ link.i <= n
    /\ \/ /\ devlink = NULL
          /\ Going("clean up") /\ UNCHANGED <<link, heap>>
       \/ /\ devlink # NULL /\ link.Kept # Nil /\ Consistent(Appended)
          /\ heap' = Adding([heap EXCEPT ![link.Kept] = Appended], Fresh, devlink)
          /\ link' = [link EXCEPT !.i = @ + 1, !.forgotten = @ \union {Fresh}]
          /\ Going("links")
       \/ devlink # NULL /\ link.Kept # Nil /\ ~Consistent(Appended) /\ AppendFails
       \/ /\ devlink # NULL /\ link.Kept = Nil
          /\ Going("undefined") /\ UNCHANGED <<link, heap>>
    /\ UNCHANGED <<call, unlucky>>
BlackIsKept ==
    /\ at = "links" /\ link.i > n
    /\ heap' = Without({link.Result, link.LabK})
    /\ link' = [link EXCEPT !.Result = link.Kept, !.Kept = Nil, !.LabK = Nil]
    /\ Going(IF link.Kept = Nil THEN "refused" ELSE "linked") /\ UNCHANGED <<call, unlucky>>
CleanUp ==
    /\ at = "clean up"
    /\ heap' = Without({link.Result, link.Kept, link.LabK})
    /\ link' = [link EXCEPT !.Result = Nil, !.Kept = Nil, !.LabK = Nil]
    /\ Going("refused") /\ UNCHANGED <<call, unlucky>>

(***************************************************************************)
(* cmsCreateExtendedTransform: the channels are checked, and the transform *)
(* is given the pipeline.                                                  *)
(***************************************************************************)
InputFormat == Format(EntryColorSpace, call.from)
OutputFormat == Format(ExitColorSpace, call.to)
\* Colours that are linear already lose too much in 16 bits.
dwFlags ==
    IF EntryColorSpace = "RGB" /\ call.from.bytes = 2 /\ call.profiles[1].linear
    THEN call.flags \union {"NOOPTIMIZE"} ELSE call.flags

ChannelsFit ==
    /\ heap[link.Result].InputChannels = cmsChannelsOfColorSpace[EntryColorSpace]
    /\ heap[link.Result].OutputChannels = cmsChannelsOfColorSpace[ExitColorSpace]
cmsCreateExtendedTransform ==
    /\ at = "linked"
    /\ \/ /\ ~ChannelsFit /\ Going("refused")
          /\ heap' = Without({link.Result}) /\ link' = [link EXCEPT !.Result = Nil]
       \/ /\ ChannelsFit /\ Going("optimise")
          /\ link' = [link EXCEPT !.Result = Nil, !.Lut = link.Result] /\ UNCHANGED heap
    /\ UNCHANGED <<call, unlucky>>

(***************************************************************************)
(* _cmsOptimizePipeline.                                                   *)
(***************************************************************************)
HasTransform == at \in {"optimise", "preoptimise", "try", "done"}
Lut == heap[link.Lut]
Forced == "FORCE_CLUT" \in dwFlags
_cmsOptimizePipeline ==
    /\ at = "optimise"
    /\ \/ /\ Forced \/ (Lut.Elements # <<>> /\ \A k \in DOMAIN Lut.Elements : Lut.Elements[k].Type # "NamedColor")
          /\ link' = [link EXCEPT !.pass = 1, !.Opt = FALSE]
          /\ Going("preoptimise") /\ UNCHANGED heap
       \/ /\ ~Forced /\ Lut.Elements = <<>>
          /\ heap' = [heap EXCEPT ![link.Lut] = FastIdentity(@)]
          /\ Going("done") /\ UNCHANGED link
       \/ /\ ~Forced /\ \E k \in DOMAIN Lut.Elements : Lut.Elements[k].Type = "NamedColor"
          /\ Going("done") /\ UNCHANGED <<link, heap>>
    /\ UNCHANGED <<call, unlucky>>

\* Again and again, until a round of passes says that it did nothing.
PreOptimize ==
    /\ at = "preoptimise" /\ link.pass <= Passes
    /\ LET it == Preoptimised(Lut, link.pass)
       IN  /\ heap' = [heap EXCEPT ![link.Lut] = it.lut]
           /\ link' = [link EXCEPT !.pass = @ + 1, !.Opt = @ \/ it.opt]
    /\ UNCHANGED <<call, at, unlucky>>
Round ==
    /\ at = "preoptimise" /\ link.pass > Passes
    /\ \/ /\ link.Opt /\ link' = [link EXCEPT !.pass = 1, !.Opt = FALSE]
          /\ UNCHANGED <<at, heap>>
       \/ /\ ~link.Opt /\ ~Forced /\ Lut.Elements = <<>>
          /\ heap' = [heap EXCEPT ![link.Lut] = FastIdentity(@)]
          /\ Going("done") /\ UNCHANGED link
       \/ /\ ~link.Opt /\ ~Forced /\ Lut.Elements # <<>> /\ "NOOPTIMIZE" \in dwFlags
          /\ Going("done") /\ UNCHANGED <<link, heap>>
       \/ /\ ~link.Opt
          /\ Forced \/ (Lut.Elements # <<>> /\ "NOOPTIMIZE" \notin dwFlags)
          /\ link' = [link EXCEPT !.pass = IF Forced THEN 4 ELSE 1]
          /\ Going("try") /\ UNCHANGED heap
    /\ UNCHANGED <<call, unlucky>>

absolute == call.Intent = INTENT_ABSOLUTE_COLORIMETRIC
\* DefaultOptimization, in its order.
Attempt(k, suitable) ==
    CASE k = 1 -> OptimizeByJoiningCurves(Lut, InputFormat, OutputFormat)
      [] k = 2 -> OptimizeMatrixShaper(Lut, InputFormat, OutputFormat)
      [] k = 3 -> OptimizeByComputingLinearization(Lut, InputFormat, OutputFormat, dwFlags, absolute, suitable)
      [] k = 4 -> OptimizeByResampling(Lut, InputFormat, OutputFormat, dwFlags, absolute)
Try ==
    /\ at = "try"
    /\ \E suitable \in BOOLEAN :
         LET it == Attempt(link.pass, suitable)
         IN  \/ /\ it.ok /\ heap' = [heap EXCEPT ![link.Lut] = it.lut]
                /\ call' = [call EXCEPT !.flags = @ \union it.flags]
                /\ Going("done") /\ UNCHANGED link
             \/ /\ ~it.ok /\ UNCHANGED <<call, heap>>
                /\ link' = [link EXCEPT !.pass = @ + 1]
                /\ Going(IF link.pass = 4 THEN "done" ELSE "try")
    /\ UNCHANGED unlucky

cmsDeleteTransform ==
    /\ at = "done"
    /\ heap' = Without({link.Lut}) /\ link' = [link EXCEPT !.Lut = Nil]
    /\ Going("deleted") /\ UNCHANGED <<call, unlucky>>

(***************************************************************************)
(* Memory runs out.  What is being made is freed on the spot, and the call *)
(* goes on as after any error; an optimisation that fails is passed over,  *)
(* but resampling may have freed the pipeline that the transform has, and  *)
(* PreOptimize goes on without two matrices whose product it cannot have.  *)
(***************************************************************************)
OutOfMemory ==
    /\ unlucky' = unlucky \union {at} /\ UNCHANGED call
    /\ \/ /\ at = "handler" /\ Handler # "DefaultICCintents"
          /\ Going("refused") /\ UNCHANGED <<link, heap>>
       \/ /\ at \in {"link", "keep black", "links"}
          /\ Going("clean up") /\ UNCHANGED <<link, heap>>
       \/ /\ at = "links" /\ link.i <= n /\ devlink # NULL /\ link.Kept # Nil
          /\ AppendFails
       \/ /\ at \in {"profile", "connect"}
          /\ Going("error") /\ UNCHANGED <<link, heap>>
       \/ /\ at = "linked"
          /\ heap' = Without({link.Result}) /\ link' = [link EXCEPT !.Result = Nil]
          /\ Going("refused")
       \/ /\ at = "preoptimise" /\ link.pass = Passes
          /\ \E k \in {j \in DOMAIN Lut.Elements : _Multiplies(Lut.Elements, j)} :
                heap' = [heap EXCEPT ![link.Lut].Elements = _WithoutProduct(Lut.Elements, k)]
          /\ link' = [link EXCEPT !.pass = @ + 1] /\ Going("preoptimise")
       \/ /\ at = "try"
          /\ link' = [link EXCEPT !.pass = @ + 1]
          /\ Going(IF link.pass = 4 THEN "done" ELSE "try") /\ UNCHANGED heap
       \/ /\ at = "try" /\ link.pass = 4
          /\ Attempt(4, FALSE).ok /\ (KeepPreLin(Lut, dwFlags) \/ KeepPostLin(Lut, dwFlags))
          /\ heap' = Without({link.Lut})
          /\ Going("undefined") /\ UNCHANGED link

Link == \/ BlackPreservingKOnlyIntents \/ BlackPreservingKPlaneIntents \/ Default
        \/ DefaultICCintents \/ Read \/ Connect \/ LastCheck \/ Error
        \/ KeepBlack \/ Append_devlink \/ BlackIsKept \/ CleanUp
Optimise == \/ cmsCreateExtendedTransform \/ _cmsOptimizePipeline \/ PreOptimize \/ Round \/ Try
Next == _cmsLinkProfiles \/ Link \/ Optimise \/ cmsDeleteTransform \/ OutOfMemory

\* A call that is made goes on.
Spec == Init /\ [][Next]_vars /\ WF_vars(Link \/ Optimise)

(***************************************************************************)
(* The profiles that the properties are about.  Others are malformed: a    *)
(* tag with the channels or the kind of another, matrices in a profile that*)
(* is not RGB.  Or the code is known to treat them differently in one place*)
(* than in another: a name with XYZ behind it, a Lab space that leads to   *)
(* XYZ without being a link, floating point links without all the tables.  *)
(***************************************************************************)
FloatTables == Range(Device2PCSFloat) \union Range(PCS2DeviceFloat)
Inward == Range(Device2PCS16) \union Range(Device2PCSFloat)
Tables == Inward \union Range(PCS2Device16) \union FloatTables
Device(q) == q.DeviceClass \notin {"Link", "Abstract", "NamedColor"}
\* Tables have the channels of the spaces.
Sound(q) ==
    \A tag \in Tables \cap DOMAIN q.tags :
        LET t == q.tags[tag]
            device == cmsChannelsOfColorSpace[q.ColorSpace]
            pcs == cmsChannelsOfColorSpace[q.PCS]
        IN  /\ <<t.in, t.out>> = IF tag \in Inward THEN <<device, pcs>> ELSE <<pcs, device>>
            /\ t.in # t.out => \E k \in DOMAIN t.parts : t.parts[k] \in {"CLut", "Matrix"}
RegularTable(q, tag) ==
    LET t == q.tags[tag]
    IN  /\ t.parts \in Seq({"Curves", "CLut", "Matrix"})
        /\ t.type = "MPE" <=> tag \in FloatTables
        /\ t.parts = <<>> => q.ColorSpace = q.PCS
Regular(q) ==
    /\ {q.ColorSpace, q.PCS} \subseteq DOMAIN cmsChannelsOfColorSpace \ {"named"}
    /\ Device(q) => q.PCS \in Space
    /\ q.DeviceClass = "NamedColor" => q.PCS = "Lab"
    /\ q.DeviceClass = "Abstract" \/ (Device(q) /\ q.ColorSpace \in Space) => q.ColorSpace = q.PCS
    /\ \A tag \in Tables \cap DOMAIN q.tags : RegularTable(q, tag)
    /\ {"Colorants", "TRC"} \subseteq DOMAIN q.tags => q.ColorSpace = "RGB" /\ q.PCS \in Space
    /\ "GrayTRC" \in DOMAIN q.tags => q.ColorSpace = "GRAY" /\ q.PCS \in Space
    /\ q.DeviceClass = "Link" => Sound(q)
    /\ ~Device(q) /\ "DToB0" \in DOMAIN q.tags /\ {q.ColorSpace, q.PCS} \cap Space # {} =>
            Range(Device2PCSFloat) \subseteq DOMAIN q.tags
\* Names are where a chain begins.
RegularChain(chain) ==
    \A k \in DOMAIN chain : Regular(chain[k]) /\ (k > 1 => chain[k].DeviceClass # "NamedColor")

(***************************************************************************)
(* Properties.                                                             *)
(***************************************************************************)
\* Two matrices have gone without their product (_MultiplyMatrix, its allocation failing):
\* what is left in the pipeline is something else, and the transform goes on with it.
MatricesLost == "preoptimise" \in unlucky

\* What a stage gives is written as the next one takes it, in every pipeline that is
\* used, before and after it is optimised; and the ends are as the transform says
\* (conversions are added in cmsio1.c, AddConversion, and found again by cmsxform.c);
\* but for a pipeline that has lost matrices.
EncodingsMeet ==
    at \notin {"error", "clean up"} /\ ~MatricesLost =>
        /\ \A id \in DOMAIN heap : StagesMeet(heap[id])
        /\ HasTransform /\ Lut.Elements # <<>> =>
            Ends(Lut) = [from |-> Encoding(EntryColorSpace, "pixels"), to |-> Encoding(ExitColorSpace, "pixels")]

\* A pipeline that is being linked goes through the profiles of the chain that were
\* read and have stages, each once and in their order (DefaultICCintents).
Through(lut) == FlattenSeq([k \in DOMAIN lut.Elements |->
                    SelectSeq(lut.Elements[k].word, LAMBDA a : a[2] \notin {"white", "black"})])
Names(word) == FoldLeft(LAMBDA s, a : IF s # <<>> /\ Last(s) = a[1] THEN s ELSE Append(s, a[1]), <<>>, word)
HasStages(q) == "AToB0" \notin DOMAIN q.tags \/ q.tags.AToB0.parts # <<>>
EachProfileOnce ==
    at = "profile" =>
        LET read == SelectSeq(SubSeq(call.profiles, 1, link.i - 1), HasStages)
        IN  Names(Through(heap[link.Result])) = Names([k \in DOMAIN read |-> <<read[k].name>>])

\* Optimising changes how a colour is computed and not what, in floating point or in
\* 16 bits (cmsopt.c), as long as there is a pipeline, and wherever memory runs out but
\* for the product of two matrices: the code loses them then, and the meaning with them.
MeaningKept ==
    [][HasTransform /\ link'.Lut = link.Lut /\ at' # "undefined" /\ ~MatricesLost' =>
        /\ Word(heap'[link.Lut]) = Word(Lut)
        /\ Word16(heap'[link.Lut]) = Word(heap'[link.Lut])]_vars

\* When the call is over, only the transform's pipeline is in memory, whatever went
\* wrong, but for those of links appended after a table that keeps black (and unless
\* the call went through a NULL or a freed pipeline).
NothingHeld ==
    at \in {"refused", "done", "deleted"} =>
        DOMAIN heap = link.forgotten \union ({link.Lut} \ {Nil})

\* Two profiles that say they support an intent (cmsIsIntentSupported), the first as
\* input and the second as output, do link, if their tables have the channels of their
\* spaces and there is memory.
SupportedLinks ==
    LET In == call.profiles[1]
        Out == call.profiles[2]
    IN  at = "refused" /\ unlucky = {} /\ link.handler = "DefaultICCintents" /\ n = 2 =>
            ~(/\ \A k \in 1..2 : Device(call.profiles[k]) /\ Sound(call.profiles[k])
              /\ cmsIsIntentSupported(In, Intent, Device2PCS16)
              /\ cmsIsIntentSupported(Out, Intent, PCS2Device16))

=============================================================================
