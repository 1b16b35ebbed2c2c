---------------------------- MODULE Measurements ----------------------------
(***************************************************************************)
(* What Little CMS finds out about a profile by running colours through    *)
(* it: gamut, black points, ink, gamma (cmsgmt.c, cmssamp.c).  Each makes  *)
(* a profile of Lab or XYZ, transforms to or from it, and releases both    *)
(* before it answers.                                                      *)
(***************************************************************************)
EXTENDS Steps

\* A transform between a profile and a built-in one, which is closed at once,
\* whether or not there is a transform.
Between(builtin, xform) == <<New(builtin), New(xform) ?? B(builtin), Drop(builtin)>>
\* The same where the built-in profile is taken for granted.
BetweenGranted(builtin, xform) ==
    <<Overlooked(New(builtin)), Use(builtin), New(xform) ?? B(builtin), Drop(builtin)>>

(***************************************************************************)
(* The gamut, and the curve of black (cmsgmt.c).                           *)
(***************************************************************************)
_cmsChain2Lab(nProfiles) == <<Require(nProfiles <= 254)>> \o Between("hLab", "xform")

ComputeKToLstar(out, nProfiles) ==
    _cmsChain2Lab(nProfiles)
    \o Within(B("xform"), <<New("SampledPoints"), Use("xform"), New(out) ?? B("SampledPoints")>>)
    \o <<Drop("xform"), Drop("SampledPoints")>>

\* p says what the last of nProfiles profiles is, and what the curves look like.
_cmsBuildKToneCurve(p) ==
    <<Require(p.cmyk), Require(p.class = "prtr")>>
    \o ComputeKToLstar("in", p.nProfiles - 1)
    \o Within(B("in"), ComputeKToLstar("out", 1))
    \o <<New("KTone") ?? (B("in") \cup B("out")), Drop("in"), Drop("out"),
         Require(p.monotonic) ?? B("KTone"), Return("KTone")>>

\* (When one of the three transforms is missing the others are made, and deleted.)
GamutChain == B("hLab") \cup B("hInput") \cup B("hForward") \cup B("hReverse")
_cmsCreateGamutCheckPipeline(nGamutPCSposition) ==
    <<Require(nGamutPCSposition \in 1..255)>>
    \o Within(GamutChain,
         <<New("hLab"), New("hInput"), New("hForward"), New("hReverse"), New("Gamut"),
           NewAt("mpe", 1) ?? B("Gamut"), GiveAt("mpe", 1, "Gamut", 0)>>)
    \o <<Use("hInput"), Use("hForward"), Use("hReverse"),
         Drop("hInput"), Drop("hForward"), Drop("hReverse"), Drop("hLab"), Return("Gamut")>>

cmsDetectTAC(p) ==
    <<Require(p.class = "prtr"), Require(p.channels \in 1..15)>>
    \o Between("hLab", "hRoundTrip") \o <<Use("hRoundTrip"), Drop("hRoundTrip")>>

cmsDetectRGBProfileGamma(p) ==
    <<Require(p.space = "RGB "), Require(p.class \in {"scnr", "mntr", "prtr", "spac"}),
      New("hXYZ"), New("xform") ?? B("hXYZ"), Use("xform"), Drop("xform"), Drop("hXYZ"),
      New("Y_curve"), Use("Y_curve"), Drop("Y_curve")>>

(***************************************************************************)
(* Black points (cmssamp.c).                                               *)
(***************************************************************************)
CreateRoundtripXForm == BetweenGranted("hLab", "hRoundTrip")

\* p: the intents that it can be read with, and whether its number of channels is known.
BlackPointAsDarkerColorant(p, Intent) ==
    <<Require(Intent \in p.supported), Require(p.ends)>>
    \o Between("hLab", "xform") \o <<Use("xform"), Drop("xform")>>

BlackPointUsingPerceptualBlack(p) ==
    When("perceptual" \in p.supported,
         CreateRoundtripXForm \o <<Use("hRoundTrip"), Drop("hRoundTrip")>>)

Inks == {"CMYK", "CMY ", "4CLR"}
isInkColorspace(space) == space \in Inks
HasBlack(p, Intent) ==
    <<Require(p.class \notin {"link", "abst", "nmcl"}),
      Require(Intent \in {"perceptual", "relative", "saturation"})>>
\* Version 4 fixes the black of these intents, save for what has no tables.
FixedBlack(p, Intent) == p.version >= 4 /\ Intent \in {"perceptual", "saturation"}

cmsDetectBlackPoint(p, Intent) ==
    HasBlack(p, Intent)
    \o CASE FixedBlack(p, Intent) ->
              When(p.matrixShaper, BlackPointAsDarkerColorant(p, "relative"))
         [] ~FixedBlack(p, Intent) /\ Intent = "relative" /\ p.class = "prtr"
              /\ isInkColorspace(p.space) -> BlackPointUsingPerceptualBlack(p)
         [] OTHER -> BlackPointAsDarkerColorant(p, Intent)

\* ramp is what comes back of the lightnesses: a ramp that does not rise, one that
\* is straight, one with too few points in the shadows, or one that is fitted.
cmsDetectDestinationBlackPoint(p, Intent, ramp) ==
    LET fitted ==
          When(Intent = "relative", cmsDetectBlackPoint(p, Intent))
          \o CreateRoundtripXForm
          \o <<Use("hRoundTrip"), Require(ramp # "flat") ?? B("hRoundTrip")>>
          \o When(~(ramp = "straight" /\ Intent = "relative"),
                  <<Require(ramp # "few") ?? B("hRoundTrip")>>)
          \o <<Drop("hRoundTrip")>>
    IN  HasBlack(p, Intent)
        \o CASE FixedBlack(p, Intent) ->
                  When(p.matrixShaper, BlackPointAsDarkerColorant(p, "relative"))
             [] ~FixedBlack(p, Intent)
                  /\ p.clut /\ (p.space \in {"GRAY", "RGB "} \/ isInkColorspace(p.space)) -> fitted
             [] OTHER -> cmsDetectBlackPoint(p, Intent)
=============================================================================
