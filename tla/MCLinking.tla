------------------------------ MODULE MCLinking ------------------------------
(***************************************************************************)
(* A profile of each kind that linking treats in a way of its own.         *)
(***************************************************************************)
EXTENDS Linking

Profile(name, class, space, pcs, v4, tags) ==
    [name |-> name, DeviceClass |-> class, ColorSpace |-> space, PCS |-> pcs, v4 |-> v4,
     HeaderIntent |-> 0, white |-> name, black |-> name, linear |-> FALSE, tags |-> tags]
Table(type, parts, in, out) == [type |-> type, parts |-> parts, in |-> in, out |-> out]
Full == <<"Curves", "CLut", "Curves">>
Shaper == [Colorants |-> "yes", TRC |-> "yes"]
Both(type, device) == [AToB0 |-> Table(type, Full, device, 3), BToA0 |-> Table(type, Full, 3, device),
                       AToB1 |-> Table(type, Full, device, 3), BToA1 |-> Table(type, Full, 3, device)]

sRGB == Profile("sRGB", "Display", "RGB", "XYZ", TRUE, Shaper)
linear == [Profile("linear", "Display", "RGB", "XYZ", FALSE, Shaper) EXCEPT !.linear = TRUE]
shaperLab == Profile("shaperLab", "Display", "RGB", "Lab", FALSE, Shaper)
gray == Profile("gray", "Display", "GRAY", "XYZ", FALSE, [GrayTRC |-> "yes"])
grayLab == Profile("grayLab", "Output", "GRAY", "Lab", TRUE, [GrayTRC |-> "yes"])
press == Profile("press", "Output", "CMYK", "Lab", FALSE, Both("Lut16", 4))
proof == Profile("proof", "Output", "CMYK", "Lab", TRUE, Both("LutAB", 4))
paper == Profile("paper", "Input", "CMYK", "XYZ", FALSE, Both("Lut8", 4))
float == Profile("float", "Display", "RGB", "Lab", TRUE,
                 Shaper @@ [DToB1 |-> Table("MPE", <<"Matrix", "Curves">>, 3, 3),
                            BToD1 |-> Table("MPE", <<"Curves", "Matrix">>, 3, 3)])
floatXYZ == Profile("floatXYZ", "Display", "RGB", "XYZ", TRUE,
                    [DToB0 |-> Table("MPE", <<"Matrix">>, 3, 3), DToB1 |-> Table("MPE", <<"Matrix">>, 3, 3),
                     BToD0 |-> Table("MPE", <<"Matrix">>, 3, 3), BToD1 |-> Table("MPE", <<"Matrix">>, 3, 3)])
Lab4 == Profile("Lab4", "Abstract", "Lab", "Lab", TRUE, [AToB0 |-> Table("LutAB", <<"CLut">>, 3, 3)])
Lab2 == Profile("Lab2", "Abstract", "Lab", "Lab", FALSE, [AToB0 |-> Table("Lut16", <<"CLut">>, 3, 3)])
same == Profile("same", "Abstract", "Lab", "Lab", TRUE, [AToB0 |-> Table("LutAB", <<>>, 3, 3)])
sameXYZ == Profile("sameXYZ", "Abstract", "XYZ", "XYZ", TRUE, [AToB0 |-> Table("LutAB", <<>>, 3, 3)])
inks == Profile("inks", "Link", "CMYK", "CMYK", TRUE, [AToB0 |-> Table("LutAB", Full, 4, 4)])
link16 == Profile("link16", "Link", "RGB", "Lab", FALSE, [AToB0 |-> Table("Lut16", Full, 3, 3)])
spot == Profile("spot", "NamedColor", "RGB", "Lab", TRUE, [NamedColor2 |-> "yes"])
wrong == Profile("wrong", "Output", "CMYK", "Lab", FALSE,
                 [AToB0 |-> Table("Lut8", Full, 4, 4)] @@ Both("Lut16", 3))
oneWay == Profile("oneWay", "Output", "CMYK", "Lab", FALSE,
                  [BToA0 |-> Table("Lut16", Full, 3, 4), BToA1 |-> Table("Lut16", Full, 3, 4)])
blank == Profile("blank", "Link", "CMYK", "CMYK", TRUE, <<>>)
\* A link from CMYK that does not lead to CMYK.
onScreen == Profile("onScreen", "Link", "CMYK", "RGB", TRUE, [AToB0 |-> Table("LutAB", Full, 4, 3)])

MCChains ==
    {<<sRGB, sRGB>>, <<sRGB, press>>, <<linear, shaperLab>>, <<shaperLab, gray>>, <<gray, grayLab>>, <<grayLab, paper>>,
     <<press, sRGB>>, <<press, proof>>, <<press, paper>>, <<proof, float>>, <<paper, linear>>, <<float, floatXYZ>>,
     <<floatXYZ, press>>, <<float, shaperLab>>, <<press, wrong>>, <<wrong, sRGB>>, <<floatXYZ, floatXYZ>>, <<shaperLab, shaperLab>>}
    \union {<<spot>>, <<inks>>, <<link16>>, <<Lab2>>, <<spot, press>>, <<link16, proof>>,
            <<sRGB, Lab2, press>>, <<press, Lab2, Lab4, float>>, <<sRGB, Lab4>>,
            <<press, inks>>, <<press, proof, inks>>, <<proof, press, sRGB, press>>, <<press, inks, sRGB>>,
            <<sRGB, press, proof, sRGB>>, <<float, Lab4, floatXYZ>>, <<press, sRGB, inks>>,
            <<press, oneWay>>, <<press, proof, blank>>, <<press, proof, onScreen, inks, inks>>, <<press, proof, onScreen, inks>>, <<same>>, <<same, sameXYZ, same>>}
ASSUME MCAssumption == \A chain \in MCChains : RegularChain(chain)
MCFlagSets == {{}, {"NOOPTIMIZE", "NONEGATIVES"}, {"FORCE_CLUT", "CLUT_PRE_LINEARIZATION"},
               {"CLUT_PRE_LINEARIZATION", "CLUT_POST_LINEARIZATION", "NOWHITEONWHITEFIXUP"}}
Pixels == [eight |-> [bytes |-> 1, float |-> FALSE, planar |-> FALSE],
           sixteen |-> [bytes |-> 2, float |-> FALSE, planar |-> TRUE],
           float |-> [bytes |-> 4, float |-> TRUE, planar |-> FALSE]]
MCDepths == {<<Pixels.eight, Pixels.eight>>, <<Pixels.sixteen, Pixels.sixteen>>, <<Pixels.eight, Pixels.float>>}
=============================================================================
