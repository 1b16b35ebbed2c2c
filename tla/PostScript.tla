----------------------------- MODULE PostScript -----------------------------
(***************************************************************************)
(* Profiles as PostScript resources (cmsps2.c): colour space arrays and    *)
(* rendering dictionaries.  What is written is kept as its brackets and    *)
(* the values of the nodes of a table, each a field of the stream.         *)
(***************************************************************************)
EXTENDS Measurements

\* Brackets and values, in order; an empty one is nothing.  Nobody asks whether they
\* could be written.
Say(tokens) ==
    FlattenSeq([k \in DOMAIN tokens |->
        IF tokens[k] = "" THEN <<>> ELSE <<Unasked(Put(tokens[k], 1))>>])
Enclosed(open, inner, close) == Say(<<open>>) \o inner \o Say(<<close>>)
Braces(inner) == Enclosed("{", inner, "}")
Array(inner) == Enclosed("[", inner, "]")
String == Say(<<"(", ")">>)

(***************************************************************************)
(* The parts of a resource.                                                *)
(***************************************************************************)
EmitRangeCheck == Braces(<<>>) \o Braces(<<>>)
EmitWhiteBlackD50 == Array(<<>>) \o Array(<<>>)
EmitIntent == String
EmitLab2XYZ ==
    LET lmn == Braces(Braces(<<>>) \o Braces(<<>>))
    IN  Array(<<>>) \o Array(Braces(<<>>) \o Braces(<<>>) \o Braces(<<>>)) \o Array(<<>>)
        \o Array(<<>>) \o Array(lmn \o lmn \o lmn)
EmitXYZ2Lab ==
    LET lmn == Braces(Braces(<<>>) \o Braces(<<>>))
    IN  Array(<<>>) \o Array(lmn \o lmn \o lmn) \o Array(<<>>)
        \o Array(Braces(<<>>) \o Braces(<<>>) \o Braces(<<>>))
\* Absolute, or relative with and without black point compensation: three procedures.
EmitPQRStage ==
    Array(<<>>) \o Array(<<>>) \o Array(Braces(<<>>) \o Braces(<<>>) \o Braces(<<>>))

\* A curve is linear or missing, a power, or a table.
Emit1Gamma(curve) ==
    IF curve # "table" THEN Braces(<<>>) ELSE Braces(EmitRangeCheck \o Array(<<>>))
\* A curve like the one before is "dup"; after a missing one there are no more.
EmitNGamma(n, g) ==
    FlattenSeq([i \in 1..n |->
        CASE \E j \in 1..i : g[j] = "none" -> <<>>
          [] i > 1 /\ g[i] = g[i - 1] -> <<>>
          [] OTHER -> Emit1Gamma(g[i])])

(***************************************************************************)
(* A table: the values of its nodes between marks for a new value of the   *)
(* first component and a new value of the second, each written only when   *)
(* the sampler, which visits the nodes in order, meets one.                *)
(***************************************************************************)
Marks(PreMaj, PostMaj, PreMin, PostMin) ==
    [PreMaj |-> PreMaj, PostMaj |-> PostMaj, PreMin |-> PreMin, PostMin |-> PostMin]
Cargo == [FirstComponent |-> -1, SecondComponent |-> -1, said |-> <<>>]

\* (With the second component kept when the first changes.)
OutputValueSamplerKeepingSecond(sc, In, m) ==
    LET major == In[1] # sc.FirstComponent
        between == IF major /\ sc.FirstComponent # -1 THEN <<m.PostMin, m.PostMaj>> ELSE <<>>
        minor == In[2] # sc.SecondComponent
    IN  [FirstComponent |-> In[1], SecondComponent |-> In[2],
         said |-> sc.said \o between
                  \o (IF major THEN <<m.PreMaj>> ELSE <<>>)
                  \o (IF minor /\ sc.SecondComponent # -1 THEN <<m.PostMin>> ELSE <<>>)
                  \o (IF minor THEN <<m.PreMin>> ELSE <<>>)
                  \o <<"value">>]
OutputValueSampler(sc, In, m) ==
    LET major == In[1] # sc.FirstComponent
        between == IF major /\ sc.FirstComponent # -1 THEN <<m.PostMin, m.PostMaj>> ELSE <<>>
        second == IF between # <<>> THEN -1 ELSE sc.SecondComponent
        minor == In[2] # second
    IN  [FirstComponent |-> In[1], SecondComponent |-> In[2],
         said |-> sc.said \o between
                  \o (IF major THEN <<m.PreMaj>> ELSE <<>>)
                  \o (IF minor /\ second # -1 THEN <<m.PostMin>> ELSE <<>>)
                  \o (IF minor THEN <<m.PreMin>> ELSE <<>>)
                  \o <<"value">>]

\* The node visited n-th in a table of so many inputs, samples nodes along each.
Node(n, inputs, samples) == [i \in 1..inputs |-> (n \div samples ^ (inputs - i)) % samples]
WriteCLUT(inputs, samples, m) ==
    LET visit(sc, n) == OutputValueSampler(sc, Node(n, inputs, samples), m)
        sampled == FoldLeft(visit, Cargo, [n \in 1..(samples ^ inputs) |-> n - 1]).said
    IN  Say(<<"[", "[">> \o sampled \o <<m.PostMin, m.PostMaj, "]">>)

(***************************************************************************)
(* Colour space arrays.                                                    *)
(***************************************************************************)
EmitCIEBasedA(curve) ==
    Array(Enclosed("<<", Emit1Gamma(curve) \o Array(<<>>) \o Array(<<>>)
                         \o EmitWhiteBlackD50 \o EmitIntent, ">>"))
EmitCIEBasedABC(CurveSet) ==
    Array(Enclosed("<<", Array(EmitNGamma(3, CurveSet)) \o Array(<<>>) \o Array(<<>>)
                         \o EmitWhiteBlackD50 \o EmitIntent, ">>"))
\* lut is the pipeline: its inputs, curves before the table if any, and the nodes of
\* the table, if there is one.
EmitCIEBasedDEF(lut) ==
    LET m == IF lut.inputs = 3 THEN Marks("<", ">", "", "") ELSE Marks("[", "]", "<", ">")
    IN  <<Require(lut.inputs \in {3, 4})>>
        \o Array(Enclosed("<<",
             When(lut.curves # <<>>, Array(EmitNGamma(lut.inputs, lut.curves)))
             \o When(lut.samples > 0, WriteCLUT(lut.inputs, lut.samples, m) \o Say(<<"]">>))
             \o EmitLab2XYZ \o EmitWhiteBlackD50 \o EmitIntent, ">>"))

ExtractGray2Y ==
    <<Anyway(New("Out")), Anyway(New("hXYZ")), Anyway(New("xform0")),
      Drop("xform0"), Drop("hXYZ")>>

\* The Lab profile is not looked at before it is put in the list.
WriteInputLUT(lut) ==
    BetweenGranted("hLab", "xform")
    \o (CASE lut.inputs = 1 ->
              ExtractGray2Y \o Within(B("xform") \cup B("Out"), EmitCIEBasedA("table")) \o <<Drop("Out")>>
         [] lut.inputs \in {3, 4} ->
              Within(B("xform"), <<New("DeviceLink"), Anyway(Try("_cmsOptimizePipeline"))>>
                                 \o Within(B("DeviceLink"), EmitCIEBasedDEF(lut)))
              \o <<Drop("DeviceLink")>>
         [] OTHER -> <<Require(FALSE) ?? B("xform")>>)
    \o <<Drop("xform")>>

WriteInputMatrixShaper(p) ==
    CASE p.space = "GRAY" -> EmitCIEBasedA("power")
      [] p.space = "RGB " -> EmitCIEBasedABC(p.shaper)
      [] OTHER -> <<Require(FALSE)>>

EmitPSEscaped == String
NamedColors(colours) ==
    Enclosed("<<", String \o String \o String \o Array(String \o String)
                   \o String \o Array(String \o String \o String)
                   \o Loop(colours, LAMBDA i : EmitPSEscaped \o Array(Say(<<"value">>))), ">>")

WriteNamedColorCSA(colours) ==
    <<Anyway(New("hLab")), New("xform") ?? B("hLab"), Drop("hLab")>>
    \o Within(B("xform"), <<Require(colours > 0)>> \o NamedColors(colours))
    \o <<Drop("xform")>>

GenerateCSA(p, lut) ==
    IF p.class = "nmcl" THEN WriteNamedColorCSA(lut.samples)
    ELSE <<Require(p.pcs \in {"XYZ ", "Lab "}), New("lut")>>
         \o Within(B("lut"), IF p.matrixShaper THEN WriteInputMatrixShaper(p)
                             ELSE WriteInputLUT(lut))
         \o <<Drop("lut")>>

(***************************************************************************)
(* Rendering dictionaries.                                                 *)
(***************************************************************************)
WriteOutputLUT(lut) ==
    Between("hLab", "xform")
    \o Within(B("xform"), <<New("DeviceLink"), Try("_cmsOptimizePipeline") ?? B("DeviceLink")>>)
    \o Within(B("xform") \cup B("DeviceLink"),
         Enclosed("<<",
           EmitWhiteBlackD50 \o EmitPQRStage \o EmitXYZ2Lab
           \o <<Require(lut.curves = <<>>)>>
           \o WriteCLUT(lut.inputs, lut.samples, Marks("<", ">", "", "")) \o Braces(<<>>) \o Say(<<"]">>)
           \o EmitIntent, ">>"))
    \o <<Drop("DeviceLink"), Drop("xform")>>

WriteNamedColorCRD(colours) ==
    <<New("xform")>>
    \o Within(B("xform"), <<Require(colours > 0)>> \o NamedColors(colours))
    \o <<Drop("xform")>>

GenerateCRD(p, lut) ==
    IF p.class = "nmcl" THEN WriteNamedColorCRD(lut.samples) ELSE WriteOutputLUT(lut)

\* Into a buffer, or into a handler that only counts.
cmsGetPostScriptCSA(p, lut) == <<New("mem")>> \o Within(B("mem"), GenerateCSA(p, lut)) \o <<Drop("mem")>>
cmsGetPostScriptCRD(p, lut) == <<New("mem")>> \o Within(B("mem"), GenerateCRD(p, lut)) \o <<Drop("mem")>>
=============================================================================
