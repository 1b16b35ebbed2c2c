------------------------------ MODULE TagTypes ------------------------------
(***************************************************************************)
(* The simple tag types of cmstypes.c: how each is read from a profile,    *)
(* written to it, duplicated and freed.  s describes the data: what is in  *)
(* the object to be written, or the numbers found in a file.               *)
(***************************************************************************)
EXTENDS Allocations

(***************************************************************************)
(* Types with one block and fields of a fixed width.                       *)
(***************************************************************************)
Type_XYZ_Read(s) == <<New("xyz"), Get("XYZ", 12) ?? B("xyz"), Return("xyz")>>
Type_XYZ_Write(s) == <<Put("XYZ", 12)>>
Type_XYZ_Dup(s) == <<New("xyz"), Return("xyz")>>
Type_XYZ_Free(s) == <<Drop("xyz")>>

\* Some profiles have two bytes too many in front.
Type_Chromaticity_Read(s) ==
    <<New("chrm")>>
    \o Within(B("chrm"),
         <<Get("nChans", 2)>>
         \o When(s.shifted, <<Get("reserved", 2), Get("nChans", 2)>>)
         \o <<Require(s.nChans = 3), Get("Table", 2), Get("Red", 8), Get("Green", 8), Get("Blue", 8)>>)
    \o <<Return("chrm")>>
Type_Chromaticity_Write(s) ==
    <<Put("nChans", 2), Put("Table", 2), Put("Red", 8), Put("Green", 8), Put("Blue", 8)>>
Type_Chromaticity_Dup(s) == <<New("chrm"), Return("chrm")>>
Type_Chromaticity_Free(s) == <<Drop("chrm")>>

\* The list is 16 long; what is not used is 0xFF, and comes last.
Type_ColorantOrderType_Read(s) ==
    <<Get("Count", 4), Require(s.n <= cmsMAXCHANNELS), New("ColorantOrder"),
      Get("ColorantOrder", s.n) ?? B("ColorantOrder"), Return("ColorantOrder")>>
Type_ColorantOrderType_Write(s) == <<Put("Count", 4), Put("ColorantOrder", s.n)>>
Type_ColorantOrderType_Dup(s) == <<New("ColorantOrder"), Return("ColorantOrder")>>
Type_ColorantOrderType_Free(s) == <<Drop("ColorantOrder")>>

(***************************************************************************)
(* Arrays of numbers that fill the tag.  _cmsCalloc gives no block of zero *)
(* bytes.                                                                  *)
(***************************************************************************)
ReadNumbers(n, width) ==
    <<Require(n > 0), New("array")>>
    \o Within(B("array"), Loop(n, LAMBDA i : <<GetAt("number", i, width)>>))
    \o <<Return("array")>>
WriteNumbers(n, width) == Loop(n, LAMBDA i : <<PutAt("number", i, width)>>)
DupNumbers == <<New("array"), Return("array")>>

Type_UInt8_Read(s, SizeOfTag) == ReadNumbers(SizeOfTag, 1)
Type_UInt8_Write(s) == WriteNumbers(s.n, 1)
Type_UInt8_Dup(s) == DupNumbers
Type_UInt8_Free(s) == <<Drop("array")>>
Type_UInt32_Read(s, SizeOfTag) == ReadNumbers(SizeOfTag \div 4, 4)
Type_UInt32_Write(s) == WriteNumbers(s.n, 4)
Type_UInt32_Dup(s) == DupNumbers
Type_UInt32_Free(s) == <<Drop("array")>>
Type_UInt64_Read(s, SizeOfTag) == ReadNumbers(SizeOfTag \div 8, 8)
Type_UInt64_Write(s) == WriteNumbers(s.n, 8)
Type_UInt64_Dup(s) == DupNumbers
Type_UInt64_Free(s) == <<Drop("array")>>
Type_S15Fixed16_Read(s, SizeOfTag) == ReadNumbers(SizeOfTag \div 4, 4)
Type_S15Fixed16_Write(s) == WriteNumbers(s.n, 4)
Type_S15Fixed16_Dup(s) == DupNumbers
Type_S15Fixed16_Free(s) == <<Drop("array")>>
Type_U16Fixed16_Read(s, SizeOfTag) == ReadNumbers(SizeOfTag \div 4, 4)
Type_U16Fixed16_Write(s) == WriteNumbers(s.n, 4)
Type_U16Fixed16_Dup(s) == DupNumbers
Type_U16Fixed16_Free(s) == <<Drop("array")>>

(***************************************************************************)
(* Signatures, dates, data.                                                *)
(***************************************************************************)
Type_Signature_Read(s) == <<New("SigPtr"), Overlooked(Get("Signature", 4)), Return("SigPtr")>>
Type_Signature_Write(s) == <<Put("Signature", 4)>>
Type_Signature_Dup(s) == <<New("SigPtr"), Return("SigPtr")>>
Type_Signature_Free(s) == <<Drop("SigPtr")>>

Type_DateTime_Read(s) == <<New("NewDateTime"), Overlooked(Get("timestamp", 12)), Return("NewDateTime")>>
Type_DateTime_Write(s) == <<Put("timestamp", 12)>>
Type_DateTime_Dup(s) == <<New("NewDateTime"), Return("NewDateTime")>>
Type_DateTime_Free(s) == <<Drop("NewDateTime")>>

Type_Data_Read(s, SizeOfTag) ==
    <<Require(SizeOfTag >= 4), New("BinData"), Get("flag", 4) ?? B("BinData"),
      Get("data", SizeOfTag - 4) ?? B("BinData"), Return("BinData")>>
Type_Data_Write(s) == <<Put("flag", 4), Put("data", s.n)>>
Type_Data_Dup(s) == <<New("BinData"), Return("BinData")>>
Type_Data_Free(s) == <<Drop("BinData")>>

Type_Measurement_Read(s) ==
    <<Get("Observer", 4), Get("Backing", 12), Get("Geometry", 4), Get("Flare", 4),
      Get("IlluminantType", 4), New("mc"), Return("mc")>>
Type_Measurement_Write(s) ==
    <<Put("Observer", 4), Put("Backing", 12), Put("Geometry", 4), Put("Flare", 4),
      Put("IlluminantType", 4)>>
Type_Measurement_Dup(s) == <<New("mc"), Return("mc")>>
Type_Measurement_Free(s) == <<Drop("mc")>>

(***************************************************************************)
(* Arrays of wide characters, two bytes each in the file, whatever their   *)
(* size in memory.                                                         *)
(***************************************************************************)
ReadWCharArray(f, i, n) == GetAt(f, i, 2 * n)
WriteWCharArray(f, i, n) == PutAt(f, i, 2 * n)

(***************************************************************************)
(* Texts.  The types that follow are also found within others: k tells     *)
(* the object read or written from the rest.  s.text is the length of the  *)
(* text with its zero, 0 for an object without one.                        *)
(***************************************************************************)
Type_Text_Read(k, s, SizeOfTag) ==
    LET held == {<<"mlu", k>>, <<"Text", k>>}
    IN  cmsMLUalloc(k)
        \o Within({<<"mlu", k>>}, <<NewAt("Text", k)>>)
        \o Within(held, <<GetAt("Text", k, SizeOfTag)>> \o cmsMLUsetASCII(k, FALSE))
        \o <<DropAt("Text", k)>>
Type_Text_Write(k, s) ==
    <<Require(s.text > 0), NewAt("Text", k), PutAt("Text", k, s.text) ?? {<<"Text", k>>},
      DropAt("Text", k)>>
Type_Text_Dup(s) == cmsMLUdup(0, TRUE) \o <<Return("mlu")>>
Type_Text_Free(s) == <<Drop("mlu")>>

\* The ASCII text is required.  Without the Unicode one and the Macintosh script
\* code after it, the object has what was read.
Type_Text_Description_Read(k, s, SizeOfTag) ==
    LET rest == SizeOfTag - 4 - s.ascii
        wide == rest - 8 - 2 * s.unicode
        mlu == {<<"mlu", k>>}
    IN  <<Require(SizeOfTag >= 4), GetAt("AsciiCount", k, 4), Require(SizeOfTag - 4 >= s.ascii)>>
        \o cmsMLUalloc(k)
        \o Within(mlu, <<NewAt("Text", k)>>)
        \o Within(mlu \cup {<<"Text", k>>},
                  <<GetAt("Text", k, s.ascii)>> \o cmsMLUsetASCII(k, FALSE))
        \o <<DropAt("Text", k)>>
        \o Returning(<<Require(rest >= 8), GetAt("UnicodeCode", k, 4), GetAt("UnicodeCount", k, 4),
                       Require(s.unicode > 0 /\ wide >= 0), NewAt("UnicodeString", k)>>
                     \o Within({<<"UnicodeString", k>>},
                               <<ReadWCharArray("Unicode", k, s.unicode)>> \o cmsMLUsetWide(k, TRUE)))
        \o <<DropAt("UnicodeString", k)>>
        \o When(wide >= 70,
                <<Returns(GetAt("ScriptCodeCode", k, 2)), Returns(GetAt("ScriptCodeCount", k, 1)),
                  GetAt("Mac", k, 67) ?? mlu>>)
        \o <<Done>>
\* Both texts get the length of the first one.  Where there is none the copies of ""
\* are used without asking for them.
Type_Text_Description_Write(k, s) ==
    LET text == Max({s.text, 1})
        texts == {<<"Text", k>>, <<"Wide", k>>}
        length == 8 + 4 + text + 8 + 2 * text + 70
    IN  (IF s.text = 0 THEN <<Unasked(NewAt("Text", k)), Unasked(NewAt("Wide", k)), UseAt("Text", k)>>
                       ELSE <<NewAt("Text", k), NewAt("Wide", k) ?? {<<"Text", k>>}>>)
        \o Within(texts,
             <<PutAt("AsciiCount", k, 4), PutAt("Text", k, text), PutAt("UnicodeCode", k, 4),
               PutAt("UnicodeCount", k, 4), WriteWCharArray("Unicode", k, text),
               PutAt("ScriptCodeCode", k, 2), PutAt("ScriptCodeCount", k, 1), PutAt("Mac", k, 67),
               PutAt("Filler", k, (4 - (length % 4)) % 4)>>)
        \o <<DropAt("Text", k), DropAt("Wide", k)>>
Type_Text_Description_Dup(s) == cmsMLUdup(0, TRUE) \o <<Return("mlu")>>
Type_Text_Description_Free(s) == <<Drop("mlu")>>

\* The strings follow the table of their lengths and offsets, in one pool.  s.n is
\* their number and s.text the length of the pool; s.where says what a file gives
\* for an offset.
Type_MLU_Read(k, s) ==
    LET mlu == {<<"mlu", k>>}
    IN  <<GetAt("Count", k, 4), GetAt("RecLen", k, 4), Require(s.recLen = 12)>>
        \o cmsMLUalloc(k)
        \o Within(mlu,
             Loop(s.n, LAMBDA i :
               <<GetAt("Language", Part(k, i), 2), GetAt("Country", Part(k, i), 2),
                 GetAt("Len", Part(k, i), 4), GetAt("Offset", Part(k, i), 4),
                 Require(s.where = "inside")>>)
             \o When(s.text > 0,
                  <<NewAt("MemPool", k), ReadWCharArray("Pool", k, s.text) ?? {<<"MemPool", k>>},
                    GiveAt("MemPool", k, "mlu", k)>>))
Type_MLU_Write(k, s) ==
    <<PutAt("Count", k, 4), PutAt("RecLen", k, 4)>>
    \o Loop(s.n, LAMBDA i :
         <<PutAt("Language", Part(k, i), 2), PutAt("Country", Part(k, i), 2),
           PutAt("Len", Part(k, i), 4), PutAt("Offset", Part(k, i), 4)>>)
    \o <<WriteWCharArray("Pool", k, s.text)>>
Type_MLU_Dup(s) == cmsMLUdup(0, s.text > 0) \o <<Return("mlu")>>
Type_MLU_Free(s) == <<Drop("mlu")>>

\* Texts are kept as one type or another by version, and also by what they hold.
Text == "text"
TextDescription == "desc"
MultiLocalizedUnicode == "mluc"
DecideTextType(ICCVersion, s) == IF ICCVersion >= 4 THEN MultiLocalizedUnicode ELSE Text
DecideTextDescType(ICCVersion, s) ==
    IF ICCVersion >= 4 THEN MultiLocalizedUnicode ELSE TextDescription

(***************************************************************************)
(* Tone curves.  In memory a curve has the types of its segments, none for *)
(* a table of entries; in a file it is a table ("curv") of count entries,  *)
(* or parametric ("para") of a type.                                       *)
(***************************************************************************)
Tabulated == "curv"
Parametric == "para"

\* The count says what follows: nothing, a gamma, or a table.
Type_Curve_Read(k, s) ==
    <<GetAt("Count", k, 4)>>
    \o (CASE s.count = 0 -> <<NewAt("curve", k)>>
          [] s.count = 1 -> <<GetAt("Gamma", k, 2), NewAt("curve", k)>>
          [] s.count > 1 -> <<Require(s.count <= 32767), NewAt("curve", k),
                              GetAt("Table16", k, 2 * s.count) ?? {<<"curve", k>>}>>)
Type_Curve_Write(k, s) ==
    <<PutAt("Count", k, 4),
      IF s.segments = <<1>> THEN PutAt("Gamma", k, 2) ELSE PutAt("Table16", k, 2 * s.entries)>>
Type_Curve_Dup(s) == <<New("curve"), Return("curve")>>
Type_Curve_Free(s) == <<Drop("curve")>>

\* Type counts from 0 in the file, and from 1 in the segments.
ParamsByType == <<1, 3, 4, 5, 7>>
Type_ParametricCurve_Read(k, s) ==
    <<GetAt("Type", k, 2), GetAt("reserved", k, 2), Require(s.type <= 4)>>
    \o (IF s.type <= 4
        THEN Loop(ParamsByType[s.type + 1], LAMBDA i : <<GetAt("Params", Part(k, i), 4)>>)
        ELSE <<>>)
    \o <<NewAt("curve", k)>>
Type_ParametricCurve_Write(k, s) ==
    <<Require(Len(s.segments) <= 1 /\ s.segments[1] \in 1..5),
      PutAt("Type", k, 2), PutAt("reserved", k, 2)>>
    \o (IF s.segments[1] \in 1..5
        THEN Loop(ParamsByType[s.segments[1]], LAMBDA i : <<PutAt("Params", Part(k, i), 4)>>)
        ELSE <<>>)
Type_ParametricCurve_Dup(s) == <<New("curve"), Return("curve")>>
Type_ParametricCurve_Free(s) == <<Drop("curve")>>

DecideCurveType(ICCVersion, s) ==
    IF \/ ICCVersion < 4 \/ Len(s.segments) # 1
       \/ s.segments[1] < 0 \/ s.segments[1] > 5
    THEN Tabulated ELSE Parametric
=============================================================================
