----------------------------- MODULE Formatters -----------------------------
(***************************************************************************)
(* The stock formatters of cmspack.c: which routine a pixel format gets    *)
(* from the four tables, and which sample of memory each channel comes     *)
(* from or goes to, altered in which way.                                  *)
(***************************************************************************)
EXTENDS Integers, Sequences, FiniteSets, SequencesExt

(***************************************************************************)
(* The formats of pixels that lcms2.h encodes in the bits of a word.       *)
(***************************************************************************)
\* The colour spaces that formatters tell apart; PT_RGB stands for the other ones.
PT_ANY == 0
PT_GRAY == 3
PT_RGB == 4
PT_CMY == 5
PT_CMYK == 6
PT_XYZ == 9
PT_Lab == 10
PT_MCH2 == 16
PT_MCH(n) == 14 + n
PT_LabV2 == 30

\* The fields of one bit are the flags of a format.
Flags == {"premul", "float", "optimized", "swapfirst", "flavor", "planar", "endian", "doswap"}

PixelFormats == [space: 0..31, channels: 0..15, extra: 0..7, bytes: {0, 1, 2, 4}, flags: SUBSET Flags]

Format(space, channels, extra, bytes, flags) ==
    [space |-> space, channels |-> channels, extra |-> extra, bytes |-> bytes, flags |-> flags]

\* A field of zero bytes means doubles.
PixelSize(f) == IF f.bytes = 0 THEN 8 ELSE f.bytes

ExtraFirst(f) == ("doswap" \in f.flags) # ("swapfirst" \in f.flags)

(***************************************************************************)
(* The named formats, by families; where the header names nearly every     *)
(* combination, the family has all of them.                                *)
(***************************************************************************)
Integer(space, channels, extra, orders) ==
    {Format(space, channels, extra, bytes, flags) : bytes \in {1, 2}, flags \in orders}

\* The variants of an integer format: planar, swapped bytes.
Variants(types) ==
    types \cup {[t EXCEPT !.flags = @ \cup {"planar"}] : t \in types}
          \cup {[t EXCEPT !.flags = @ \cup {"endian"}] : t \in {u \in types : u.bytes = 2}}

Premultiplied(types) ==
    {[t EXCEPT !.flags = @ \cup {"premul"}] : t \in {u \in types : u.extra > 0}}

Orders == {{}, {"swapfirst"}, {"doswap"}, {"doswap", "swapfirst"}}

GrayTypes ==
    LET plain == Integer(PT_GRAY, 1, 0, {{}, {"flavor"}})
        alpha == Integer(PT_GRAY, 1, 1, {{}})
    IN  plain \cup {Format(PT_GRAY, 1, 0, 2, {"endian"})} \cup Variants(alpha) \cup Premultiplied(alpha)
RGBTypes ==
    LET alpha == Integer(PT_RGB, 3, 1, Orders)
    IN  Variants(Integer(PT_RGB, 3, 0, {{}, {"doswap"}})) \cup Variants(alpha) \cup Premultiplied(alpha)
CMYKTypes ==
    Variants(Integer(PT_CMY, 3, 0, {{}}) \cup Integer(PT_CMYK, 4, 0, {{}}))
      \cup {Format(PT_CMYK, 4, 1, 1, {})}
      \cup Integer(PT_CMYK, 4, 0, {{"flavor"}, {"doswap"}, {"swapfirst"}, {"flavor", "swapfirst"}})
      \cup {Format(PT_CMYK, 4, 0, 2, {"endian", order}) : order \in {"doswap", "swapfirst"}}
MultiInkTypes ==
    UNION {LET inks == Integer(PT_MCH(n), n, 0, {{}, {"doswap"}})
           IN  IF n = 6 THEN Variants({t \in inks : "doswap" \notin t.flags})
               ELSE inks \cup {t \in Variants(inks) : "endian" \in t.flags} : n \in 5..12}
LabTypes ==
    {Format(space, 3, 0, bytes, {}) : space \in {PT_Lab, PT_LabV2}, bytes \in {1, 2}}
      \cup {Format(space, 3, 1, 1, {"swapfirst"}) : space \in {PT_Lab, PT_LabV2}}
      \cup {Format(PT_XYZ, 3, 0, 2, {})}
\* Floats and doubles.
FloatTypes ==
    LET alpha == {Format(PT_RGB, 3, 1, 4, order \cup {"float"}) : order \in Orders}
                   \cup {Format(PT_GRAY, 1, 1, 4, {"float"})}
    IN  {Format(space, 3, 0, bytes, {"float"}) : space \in {PT_XYZ, PT_Lab, PT_RGB}, bytes \in {0, 4}}
          \cup {Format(PT_GRAY, 1, 0, bytes, {"float"}) : bytes \in {0, 4}}
          \cup {Format(PT_CMYK, 4, 0, bytes, {"float"}) : bytes \in {0, 4}}
          \cup {Format(PT_RGB, 3, 0, bytes, {"float", "doswap"}) : bytes \in {0, 4}}
          \cup {Format(PT_Lab, 3, 1, 4, {"float"}), Format(PT_MCH(3), 3, 0, 0, {"float"})}
          \cup alpha \cup Premultiplied(alpha)
\* TYPE_ABGR_HALF_FLT is the same word as TYPE_BGR_HALF_FLT: it has no extra sample.
HalfTypes ==
    {Format(PT_GRAY, 1, 0, 2, {"float"}), Format(PT_CMYK, 4, 0, 2, {"float"})}
      \cup {Format(PT_RGB, 3, 0, 2, {"float"} \cup order) : order \in {{}, {"doswap"}}}
      \cup {Format(PT_RGB, 3, 1, 2, {"float"} \cup order) : order \in Orders \ {{"doswap"}}}

NamedTypes ==
    GrayTypes \cup RGBTypes \cup CMYKTypes \cup MultiInkTypes \cup LabTypes \cup FloatTypes \cup HalfTypes

(***************************************************************************)
(* A sample is post(mul(pre(channel))), where pre and post complement the  *)
(* value ("rev"), swap its bytes ("endian") or change the encoding of Lab  *)
(* ("labV2"), and mul multiplies by the sample at an address.  Complement  *)
(* and swap undo themselves and commute; multiplying does not commute with *)
(* them.  Nothing can be read out of a sample that is Spoilt.              *)
(***************************************************************************)
Once == -1
Plain(c) == [ch |-> c, pre |-> {}, mul |-> Once, post |-> {}]
Alpha(k) == Plain(100 + k)
Spoilt == Plain(-2)
Neighbour == Plain(-3)      \* what lies outside of the pixel

\* One step of a routine on a sample; at is the address of the alpha it uses.
Altered(v, op, at) ==
    CASE v = Spoilt \/ op \in {"spoil", "low"} -> Spoilt
      [] v # Spoilt /\ op \in {"rev", "endian", "labV2"} /\ v.mul = Once ->
            [v EXCEPT !.pre = SymDiff(@, {op})]
      [] v # Spoilt /\ op \in {"rev", "endian", "labV2"} /\ v.mul # Once ->
            [v EXCEPT !.post = SymDiff(@, {op})]
      [] v # Spoilt /\ op = "mul" ->
            IF v.mul = Once THEN [v EXCEPT !.mul = at] ELSE Spoilt
      [] v # Spoilt /\ op = "div" ->
            IF v.mul = at /\ v.post = {} THEN [v EXCEPT !.mul = Once] ELSE Spoilt

\* A routine does to the samples what the format asks for.
Asked(f, op) ==
    CASE op \in {"rev", "spoil"} -> "flavor" \in f.flags
      [] op \in {"mul", "div"}   -> "premul" \in f.flags
      [] op = "endian"           -> "endian" \in f.flags
      [] op \in {"labV2", "low"} -> TRUE

(***************************************************************************)
(* Routines.  Special ones go over consecutive samples; lanes[k] is the    *)
(* channel of the k-th one, Skip if it is passed over.  The others compute *)
(* that from the format.  A routine has                                    *)
(*   form    how it finds samples: one after the other ("chunky"), Stride  *)
(*           bytes apart ("planar"), or by what the format says ("either") *)
(*   ops     what it does to each sample, in this order, if the format     *)
(*           asks for it; "spoil" is a complement of a number that was     *)
(*           scaled already                                                *)
(*   rotates does it rotate the channels for SwapFirst without Extra?      *)
(*   alpha   where it finds the alpha of a pixel that has it last, as a    *)
(*           multiple of the address of that sample                        *)
(*   unit    the size of the samples by which it counts Stride: its own,   *)
(*           that of the other buffer of the transform, or one byte, where *)
(*           it forgets to divide                                          *)
(***************************************************************************)
Skip == -1
Computed == <<>>

Special(lanes, ops) ==
    [lanes |-> lanes, form |-> "chunky", ops |-> ops, rotates |-> FALSE,
     alpha |-> 1, unit |-> "own"]
Generic(form, ops, rotates) ==
    [Special(Computed, ops) EXCEPT !.form = form, !.rotates = rotates]
\* Lab and XYZ: three samples, then the extra ones.
Triple(ops) == [Special(<<0, 1, 2>>, ops) EXCEPT !.form = "either"]

NoRoutine == Special(<<Skip>>, <<>>)

\* Unrolling bytes to 16 bits.
UnrollChunkyBytes == Generic("chunky", <<"rev", "div">>, TRUE)
UnrollPlanarBytes == Generic("planar", <<"rev", "div">>, FALSE)
Unroll4Bytes == Special(<<0, 1, 2, 3>>, <<>>)
Unroll4BytesReverse == Special(<<0, 1, 2, 3>>, <<"rev">>)
Unroll4BytesSwapFirst == Special(<<3, 0, 1, 2>>, <<>>)
Unroll4BytesSwap == Special(<<3, 2, 1, 0>>, <<>>)
Unroll4BytesSwapSwapFirst == Special(<<2, 1, 0, 3>>, <<>>)
Unroll3Bytes == Special(<<0, 1, 2>>, <<>>)
Unroll3BytesSkip1Swap == Special(<<Skip, 2, 1, 0>>, <<>>)
Unroll3BytesSkip1SwapSwapFirst == Special(<<2, 1, 0, Skip>>, <<>>)
Unroll3BytesSkip1SwapFirst == Special(<<Skip, 0, 1, 2>>, <<>>)
Unroll3BytesSwap == Special(<<2, 1, 0>>, <<>>)
UnrollLabV2_8 == Special(<<0, 1, 2>>, <<"labV2">>)
UnrollALabV2_8 == Special(<<Skip, 0, 1, 2>>, <<"labV2">>)
UnrollLabV2_16 == Special(<<0, 1, 2>>, <<"labV2">>)
Unroll2Bytes == Special(<<0, 1>>, <<>>)
\* The monochrome ones also fill two more channels.
Unroll1Byte == Special(<<0>>, <<>>)
Unroll1ByteSkip1 == Special(<<0, Skip>>, <<>>)
\* Mutant: it passes over one extra sample only.
Unroll1ByteSkipsOnce == Special(<<0, Skip>>, <<>>)
Unroll1ByteSkip2 == Special(<<0, Skip, Skip>>, <<>>)
Unroll1ByteReversed == Special(<<0>>, <<"rev">>)

\* Unrolling words to 16 bits.
UnrollAnyWords == Generic("chunky", <<"endian", "rev">>, TRUE)
UnrollAnyWordsPremul == Generic("chunky", <<"endian", "div", "rev">>, FALSE)
\* This one skips first samples only for DoSwap; no format with SwapFirst gets here.
UnrollPlanarWords == Generic("planar", <<"endian", "rev">>, FALSE)
UnrollPlanarWordsPremul == Generic("planar", <<"endian", "div", "rev">>, FALSE)
Unroll4Words == Special(<<0, 1, 2, 3>>, <<>>)
Unroll4WordsReverse == Special(<<0, 1, 2, 3>>, <<"rev">>)
Unroll4WordsSwapFirst == Special(<<3, 0, 1, 2>>, <<>>)
Unroll4WordsSwap == Special(<<3, 2, 1, 0>>, <<>>)
Unroll4WordsSwapSwapFirst == Special(<<2, 1, 0, 3>>, <<>>)
Unroll3Words == Special(<<0, 1, 2>>, <<>>)
Unroll3WordsSwap == Special(<<2, 1, 0>>, <<>>)
Unroll3WordsSkip1Swap == Special(<<Skip, 2, 1, 0>>, <<>>)
\* Mutant: it passes over the extra sample at the end.
Unroll3WordsSkipsLast == Special(<<0, 1, 2, Skip>>, <<>>)
Unroll3WordsSkip1SwapFirst == Special(<<Skip, 0, 1, 2>>, <<>>)
Unroll1Word == Special(<<0>>, <<>>)
Unroll1WordReversed == Special(<<0>>, <<"rev">>)
Unroll1WordSkip3 == Special(<<0, Skip, Skip, Skip>>, <<>>)
Unroll2Words == Special(<<0, 1>>, <<>>)

\* Unrolling floating point to 16 bits.
UnrollLabDoubleTo16 == Triple(<<>>)
UnrollLabFloatTo16 == Triple(<<>>)
UnrollXYZDoubleTo16 == Triple(<<>>)
UnrollXYZFloatTo16 == Triple(<<>>)
UnrollDoubleTo16 == Generic("either", <<"rev">>, TRUE)
UnrollFloatTo16 == Generic("either", <<"rev">>, TRUE)
UnrollDouble1Chan == Special(<<0>>, <<>>)
UnrollHalfTo16 == [Generic("either", <<"spoil">>, TRUE) EXCEPT !.unit = "other"]

\* Unrolling to floats.
Unroll8ToFloat == Generic("either", <<"rev">>, TRUE)
Unroll16ToFloat == Generic("either", <<"rev">>, TRUE)
UnrollFloatsToFloat == Generic("either", <<"div", "rev">>, TRUE)
UnrollDoublesToFloat == Generic("either", <<"div", "rev">>, TRUE)
UnrollHalfToFloat == Generic("either", <<"rev">>, TRUE)
UnrollLabDoubleToFloat == Triple(<<>>)
UnrollLabFloatToFloat == Triple(<<>>)
UnrollXYZDoubleToFloat == Triple(<<>>)
UnrollXYZFloatToFloat == Triple(<<>>)
UnrollLabV2_8ToFloat == Special(<<0, 1, 2>>, <<"labV2">>)
UnrollALabV2_8ToFloat == Special(<<Skip, 0, 1, 2>>, <<"labV2">>)
UnrollLabV2_16ToFloat == Special(<<0, 1, 2>>, <<"labV2">>)

\* Packing 16 bits to bytes.
PackChunkyBytes == Generic("chunky", <<"rev", "mul">>, TRUE)
PackPlanarBytes == Generic("planar", <<"rev", "mul">>, FALSE)
Pack6Bytes == Special(<<0, 1, 2, 3, 4, 5>>, <<>>)
Pack6BytesSwap == Special(<<5, 4, 3, 2, 1, 0>>, <<>>)
Pack4Bytes == Special(<<0, 1, 2, 3>>, <<>>)
Pack4BytesReverse == Special(<<0, 1, 2, 3>>, <<"rev">>)
Pack4BytesSwapFirst == Special(<<3, 0, 1, 2>>, <<>>)
Pack4BytesSwap == Special(<<3, 2, 1, 0>>, <<>>)
Pack4BytesSwapSwapFirst == Special(<<2, 1, 0, 3>>, <<>>)
PackLabV2_8 == Special(<<0, 1, 2>>, <<"labV2">>)
PackALabV2_8 == Special(<<Skip, 0, 1, 2>>, <<"labV2">>)
Pack3Bytes == Special(<<0, 1, 2>>, <<>>)
Pack3BytesSwap == Special(<<2, 1, 0>>, <<>>)
Pack3BytesAndSkip1 == Special(<<0, 1, 2, Skip>>, <<>>)
Pack3BytesAndSkip1SwapFirst == Special(<<Skip, 0, 1, 2>>, <<>>)
Pack3BytesAndSkip1Swap == Special(<<Skip, 2, 1, 0>>, <<>>)
Pack3BytesAndSkip1SwapSwapFirst == Special(<<2, 1, 0, Skip>>, <<>>)
Pack1Byte == Special(<<0>>, <<>>)
Pack1ByteReversed == Special(<<0>>, <<"rev">>)
Pack1ByteSkip1 == Special(<<0, Skip>>, <<>>)
Pack1ByteSkip1SwapFirst == Special(<<Skip, 0>>, <<>>)
\* These keep the low byte, for an optimised pipeline that computed bytes.
Pack3BytesOptimized == Special(<<0, 1, 2>>, <<"low">>)
Pack3BytesSwapOptimized == Special(<<2, 1, 0>>, <<"low">>)
Pack3BytesAndSkip1Optimized == Special(<<0, 1, 2, Skip>>, <<"low">>)
Pack3BytesAndSkip1SwapFirstOptimized == Special(<<Skip, 0, 1, 2>>, <<"low">>)
Pack3BytesAndSkip1SwapOptimized == Special(<<Skip, 2, 1, 0>>, <<"low">>)
Pack3BytesAndSkip1SwapSwapFirstOptimized == Special(<<2, 1, 0, Skip>>, <<"low">>)

\* Packing 16 bits to words.
PackChunkyWords == Generic("chunky", <<"endian", "rev", "mul">>, TRUE)
PackPlanarWords == [Generic("planar", <<"endian", "rev", "mul">>, FALSE) EXCEPT !.alpha = 2]
Pack6Words == Special(<<0, 1, 2, 3, 4, 5>>, <<>>)
Pack6WordsSwap == Special(<<5, 4, 3, 2, 1, 0>>, <<>>)
Pack4Words == Special(<<0, 1, 2, 3>>, <<>>)
Pack4WordsReverse == Special(<<0, 1, 2, 3>>, <<"rev">>)
Pack4WordsSwap == Special(<<3, 2, 1, 0>>, <<>>)
Pack4WordsBigEndian == Special(<<0, 1, 2, 3>>, <<"endian">>)
PackLabV2_16 == Special(<<0, 1, 2>>, <<"labV2">>)
Pack3Words == Special(<<0, 1, 2>>, <<>>)
Pack3WordsSwap == Special(<<2, 1, 0>>, <<>>)
Pack3WordsBigEndian == Special(<<0, 1, 2>>, <<"endian">>)
Pack3WordsAndSkip1 == Special(<<0, 1, 2, Skip>>, <<>>)
Pack3WordsAndSkip1Swap == Special(<<Skip, 2, 1, 0>>, <<>>)
Pack3WordsAndSkip1SwapFirst == Special(<<Skip, 0, 1, 2>>, <<>>)
Pack3WordsAndSkip1SwapSwapFirst == Special(<<2, 1, 0, Skip>>, <<>>)
Pack1Word == Special(<<0>>, <<>>)
Pack1WordReversed == Special(<<0>>, <<"rev">>)
Pack1WordBigEndian == Special(<<0>>, <<"endian">>)
Pack1WordSkip1 == Special(<<0, Skip>>, <<>>)
Pack1WordSkip1SwapFirst == Special(<<Skip, 0>>, <<>>)

\* Packing 16 bits to floating point.
PackLabDoubleFrom16 == [Triple(<<>>) EXCEPT !.unit = "byte"]
PackLabFloatFrom16 == Triple(<<>>)
PackXYZDoubleFrom16 == Triple(<<>>)
PackXYZFloatFrom16 == Triple(<<>>)
PackDoubleFrom16 == Generic("either", <<"spoil">>, TRUE)
PackFloatFrom16 == Generic("either", <<"spoil">>, TRUE)
PackHalfFrom16 == Generic("either", <<"spoil">>, TRUE)

\* Packing floats.
PackBytesFromFloat == Generic("either", <<"rev">>, TRUE)
PackWordsFromFloat == Generic("either", <<"rev">>, TRUE)
PackFloatsFromFloat == Generic("either", <<"rev">>, TRUE)
PackDoublesFromFloat == Generic("either", <<"rev">>, TRUE)
PackHalfFromFloat == Generic("either", <<"rev">>, TRUE)
PackLabFloatFromFloat == Triple(<<>>)
PackLabDoubleFromFloat == Triple(<<>>)
PackXYZFloatFromFloat == Triple(<<>>)
PackXYZDoubleFromFloat == Triple(<<>>)
\* The bytes are in the encoding of version 4.
PackEncodedBytesLabV2FromFloat == Triple(<<>>)
PackEncodedWordsLabV2FromFloat == Triple(<<"labV2">>)

(***************************************************************************)
(* The tables.  A row fits a format whose fields are the ones it names;    *)
(* flags in any, and fields that are AnyOne, are not compared.  The first row *)
(* that fits gives the routine.                                            *)
(***************************************************************************)
AnyOne == -1

Row(space, channels, extra, bytes, flags, any, routine) ==
    [type |-> Format(space, channels, extra, bytes, flags), any |-> any, routine |-> routine]

\* Where the samples are.
Ways == {"planar", "swapfirst", "doswap"}

InputFormatters16 == <<
    Row(PT_Lab, 3, AnyOne, 0, {"float"}, {"planar"}, UnrollLabDoubleTo16),
    Row(PT_XYZ, 3, AnyOne, 0, {"float"}, {"planar"}, UnrollXYZDoubleTo16),
    Row(PT_Lab, 3, AnyOne, 4, {"float"}, {"planar"}, UnrollLabFloatTo16),
    Row(PT_XYZ, 3, AnyOne, 4, {"float"}, {"planar"}, UnrollXYZFloatTo16),
    Row(PT_GRAY, 1, 0, 0, {"float"}, {}, UnrollDouble1Chan),
    Row(AnyOne, AnyOne, AnyOne, 0, {"float"}, Ways \cup {"flavor"}, UnrollDoubleTo16),
    Row(AnyOne, AnyOne, AnyOne, 4, {"float"}, Ways \cup {"flavor"}, UnrollFloatTo16),
    Row(AnyOne, AnyOne, AnyOne, 2, {"float"}, Ways \cup {"flavor"}, UnrollHalfTo16),
    Row(AnyOne, 1, 0, 1, {}, {}, Unroll1Byte),
    Row(AnyOne, 1, 1, 1, {}, {}, Unroll1ByteSkip1),
    Row(AnyOne, 1, 2, 1, {}, {}, Unroll1ByteSkip2),
    Row(AnyOne, 1, 0, 1, {"flavor"}, {}, Unroll1ByteReversed),
    Row(PT_MCH2, 2, 0, 1, {}, {}, Unroll2Bytes),
    Row(PT_LabV2, 3, 0, 1, {}, {}, UnrollLabV2_8),
    Row(PT_LabV2, 3, 1, 1, {"swapfirst"}, {}, UnrollALabV2_8),
    Row(PT_LabV2, 3, 0, 2, {}, {}, UnrollLabV2_16),
    Row(AnyOne, 3, 0, 1, {}, {}, Unroll3Bytes),
    Row(AnyOne, 3, 0, 1, {"doswap"}, {}, Unroll3BytesSwap),
    Row(AnyOne, 3, 1, 1, {"doswap"}, {}, Unroll3BytesSkip1Swap),
    Row(AnyOne, 3, 1, 1, {"swapfirst"}, {}, Unroll3BytesSkip1SwapFirst),
    Row(AnyOne, 3, 1, 1, {"doswap", "swapfirst"}, {}, Unroll3BytesSkip1SwapSwapFirst),
    Row(AnyOne, 4, 0, 1, {}, {}, Unroll4Bytes),
    Row(AnyOne, 4, 0, 1, {"flavor"}, {}, Unroll4BytesReverse),
    Row(AnyOne, 4, 0, 1, {"swapfirst"}, {}, Unroll4BytesSwapFirst),
    Row(AnyOne, 4, 0, 1, {"doswap"}, {}, Unroll4BytesSwap),
    Row(AnyOne, 4, 0, 1, {"doswap", "swapfirst"}, {}, Unroll4BytesSwapSwapFirst),
    Row(AnyOne, AnyOne, AnyOne, 1, {"planar"}, {"flavor", "swapfirst", "doswap", "premul"}, UnrollPlanarBytes),
    Row(AnyOne, AnyOne, AnyOne, 1, {}, {"flavor", "swapfirst", "doswap", "premul"}, UnrollChunkyBytes),
    Row(AnyOne, 1, 0, 2, {}, {}, Unroll1Word),
    Row(AnyOne, 1, 0, 2, {"flavor"}, {}, Unroll1WordReversed),
    Row(AnyOne, 1, 3, 2, {}, {}, Unroll1WordSkip3),
    Row(AnyOne, 2, 0, 2, {}, {}, Unroll2Words),
    Row(AnyOne, 3, 0, 2, {}, {}, Unroll3Words),
    Row(AnyOne, 4, 0, 2, {}, {}, Unroll4Words),
    Row(AnyOne, 3, 0, 2, {"doswap"}, {}, Unroll3WordsSwap),
    Row(AnyOne, 3, 1, 2, {"swapfirst"}, {}, Unroll3WordsSkip1SwapFirst),
    Row(AnyOne, 3, 1, 2, {"doswap"}, {}, Unroll3WordsSkip1Swap),
    Row(AnyOne, 4, 0, 2, {"flavor"}, {}, Unroll4WordsReverse),
    Row(AnyOne, 4, 0, 2, {"swapfirst"}, {}, Unroll4WordsSwapFirst),
    Row(AnyOne, 4, 0, 2, {"doswap"}, {}, Unroll4WordsSwap),
    Row(AnyOne, 4, 0, 2, {"doswap", "swapfirst"}, {}, Unroll4WordsSwapSwapFirst),
    Row(AnyOne, AnyOne, AnyOne, 2, {"planar"}, {"flavor", "doswap", "endian"}, UnrollPlanarWords),
    Row(AnyOne, AnyOne, AnyOne, 2, {}, {"flavor", "swapfirst", "doswap", "endian"}, UnrollAnyWords),
    Row(AnyOne, AnyOne, AnyOne, 2, {"planar"}, {"flavor", "doswap", "endian", "premul"}, UnrollPlanarWordsPremul),
    Row(AnyOne, AnyOne, AnyOne, 2, {}, {"flavor", "swapfirst", "doswap", "endian", "premul"}, UnrollAnyWordsPremul)
>>

InputFormattersFloat == <<
    Row(PT_Lab, 3, AnyOne, 0, {"float"}, {"planar"}, UnrollLabDoubleToFloat),
    Row(PT_Lab, 3, AnyOne, 4, {"float"}, {"planar"}, UnrollLabFloatToFloat),
    Row(PT_XYZ, 3, AnyOne, 0, {"float"}, {"planar"}, UnrollXYZDoubleToFloat),
    Row(PT_XYZ, 3, AnyOne, 4, {"float"}, {"planar"}, UnrollXYZFloatToFloat),
    Row(AnyOne, AnyOne, AnyOne, 4, {"float"}, Ways \cup {"premul"}, UnrollFloatsToFloat),
    Row(AnyOne, AnyOne, AnyOne, 0, {"float"}, Ways \cup {"premul"}, UnrollDoublesToFloat),
    Row(PT_LabV2, 3, 0, 1, {}, {}, UnrollLabV2_8ToFloat),
    Row(PT_LabV2, 3, 1, 1, {"swapfirst"}, {}, UnrollALabV2_8ToFloat),
    Row(PT_LabV2, 3, 0, 2, {}, {}, UnrollLabV2_16ToFloat),
    Row(AnyOne, AnyOne, AnyOne, 1, {}, Ways, Unroll8ToFloat),
    Row(AnyOne, AnyOne, AnyOne, 2, {}, Ways, Unroll16ToFloat),
    Row(AnyOne, AnyOne, AnyOne, 2, {"float"}, Ways, UnrollHalfToFloat)
>>

OutputFormatters16 == <<
    Row(PT_Lab, 3, AnyOne, 0, {"float"}, {"planar"}, PackLabDoubleFrom16),
    Row(PT_XYZ, 3, AnyOne, 0, {"float"}, {"planar"}, PackXYZDoubleFrom16),
    Row(PT_Lab, 3, AnyOne, 4, {"float"}, {"planar"}, PackLabFloatFrom16),
    Row(PT_XYZ, 3, AnyOne, 4, {"float"}, {"planar"}, PackXYZFloatFrom16),
    Row(AnyOne, AnyOne, AnyOne, 0, {"float"}, Ways \cup {"flavor"}, PackDoubleFrom16),
    Row(AnyOne, AnyOne, AnyOne, 4, {"float"}, Ways \cup {"flavor"}, PackFloatFrom16),
    Row(AnyOne, AnyOne, AnyOne, 2, {"float"}, Ways \cup {"flavor"}, PackHalfFrom16),
    Row(AnyOne, 1, 0, 1, {}, {}, Pack1Byte),
    Row(AnyOne, 1, 1, 1, {}, {}, Pack1ByteSkip1),
    Row(AnyOne, 1, 1, 1, {"swapfirst"}, {}, Pack1ByteSkip1SwapFirst),
    Row(AnyOne, 1, 0, 1, {"flavor"}, {}, Pack1ByteReversed),
    Row(PT_LabV2, 3, 0, 1, {}, {}, PackLabV2_8),
    Row(PT_LabV2, 3, 1, 1, {"swapfirst"}, {}, PackALabV2_8),
    Row(PT_LabV2, 3, 0, 2, {}, {}, PackLabV2_16),
    Row(AnyOne, 3, 0, 1, {"optimized"}, {}, Pack3BytesOptimized),
    Row(AnyOne, 3, 1, 1, {"optimized"}, {}, Pack3BytesAndSkip1Optimized),
    Row(AnyOne, 3, 1, 1, {"swapfirst", "optimized"}, {}, Pack3BytesAndSkip1SwapFirstOptimized),
    Row(AnyOne, 3, 1, 1, {"doswap", "swapfirst", "optimized"}, {}, Pack3BytesAndSkip1SwapSwapFirstOptimized),
    Row(AnyOne, 3, 1, 1, {"doswap", "optimized"}, {}, Pack3BytesAndSkip1SwapOptimized),
    Row(AnyOne, 3, 0, 1, {"doswap", "optimized"}, {}, Pack3BytesSwapOptimized),
    Row(AnyOne, 3, 0, 1, {}, {}, Pack3Bytes),
    Row(AnyOne, 3, 1, 1, {}, {}, Pack3BytesAndSkip1),
    Row(AnyOne, 3, 1, 1, {"swapfirst"}, {}, Pack3BytesAndSkip1SwapFirst),
    Row(AnyOne, 3, 1, 1, {"doswap", "swapfirst"}, {}, Pack3BytesAndSkip1SwapSwapFirst),
    Row(AnyOne, 3, 1, 1, {"doswap"}, {}, Pack3BytesAndSkip1Swap),
    Row(AnyOne, 3, 0, 1, {"doswap"}, {}, Pack3BytesSwap),
    Row(AnyOne, 4, 0, 1, {}, {}, Pack4Bytes),
    Row(AnyOne, 4, 0, 1, {"flavor"}, {}, Pack4BytesReverse),
    Row(AnyOne, 4, 0, 1, {"swapfirst"}, {}, Pack4BytesSwapFirst),
    Row(AnyOne, 4, 0, 1, {"doswap"}, {}, Pack4BytesSwap),
    Row(AnyOne, 4, 0, 1, {"doswap", "swapfirst"}, {}, Pack4BytesSwapSwapFirst),
    Row(AnyOne, 6, 0, 1, {}, {}, Pack6Bytes),
    Row(AnyOne, 6, 0, 1, {"doswap"}, {}, Pack6BytesSwap),
    Row(AnyOne, AnyOne, AnyOne, 1, {}, {"flavor", "swapfirst", "doswap", "premul"}, PackChunkyBytes),
    Row(AnyOne, AnyOne, AnyOne, 1, {"planar"}, {"flavor", "swapfirst", "doswap", "premul"}, PackPlanarBytes),
    Row(AnyOne, 1, 0, 2, {}, {}, Pack1Word),
    Row(AnyOne, 1, 1, 2, {}, {}, Pack1WordSkip1),
    Row(AnyOne, 1, 1, 2, {"swapfirst"}, {}, Pack1WordSkip1SwapFirst),
    Row(AnyOne, 1, 0, 2, {"flavor"}, {}, Pack1WordReversed),
    Row(AnyOne, 1, 0, 2, {"endian"}, {}, Pack1WordBigEndian),
    Row(AnyOne, 3, 0, 2, {}, {}, Pack3Words),
    Row(AnyOne, 3, 0, 2, {"doswap"}, {}, Pack3WordsSwap),
    Row(AnyOne, 3, 0, 2, {"endian"}, {}, Pack3WordsBigEndian),
    Row(AnyOne, 3, 1, 2, {}, {}, Pack3WordsAndSkip1),
    Row(AnyOne, 3, 1, 2, {"doswap"}, {}, Pack3WordsAndSkip1Swap),
    Row(AnyOne, 3, 1, 2, {"swapfirst"}, {}, Pack3WordsAndSkip1SwapFirst),
    Row(AnyOne, 3, 1, 2, {"doswap", "swapfirst"}, {}, Pack3WordsAndSkip1SwapSwapFirst),
    Row(AnyOne, 4, 0, 2, {}, {}, Pack4Words),
    Row(AnyOne, 4, 0, 2, {"flavor"}, {}, Pack4WordsReverse),
    Row(AnyOne, 4, 0, 2, {"doswap"}, {}, Pack4WordsSwap),
    Row(AnyOne, 4, 0, 2, {"endian"}, {}, Pack4WordsBigEndian),
    Row(AnyOne, 6, 0, 2, {}, {}, Pack6Words),
    Row(AnyOne, 6, 0, 2, {"doswap"}, {}, Pack6WordsSwap),
    Row(AnyOne, AnyOne, AnyOne, 2, {}, {"flavor", "swapfirst", "doswap", "endian", "premul"}, PackChunkyWords),
    Row(AnyOne, AnyOne, AnyOne, 2, {"planar"}, {"flavor", "doswap", "endian", "premul"}, PackPlanarWords)
>>

OutputFormattersFloat == <<
    Row(PT_Lab, 3, AnyOne, 4, {"float"}, {"planar"}, PackLabFloatFromFloat),
    Row(PT_XYZ, 3, AnyOne, 4, {"float"}, {"planar"}, PackXYZFloatFromFloat),
    Row(PT_Lab, 3, AnyOne, 0, {"float"}, {"planar"}, PackLabDoubleFromFloat),
    Row(PT_XYZ, 3, AnyOne, 0, {"float"}, {"planar"}, PackXYZDoubleFromFloat),
    Row(PT_LabV2, 3, AnyOne, 1, {}, {"planar"}, PackEncodedBytesLabV2FromFloat),
    Row(PT_LabV2, 3, AnyOne, 2, {}, {"planar"}, PackEncodedWordsLabV2FromFloat),
    Row(AnyOne, AnyOne, AnyOne, 4, {"float"}, Ways \cup {"flavor"}, PackFloatsFromFloat),
    Row(AnyOne, AnyOne, AnyOne, 0, {"float"}, Ways \cup {"flavor"}, PackDoublesFromFloat),
    Row(AnyOne, AnyOne, AnyOne, 2, {}, Ways \cup {"flavor"}, PackWordsFromFloat),
    Row(AnyOne, AnyOne, AnyOne, 1, {}, Ways \cup {"flavor"}, PackBytesFromFloat),
    Row(AnyOne, AnyOne, AnyOne, 2, {"float"}, {"flavor", "swapfirst", "doswap"}, PackHalfFromFloat)
>>

Fits(row, f) ==
    /\ row.type.flags = f.flags \ row.any
    /\ row.type.bytes = f.bytes
    /\ row.type.space \in {AnyOne, f.space}
    /\ row.type.channels \in {AnyOne, f.channels}
    /\ row.type.extra \in {AnyOne, f.extra}

FirstFit(table, f) ==
    IF \E i \in DOMAIN table : Fits(table[i], f)
    THEN table[CHOOSE i \in DOMAIN table :
                 Fits(table[i], f) /\ \A j \in 1..(i - 1) : ~Fits(table[j], f)].routine
    ELSE NoRoutine

Precisions == {"16 bits", "float"}

StockInputFormatter(f, precision) ==
    FirstFit(IF precision = "float" THEN InputFormattersFloat ELSE InputFormatters16, f)

\* Mutant: the hint is taken.
StockOutputFormatterOptimized(f, precision) ==
    FirstFit(IF precision = "float" THEN OutputFormattersFloat ELSE OutputFormatters16, f)

\* "Optimization is only a hint".
StockOutputFormatter(f, precision) ==
    FirstFit(IF precision = "float" THEN OutputFormattersFloat ELSE OutputFormatters16,
             [f EXCEPT !.flags = @ \ {"optimized"}])

\* Without formatters of plug-ins.
GetFormatter(f, direction, precision) ==
    CASE f.channels = 0                           -> NoRoutine
      [] f.channels > 0 /\ direction = "input"  -> StockInputFormatter(f, precision)
      [] f.channels > 0 /\ direction = "output" -> StockOutputFormatter(f, precision)
=============================================================================
