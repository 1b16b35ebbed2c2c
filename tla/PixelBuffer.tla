----------------------------- MODULE PixelBuffer -----------------------------
(***************************************************************************)
(* A buffer of one pixel and its neighbours.  A transform packs the        *)
(* channels of a colour into it, beside the extra samples of the pixel the *)
(* colour came from, or the client fills it as lcms2.h says; then a        *)
(* transform unrolls it.                                                   *)
(***************************************************************************)
EXTENDS Formatters

(***************************************************************************)
(* The copying of extra samples from the pixels that a transform reads to  *)
(* those it writes (cmsalpha.c), with the flag cmsFLAGS_COPY_ALPHA.        *)
(***************************************************************************)
cmsMAXCHANNELS == 16

(***************************************************************************)
(* The kind of the samples, and how one kind is written as another.        *)
(***************************************************************************)
Unrecognized == "none"
FormatterPos(f) ==
    LET Is(bytes, float) == f.bytes = bytes /\ ("float" \in f.flags) = float
    IN  CASE Is(0, TRUE)                               -> "DBL"
          [] Is(2, TRUE)                               -> "HLF"
          [] Is(4, TRUE)                               -> "FLT"
          [] Is(2, FALSE) /\ "endian" \in f.flags     -> "16SE"
          [] Is(2, FALSE) /\ "endian" \notin f.flags  -> "16"
          [] Is(1, FALSE)                              -> "8"
          [] OTHER                                     -> Unrecognized

\* The bytes of a word are swapped on the way in, on the way out, or not at all.
CopyValue(in, out, v) ==
    IF (FormatterPos(in) = "16SE") = (FormatterPos(out) = "16SE") THEN v ELSE Altered(v, "endian", 0)

(***************************************************************************)
(* Where the extra samples are.                                            *)
(***************************************************************************)
Rotated(order) == Append(Tail(order), Head(order))

\* Mutant: the list is not turned when the first channel is elsewhere.
UnturnedOrder(f) ==
    LET n == f.channels + f.extra IN [i \in 1..n |-> IF "doswap" \in f.flags THEN n - i ELSE i - 1]

\* The places of the channels and then of the extra samples.
ComponentOrder(f) ==
    LET n == f.channels + f.extra
        order == [i \in 1..n |-> IF "doswap" \in f.flags THEN n - i ELSE i - 1]
    IN  IF "swapfirst" \in f.flags THEN Rotated(order) ELSE order

ComputeIncrementsForChunky(f) ==
    LET size == PixelSize(f)
    IN  [start |-> [i \in 1..f.extra |-> ComponentOrder(f)[f.channels + i] * size],
         increment |-> size * (f.channels + f.extra)]
ComputeIncrementsForPlanar(f, BytesPerPlane) ==
    [start |-> [i \in 1..f.extra |-> ComponentOrder(f)[f.channels + i] * BytesPerPlane],
     increment |-> PixelSize(f)]
ComputeComponentIncrements(f, BytesPerPlane) ==
    IF "planar" \in f.flags THEN ComputeIncrementsForPlanar(f, BytesPerPlane) ELSE ComputeIncrementsForChunky(f)

(***************************************************************************)
(* The copying, between two buffers.                                       *)
(***************************************************************************)
Copies(in, out) ==
    /\ in.extra = out.extra /\ in.extra # 0
    /\ in.channels + in.extra < cmsMAXCHANNELS /\ out.channels + out.extra < cmsMAXCHANNELS
    /\ Unrecognized \notin {FormatterPos(in), FormatterPos(out)}

\* to and from are the samples at the addresses of the two buffers.
HandleExtraChannels(in, out, from, to, BytesPerPlane) ==
    LET source == ComputeComponentIncrements(in, BytesPerPlane).start
        dest == ComputeComponentIncrements(out, BytesPerPlane).start
        extra(a) == CHOOSE i \in DOMAIN dest : dest[i] = a
    IN  [a \in {dest[i] : i \in DOMAIN dest} |-> CopyValue(in, out, from[source[extra(a)]])] @@ to

(***************************************************************************)
(* The buffer.                                                             *)
(***************************************************************************)
CONSTANTS
    Formats,    \* the formats that clients ask for
    Sources,    \* the formats of pixels whose extra samples are copied
    Stride      \* the bytes between two planes of a planar buffer

\* "M: Premultiplied alpha (only works when extra samples is 1)".
ASSUME FormatAssumption ==
    Formats \subseteq {f \in PixelFormats : "premul" \in f.flags => f.extra = 1}
\* Planes hold whole samples of every size, and more than one pixel.
ASSUME StrideAssumption == Stride \in Nat /\ Stride > 8 /\ Stride % 8 = 0

VARIABLES
    format,     \* the format of the buffer
    other,      \* the size of the samples in the other buffer of the transform
    source,     \* the format that extra samples were copied from, or NoFormat
    precision,  \* of the routines
    memory,     \* the samples at the addresses that are known to hold one
    channels,   \* what came out of the last unrolling
    moved,      \* how far the last routine moved its pointer
    phase       \* "empty", "marked", "packed", "filled" or "unrolled"

vars == <<format, other, source, precision, memory, channels, moved, phase>>

(***************************************************************************)
(* What a routine does.                                                    *)
(***************************************************************************)
At(mem, a) == IF a \in DOMAIN mem THEN mem[a] ELSE Neighbour

IsPlanar(r, f) == r.form = "planar" \/ (r.form = "either" /\ "planar" \in f.flags)

\* The address of the k-th sample, from 0.
Address(r, f, k) ==
    LET size == PixelSize(f)
    IN  CASE ~IsPlanar(r, f)                     -> k * size
          [] IsPlanar(r, f) /\ r.unit = "own"   -> k * Stride
          [] IsPlanar(r, f) /\ r.unit = "other" -> k * (Stride \div other) * size
          [] IsPlanar(r, f) /\ r.unit = "byte"  -> k * Stride * size

\* The channel of each sample of a pixel.
Lanes(r, f) ==
    LET n == f.channels
        extra == [k \in 1..f.extra |-> Skip]
        order == [k \in 1..n |-> IF "doswap" \in f.flags THEN n - k ELSE k - 1]
    IN  CASE r.lanes # Computed                   -> r.lanes
          [] r.lanes = Computed /\ ExtraFirst(f)  -> extra \o order
          [] r.lanes = Computed /\ ~ExtraFirst(f) -> order \o extra

Rotates(r, f) == r.rotates /\ f.extra = 0 /\ "swapfirst" \in f.flags

AlphaAddress(r, f) == IF ExtraFirst(f) THEN 0 ELSE r.alpha * Address(r, f, f.channels)

Processed(r, f, sample) ==
    FoldLeft(LAMBDA v, op : IF Asked(f, op) THEN Altered(v, op, AlphaAddress(r, f)) ELSE v,
             sample, r.ops)

Colour(r, f) == {k \in DOMAIN Lanes(r, f) : Lanes(r, f)[k] # Skip}

\* Moves one chunk of memory, wherever the samples were written.
RotatedMemory(f, last, mem) ==
    [a \in {k * PixelSize(f) : k \in 0..(f.channels - 1)} |->
        IF a = 0 THEN last ELSE At(mem, a - PixelSize(f))] @@ mem

Packed(r, f, mem) ==
    LET lane == Lanes(r, f)
        sample(k) == Processed(r, f, Plain(lane[k]))
        address(k) == Address(r, f, k - 1)
        written == [a \in {address(k) : k \in Colour(r, f)} |->
                      sample(CHOOSE k \in Colour(r, f) : address(k) = a)] @@ mem
    IN  IF Rotates(r, f) THEN RotatedMemory(f, sample(f.channels), written) ELSE written

Unrolled(r, f, mem) ==
    LET lane == Lanes(r, f)
        n == Cardinality(Colour(r, f))
        value(c) == LET k == CHOOSE i \in DOMAIN lane : lane[i] = c
                    IN  Processed(r, f, At(mem, Address(r, f, k - 1)))
    IN  [c \in 0..(n - 1) |-> IF Rotates(r, f) THEN value((c + 1) % n) ELSE value(c)]

\* How far it moves the pointer.
Advance(r, f) ==
    CASE IsPlanar(r, f)                           -> PixelSize(f)
      [] ~IsPlanar(r, f) /\ r.form = "either"    -> (f.channels + f.extra) * PixelSize(f)
      [] ~IsPlanar(r, f) /\ r.form # "either"    -> Len(Lanes(r, f)) * PixelSize(f)

(***************************************************************************)
(* What the header says of a format.                                       *)
(***************************************************************************)
\* "Do swap? ie, BGR, KYMC", "Swap first - changes ABGR to BGRA and KCMY to CMYK".
DocumentedOrder(f) ==
    LET n == f.channels
        plain == [k \in 1..n |-> k - 1]
        swapped == IF "doswap" \in f.flags THEN Reverse(plain) ELSE plain
        extra == [k \in 1..f.extra |-> Skip]
    IN  CASE f.extra > 0 /\ ExtraFirst(f)   -> extra \o swapped
          [] f.extra > 0 /\ ~ExtraFirst(f)  -> swapped \o extra
          [] f.extra = 0 /\ "swapfirst" \notin f.flags -> swapped
          [] f.extra = 0 /\ {"swapfirst", "doswap"} \subseteq f.flags ->
                Append(Tail(swapped), Head(swapped))
          [] f.extra = 0 /\ "swapfirst" \in f.flags /\ "doswap" \notin f.flags ->
                <<Last(swapped)>> \o Front(swapped)

DocumentedAddress(f, k) == IF "planar" \in f.flags THEN k * Stride ELSE k * PixelSize(f)

DocumentedSample(f, c) ==
    LET alpha == IF ExtraFirst(f) THEN 0 ELSE DocumentedAddress(f, f.channels)
        encoded == IF f.space = PT_LabV2 THEN Altered(Plain(c), "labV2", alpha) ELSE Plain(c)
    IN  FoldLeft(LAMBDA v, op : IF Asked(f, op) THEN Altered(v, op, alpha) ELSE v,
                 encoded, <<"rev", "mul", "endian">>)

\* The buffer with samples(c) for channel c, and extras(k) for an extra sample in place k.
Buffer(f, samples(_), extras(_)) ==
    LET order == DocumentedOrder(f)
    IN  [a \in {DocumentedAddress(f, k - 1) : k \in DOMAIN order} |->
            LET k == CHOOSE i \in DOMAIN order : DocumentedAddress(f, i - 1) = a
            IN  IF order[k] = Skip THEN extras(k) ELSE samples(order[k])]

Blank(f) == Buffer(f, LAMBDA c : Neighbour, Alpha)
Picture(f) == Buffer(f, LAMBDA c : DocumentedSample(f, c), Alpha)

\* The pixel that extra samples are copied from, and one of those samples as f encodes it.
Marker(k) == Plain(200 + k)
Encoded(f, v) == IF "endian" \in f.flags THEN Altered(v, "endian", 0) ELSE v
Original(f) == Buffer(f, LAMBDA c : DocumentedSample(f, c), LAMBDA k : Encoded(f, Marker(k)))
ExtraPlaces(f) == {DocumentedAddress(f, k - 1) : k \in {i \in DOMAIN DocumentedOrder(f) : DocumentedOrder(f)[i] = Skip}}

(***************************************************************************)
(* The behaviour.                                                          *)
(***************************************************************************)
Nothing == <<>>
NoFormat == Format(PT_ANY, 0, 0, 1, {})

Init ==
    /\ format \in Formats
    /\ other \in {1, 2, 4, 8}
    /\ source = NoFormat
    /\ precision \in Precisions
    /\ memory = Blank(format)
    /\ channels = Nothing
    /\ moved = 0
    /\ phase = "empty"

\* Before it goes over the pixels, a transform copies their extra samples.
CopyExtra(in) ==
    /\ phase = "empty"
    /\ PixelSize(in) = other
    /\ Copies(in, format)
    /\ memory' = HandleExtraChannels(in, format, Original(in), memory, Stride)
    /\ moved' = ComputeComponentIncrements(format, Stride).increment
    /\ source' = in
    /\ phase' = "marked"
    /\ UNCHANGED <<format, other, precision, channels>>

\* The formatter of the output of a transform.
Pack ==
    LET r == GetFormatter(format, "output", precision)
    IN  /\ phase \in {"empty", "marked"}
        /\ r # NoRoutine
        /\ memory' = Packed(r, format, memory)
        /\ moved' = Advance(r, format)
        /\ phase' = "packed"
        /\ UNCHANGED <<format, other, source, precision, channels>>

\* The client's own pixel.
Fill ==
    /\ phase = "empty"
    /\ memory' = Picture(format)
    /\ phase' = "filled"
    /\ UNCHANGED <<format, other, source, precision, channels, moved>>

\* The formatter of the input of a transform.
Unroll ==
    LET r == GetFormatter(format, "input", precision)
    IN  /\ phase \in {"packed", "filled"}
        /\ r # NoRoutine
        /\ channels' = Unrolled(r, format, memory)
        /\ moved' = Advance(r, format)
        /\ phase' = "unrolled"
        /\ UNCHANGED <<format, other, source, precision, memory>>

Next == (\E in \in Sources : CopyExtra(in)) \/ Pack \/ Fill \/ Unroll

Spec == Init /\ [][Next]_vars

(***************************************************************************)
(* Properties.                                                             *)
(***************************************************************************)
Has(flags) == flags \subseteq format.flags

\* Formats that a packer does not write as the header says.
Misplaced ==
    \/ Has({"endian", "premul"})
    \/ Has({"planar", "premul"}) /\ format.bytes = 2 /\ ~ExtraFirst(format)
    \/ Has({"doswap", "swapfirst"}) /\ format.extra = 0
          /\ ~(format.channels = 4 /\ format.bytes = 1 /\ format.flags = {"doswap", "swapfirst"}
                 /\ precision = "16 bits")
    \/ Has({"planar", "swapfirst"}) /\ format.extra = 0
    \/ Has({"float", "flavor"}) /\ precision = "16 bits"
    \/ Has({"float", "planar"}) /\ format.bytes = 0 /\ format.space = PT_Lab /\ precision = "16 bits"
    \/ format.space = PT_LabV2 /\ format.bytes = 1 /\ precision = "float"

\* Formats that an unroller does not read as the header says.
Misread ==
    \/ Has({"endian", "premul"})
    \/ Has({"flavor", "premul"}) /\ format.bytes = 1
    \/ Has({"planar", "swapfirst"}) /\ format.extra = 0 /\ format.bytes = 1 /\ precision = "16 bits"
    \/ Has({"float", "flavor"}) /\ format.bytes = 2 /\ precision = "16 bits"
    \/ Has({"float", "planar"}) /\ format.bytes = 2 /\ precision = "16 bits" /\ other # 2

\* A packed pixel is in memory as lcms2.h:695 says: each channel in the place of
\* its format and altered as its flags ask, and nothing is written next to the
\* pixel (the formats in Misplaced excepted).
LayoutKept ==
    phase = "packed" /\ ~Misplaced =>
        /\ DOMAIN memory = DOMAIN Picture(format)
        /\ \A a \in DOMAIN memory \ ExtraPlaces(format) : memory[a] = Picture(format)[a]

\* From a pixel in the layout of its format an unroller gets every channel as it
\* was before it was packed, whichever of the routines the tables chose.
ChannelsRead ==
    phase = "unrolled" /\ memory = Picture(format) /\ ~Misread =>
        \A c \in 0..(format.channels - 1) : channels[c] = Plain(c)

\* A routine moves its pointer to the next pixel: over all samples of a chunky
\* one, extra ones too, and over one sample of a plane; else every pixel of the
\* line after the first would be read or written askew.
StepsOnePixel ==
    phase \in {"marked", "packed", "unrolled"} =>
        moved = PixelSize(format)
                  * (IF "planar" \in format.flags THEN 1 ELSE format.channels + format.extra)

\* The copying takes the extra samples of a pixel with the first channel
\* elsewhere, of which there are two or more, for being on both sides of it.
RotatedExtras(f) == "swapfirst" \in f.flags /\ f.extra > 1

\* A packed pixel has all the extra samples of the pixel it was made from, each
\* once, in the encoding of its format, in the places that its packer leaves
\* free, and those of its own buffer if they are not copied; so the two sides
\* agree on where the extra samples of both formats are (Misplaced and
\* RotatedExtras excepted).
ExtraKept ==
    phase = "packed" /\ ~Misplaced /\ ~RotatedExtras(format) /\ ~RotatedExtras(source) =>
        LET own == {Alpha(k) : k \in {i \in DOMAIN DocumentedOrder(format) : DocumentedOrder(format)[i] = Skip}}
            copied == {Encoded(format, Marker(k)) :
                         k \in {i \in DOMAIN DocumentedOrder(source) : DocumentedOrder(source)[i] = Skip}}
        IN  {memory[a] : a \in ExtraPlaces(format)} = IF source = NoFormat THEN own ELSE copied
=============================================================================
