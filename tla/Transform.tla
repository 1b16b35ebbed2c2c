------------------------------ MODULE Transform ------------------------------
(***************************************************************************)
(* One colour transform (cmsxform.c): how it is created, how its formats   *)
(* are changed, and how threads that share it convert buffers through its  *)
(* one-pixel cache, while the alarm codes of the context may change.       *)
(*                                                                         *)
(* A colour stands for the values of all channels of a pixel, a buffer for *)
(* a sequence of colours in one format.  The pipeline's answer to colour c *)
(* is Image(c).  What a formatter finds in a buffer of another format is   *)
(* Junk, and what an 8-bit pipeline makes of a colour that 8 bits cannot   *)
(* hold is Rough.                                                          *)
(***************************************************************************)
EXTENDS Integers, Sequences, FiniteSets

CONSTANTS
    Threads,        \* the threads that share the transform
    Colours,        \* what is to be converted
    Zero,           \* all channels zero
    OutOfGamut,     \* the colours the gamut check pipeline finds out of gamut
    Codes,          \* settings of the alarm codes of the context
    Formats,        \* pixel formats
    NoFormat,       \* format 0, to be changed before use
    Bytes,          \* T_BYTES of a format: 0 is a double
    Floats,         \* the formats _cmsFormatterIsFloat
    Extra,          \* T_EXTRA of a format
    Known,          \* the formats that have formatters
    Fine,           \* the colours that one byte a channel cannot hold
    FlagSets,       \* the dwFlags the client asks for
    Buffers,        \* the buffers it converts
    Careful,        \* does it keep from changing the formats of a float transform?
    Faults          \* may the gamut check pipeline fail to be built?

Flags == {"NULLTRANSFORM", "NOCACHE", "GAMUTCHECK", "NOOPTIMIZE", "COPY_ALPHA",
          "CAN_CHANGE_FORMATTER"}

Nobody == [routine |-> "none"]
Junk   == "junk"

Image(c) == <<"image", c>>
Rough(c) == <<"rough", c>>
Same(c)  == <<"same", c>>
Mark(m)  == <<"mark", m>>
Empty    == <<"empty", Zero>>   \* what cleared memory holds

ASSUME ColourAssumption == /\ Zero \in Colours /\ OutOfGamut \subseteq Colours
                           /\ Fine \subseteq Colours \ {Zero} /\ Junk \notin Colours
                           /\ Buffers \subseteq Seq(Colours)
ASSUME FormatAssumption == /\ NoFormat \in Formats \ (Known \cup Floats)
                           /\ Known \subseteq Formats /\ Floats \subseteq Formats
                           /\ Bytes \in [Formats -> 0..8] /\ Extra \in [Formats -> Nat]
                           /\ Bytes[NoFormat] = 0
                           /\ \A f \in Floats : Bytes[f] # 1
ASSUME OptionAssumption == /\ FlagSets \subseteq SUBSET (Flags \ {"CAN_CHANGE_FORMATTER"})
                           /\ {Careful, Faults} \subseteq BOOLEAN

VARIABLES
    xform,      \* the transform, or Nobody
    codes,      \* the alarm codes of the context
    call        \* where each thread is in cmsDoTransform

vars == <<xform, codes, call>>

(***************************************************************************)
(* Creating: what AllocEmptyTransform and cmsCreateExtendedTransform make  *)
(* of the flags and formats.                                               *)
(***************************************************************************)
IsFloat(in, out) == in \in Floats \/ out \in Floats

\* The flags after the checks of cmsCreateExtendedTransform, which a null
\* transform skips.
Effective(flags, in, out, gamutProfile) ==
    IF "NULLTRANSFORM" \in flags THEN flags
    ELSE (flags \ (IF gamutProfile THEN {} ELSE {"GAMUTCHECK"}))
         \cup (IF IsFloat(in, out) THEN {"NOCACHE"} ELSE {})

\* Formatters there must be, unless both formats are to come later.
Supported(in, out) ==
    \/ {in, out} \subseteq Known
    \/ in = NoFormat /\ out = NoFormat

\* Mutant: an 8-bit input is no obstacle.
ChangeableAny(in, out) == TRUE

Changeable(in, out) == IsFloat(in, out) \/ Bytes[in] = 0 \/ Bytes[in] >= 2

Routine(flags, in, out) ==
    CASE IsFloat(in, out) /\ "NULLTRANSFORM" \in flags -> "NullFloat"
      [] IsFloat(in, out) /\ "NULLTRANSFORM" \notin flags -> "Float"
      [] ~IsFloat(in, out) /\ "NULLTRANSFORM" \in flags -> "Null"
      [] ~IsFloat(in, out) /\ flags \cap {"NULLTRANSFORM", "NOCACHE"} = {} -> "Cached"
      [] OTHER -> "Precalculated"

NullRoutine == {"NullFloat", "Null"}
FloatRoutine == {"NullFloat", "Float"}

\* The optimised pipeline, given a 16-bit colour.
Lut(x, c) == IF x.eight /\ (c \in Fine \/ c = Junk) THEN Rough(c) ELSE Image(c)

\* TransformOnePixelWithGamutCheck, and its counterpart in FloatXFORM.
WithGamutCheck(x, c, m) == IF c \in OutOfGamut THEN Mark(m) ELSE Lut(x, c)

\* The gamut check of a routine is chosen by the flag, by FloatXFORM and by the
\* cache's first value by the pipeline.
Transform(flags, in, out, eight, gamut) ==
    [in |-> in, out |-> out, from |-> in, to |-> out, flags |-> flags,
     routine |-> Routine(flags, in, out), eight |-> eight, gamut |-> gamut,
     cacheIn |-> Zero, cacheOut |-> Empty, born |-> codes]

Cached(x) == x.flags \cap {"NULLTRANSFORM", "NOCACHE"} = {}

WithCache(x) ==
    IF Cached(x)
    THEN [x EXCEPT !.cacheOut = IF x.gamut THEN WithGamutCheck(x, Zero, codes) ELSE Lut(x, Zero)]
    ELSE x

\* An 8-bit input may be given a pipeline made for 8 bits, but not when floats
\* come out: those are evaluated stage by stage (cmsopt.c).
MayBeEight(flags, in, out) ==
    /\ Bytes[in] = 1 /\ ~IsFloat(in, out)
    /\ flags \cap {"NULLTRANSFORM", "NOOPTIMIZE"} = {}

Create(flags, in, out, gamutProfile) ==
    LET f == Effective(flags, in, out, gamutProfile)
        g == f \cup IF Changeable(in, out) THEN {"CAN_CHANGE_FORMATTER"} ELSE {}
        wants == "GAMUTCHECK" \in f /\ "NULLTRANSFORM" \notin f
    IN  /\ xform = Nobody
        /\ Supported(in, out)
        /\ "COPY_ALPHA" \in f => Extra[in] = Extra[out]
        /\ \E eight \in {FALSE} \cup (IF MayBeEight(f, in, out) THEN {TRUE} ELSE {}),
              gamut \in {wants} \cup (IF Faults THEN {FALSE} ELSE {}) :
             xform' = WithCache(Transform(g, in, out, eight, gamut))
        /\ UNCHANGED <<codes, call>>

(***************************************************************************)
(* The other calls that change the transform or its context.               *)
(***************************************************************************)
Idle == [pc |-> "idle", todo |-> <<>>, given |-> Zero, wIn |-> Zero, wOut |-> Empty,
         cacheIn |-> Zero, cacheOut |-> Empty, got |-> Empty, fmt |-> NoFormat]

NoCalls == \A t \in Threads : call[t].pc = "idle"

\* cmsSetAlarmCodesTHR copies over what calls in progress read, so a client may
\* use it between calls only.
SetAlarmCodes(m) ==
    /\ m # codes /\ NoCalls
    /\ codes' = m
    /\ UNCHANGED <<xform, call>>

\* Mutant: formats are taken as they come.
ChangeFormatsAny(in, out) ==
    /\ xform # Nobody /\ NoCalls
    /\ Careful => xform.routine \notin FloatRoutine
    /\ "CAN_CHANGE_FORMATTER" \in xform.flags
    /\ xform' = [xform EXCEPT !.in = in, !.out = out, !.from = in, !.to = out]
    /\ UNCHANGED <<codes, call>>

\* cmsChangeBuffersFormat looks for 16-bit formatters, and sets those: a float
\* routine goes on using the ones of its creation.
ChangeFormats(in, out) ==
    /\ xform # Nobody /\ NoCalls
    /\ Careful => xform.routine \notin FloatRoutine
    /\ "CAN_CHANGE_FORMATTER" \in xform.flags
    /\ {in, out} \subseteq Known
    /\ xform' = IF xform.routine \in FloatRoutine
                THEN [xform EXCEPT !.in = in, !.out = out]
                ELSE [xform EXCEPT !.in = in, !.out = out, !.from = in, !.to = out]
    /\ UNCHANGED <<codes, call>>

Delete ==
    /\ xform # Nobody /\ NoCalls
    /\ xform' = Nobody /\ call' = [t \in Threads |-> Idle] /\ UNCHANGED codes

(***************************************************************************)
(* cmsDoTransform.  A thread copies the cache of the transform, and works  *)
(* through its buffer one pixel after another.  It gives a buffer in the   *)
(* input format of the transform.                                          *)
(***************************************************************************)
Go(t, pc, c) == call' = [call EXCEPT ![t] = [c EXCEPT !.pc = pc]] /\ UNCHANGED <<xform, codes>>

Holds(f, c) == f # NoFormat /\ (Bytes[f] = 1 => c \notin Fine)

Begin(t, buffer) ==
    /\ xform # Nobody /\ call[t].pc = "idle"
    /\ \A n \in DOMAIN buffer : Holds(xform.in, buffer[n])
    /\ Go(t, "unroll", [Idle EXCEPT !.todo = buffer, !.cacheIn = xform.cacheIn,
                                    !.cacheOut = xform.cacheOut])

\* The input formatter.
Unroll(t) ==
    LET c == Head(call[t].todo)
        w == IF xform.from = xform.in THEN c ELSE Junk
        next == IF xform.routine \in NullRoutine THEN "pack"
                ELSE IF xform.routine = "Cached" THEN "look" ELSE "eval"
    IN  /\ call[t].pc = "unroll" /\ call[t].todo # <<>>
        /\ Go(t, next, [call[t] EXCEPT !.given = c, !.wIn = w, !.todo = Tail(@),
                                       !.wOut = IF next = "pack" THEN Same(w) ELSE @])

Look(t) ==
    /\ call[t].pc = "look"
    /\ IF call[t].wIn = call[t].cacheIn
       THEN Go(t, "pack", [call[t] EXCEPT !.wOut = call[t].cacheOut])
       ELSE Go(t, "eval", call[t])

\* FloatXFORM asks the pipeline whether to check the gamut, the others were
\* chosen by the flag.
ChecksGamut == IF xform.routine = "Float" THEN xform.gamut ELSE "GAMUTCHECK" \in xform.flags

\* Calling through a null pointer ends the process, and another one may start.
Crash ==
    /\ xform' = Nobody /\ codes' \in Codes
    /\ call' = [t \in Threads |-> Idle]

Evaluate(t) ==
    LET w == call[t].wIn
        next == IF xform.routine = "Cached" THEN "keepIn" ELSE "pack"
    IN  /\ call[t].pc = "eval"
        /\ \/ /\ ChecksGamut /\ xform.gamut
              /\ Go(t, next, [call[t] EXCEPT !.wOut = WithGamutCheck(xform, w, codes)])
           \/ /\ ~ChecksGamut
              /\ Go(t, next, [call[t] EXCEPT !.wOut = Lut(xform, w)])
           \/ /\ ChecksGamut /\ ~xform.gamut
              /\ Crash

\* What the cache of the call gets: pixel first, then result.
Kept(c) == IF c.pc = "keepIn" THEN [c EXCEPT !.cacheIn = c.wIn] ELSE [c EXCEPT !.cacheOut = c.wOut]

AfterKeep(pc) == IF pc = "keepIn" THEN "keepOut" ELSE "pack"

\* Mutant: calls keep what they find in the transform itself.
KeepShared(t) ==
    /\ call[t].pc \in {"keepIn", "keepOut"}
    /\ call' = [call EXCEPT ![t] = [Kept(@) EXCEPT !.pc = AfterKeep(call[t].pc)]]
    /\ xform' = IF call[t].pc = "keepIn" THEN [xform EXCEPT !.cacheIn = call[t].wIn]
                ELSE [xform EXCEPT !.cacheOut = call[t].wOut]
    /\ UNCHANGED codes

Keep(t) ==
    /\ call[t].pc \in {"keepIn", "keepOut"}
    /\ Go(t, AfterKeep(call[t].pc), Kept(call[t]))

\* The output formatter.
Pack(t) ==
    /\ call[t].pc = "pack"
    /\ Go(t, "unroll", [call[t] EXCEPT !.got = call[t].wOut, !.fmt = xform.to])

End(t) ==
    /\ call[t].pc = "unroll" /\ call[t].todo = <<>>
    /\ Go(t, "idle", Idle)

Convert(t) == Unroll(t) \/ Look(t) \/ Evaluate(t) \/ Keep(t) \/ Pack(t) \/ End(t)

Init ==
    /\ xform = Nobody
    /\ codes \in Codes
    /\ call = [t \in Threads |-> Idle]

Next ==
    \/ \E flags \in FlagSets, in \in Formats, out \in Formats, gamutProfile \in BOOLEAN :
         Create(flags, in, out, gamutProfile)
    \/ \E m \in Codes : SetAlarmCodes(m)
    \/ \E in \in Formats, out \in Formats : ChangeFormats(in, out)
    \/ Delete
    \/ \E t \in Threads : Convert(t) \/ \E b \in Buffers : Begin(t, b)

Spec == Init /\ [][Next]_vars

(***************************************************************************)
(* What it promises.                                                       *)
(***************************************************************************)
Results == {"image", "rough", "same", "mark", "empty"} \X (Colours \cup {Junk} \cup Codes)

\* Every variable keeps its type; a transform always has formatters to call.
TypeOK ==
    /\ xform # Nobody =>
         /\ {xform.in, xform.out, xform.from, xform.to} \subseteq Known \cup {NoFormat}
         /\ xform.flags \subseteq Flags
         /\ xform.cacheIn \in Colours \cup {Junk} /\ xform.cacheOut \in Results
    /\ codes \in Codes
    /\ \A t \in Threads : /\ call[t].wIn \in Colours \cup {Junk}
                          /\ {call[t].wOut, call[t].cacheOut, call[t].got} \subseteq Results

\* Whose formats may change, its pipeline is right for every colour that any
\* format can hold.
ChangeableIsExact ==
    xform # Nobody /\ "CAN_CHANGE_FORMATTER" \in xform.flags => ~xform.eight

\* A pixel was packed and the next one not yet unrolled.
Packed(t) == call[t].pc = "unroll" /\ call[t].got # Empty

\* What may become of a colour: its image; or itself, in a null transform; or a
\* mark, if it is out of gamut and there is a gamut check.
Right(c) ==
    IF xform.routine \in NullRoutine THEN {Same(c)}
    ELSE IF xform.gamut /\ c \in OutOfGamut THEN {Mark(codes), Mark(xform.born)}
    ELSE {Image(c)}

\* Whatever was cached, changed or interleaved before, each pixel written comes
\* from its own input pixel, in the output format of the transform.
PixelsConverted ==
    \A t \in Threads : Packed(t) =>
      call[t].fmt = xform.out /\ call[t].got \in Right(call[t].given)

\* A format that cmsChangeBuffersFormat accepted is the one that is written.
FormatsHonoured == \A t \in Threads : Packed(t) => call[t].fmt = xform.out

=============================================================================
