--------------------------- MODULE TransformProofs ---------------------------
(***************************************************************************)
(* TypeOK, ChangeableIsExact and PixelsConverted of Transform for every    *)
(* set of colours, formats, flags and buffers and any number of threads.   *)
(***************************************************************************)
EXTENDS Transform, TLAPS

(***************************************************************************)
(* Types.                                                                  *)
(***************************************************************************)
Usable  == Known \cup {NoFormat}
Places  == {"idle", "unroll", "look", "eval", "keepIn", "keepOut", "pack"}
Routines == {"Null", "NullFloat", "Float", "Cached", "Precalculated"}

Transforms ==
    [in: Usable, out: Usable, from: Usable, to: Usable, flags: SUBSET Flags,
     routine: Routines, eight: BOOLEAN, gamut: BOOLEAN,
     cacheIn: Colours \cup {Junk}, cacheOut: Results, born: Codes]

Calls ==
    [pc: Places, todo: Seq(Colours), given: Colours, wIn: Colours \cup {Junk}, wOut: Results,
     cacheIn: Colours \cup {Junk}, cacheOut: Results, got: Results, fmt: Usable]

TypeInv ==
    /\ xform = Nobody \/ xform \in Transforms
    /\ codes \in Codes
    /\ call \in [Threads -> Calls]
    /\ \A t \in Threads : call[t].pc # "idle" => xform # Nobody

\* What a pipeline, a gamut check or a formatter answers is a value.
LEMMA ValueTypes ==
    /\ \A c \in Colours \cup {Junk} : Image(c) \in Results /\ Rough(c) \in Results /\ Same(c) \in Results
    /\ \A m \in Codes : Mark(m) \in Results
    /\ Empty \in Results
  BY ColourAssumption DEF Image, Rough, Same, Mark, Empty, Results

\* The optimised pipeline, with and without the gamut check, answers a value.
LEMMA LutTypes ==
    ASSUME NEW x, NEW c \in Colours \cup {Junk}, NEW m \in Codes
    PROVE  Lut(x, c) \in Results /\ WithGamutCheck(x, c, m) \in Results
  BY ValueTypes DEF Lut, WithGamutCheck

\* A call that has not begun is one.
LEMMA IdleType == Idle \in Calls /\ Idle.pc = "idle"
<1>1. <<>> \in Seq(Colours)
  OBVIOUS
<1> QED  BY <1>1, ValueTypes, ColourAssumption DEF Idle, Calls, Places, Usable

\* A routine is one of these: those with and without a gamut check share a name.
LEMMA RoutineType ==
    ASSUME NEW flags, NEW in, NEW out
    PROVE  Routine(flags, in, out) \in Routines
  BY DEF Routine, Routines

\* What is created has a type.
LEMMA CreateType ==
    ASSUME TypeInv, NEW flags \in FlagSets, NEW in \in Formats, NEW out \in Formats,
           NEW gamutProfile \in BOOLEAN, Create(flags, in, out, gamutProfile)
    PROVE  TypeInv'
<1> DEFINE f == Effective(flags, in, out, gamutProfile)
           g == f \cup IF Changeable(in, out) THEN {"CAN_CHANGE_FORMATTER"} ELSE {}
<1>1. PICK eight \in BOOLEAN, gamut \in BOOLEAN :
           xform' = WithCache(Transform(g, in, out, eight, gamut))
  <2>1. ("GAMUTCHECK" \in f /\ "NULLTRANSFORM" \notin f) \in BOOLEAN
    OBVIOUS
  <2> QED  BY <2>1 DEF Create
<1>2. f \subseteq Flags /\ g \subseteq Flags
  BY OptionAssumption DEF Effective, Flags
<1>3. in \in Usable /\ out \in Usable
  BY DEF Create, Supported, Usable
<1>4. Transform(g, in, out, eight, gamut) \in Transforms
  BY <1>2, <1>3, RoutineType, ValueTypes, ColourAssumption DEF Transform, Transforms, TypeInv
<1>5. WithCache(Transform(g, in, out, eight, gamut)) \in Transforms
  <2> DEFINE x == Transform(g, in, out, eight, gamut)
  <2>1. Zero \in Colours \cup {Junk} /\ codes \in Codes
    BY ColourAssumption DEF TypeInv
  <2>2. WithGamutCheck(x, Zero, codes) \in Results /\ Lut(x, Zero) \in Results
    BY <2>1, LutTypes
  <2> HIDE DEF x
  <2>3. ASSUME NEW v \in Results, x \in Transforms PROVE [x EXCEPT !.cacheOut = v] \in Transforms
    BY <2>3 DEF Transforms
  <2> QED  BY <1>4, <2>2, <2>3 DEF WithCache, x
<1>6. xform' \in Transforms /\ UNCHANGED <<codes, call>>
  BY <1>1, <1>5 DEF Create
<1>7. Nobody \notin Transforms
  BY DEF Nobody, Transforms, Routines
<1> QED  BY <1>6, <1>7 DEF TypeInv

\* A step of one thread changes the call of that thread only.
LEMMA GoType ==
    ASSUME TypeInv, NEW t \in Threads, NEW pc \in Places, NEW c \in Calls, xform # Nobody,
           Go(t, pc, c)
    PROVE  TypeInv'
<1>1. [c EXCEPT !.pc = pc] \in Calls
  BY DEF Calls
<1>2. call' \in [Threads -> Calls]
  BY <1>1 DEF Go, TypeInv
<1> QED  BY <1>2 DEF Go, TypeInv

\* Pixels are unrolled, looked up, evaluated, kept and packed within the types.
LEMMA ConvertType ==
    ASSUME TypeInv, NEW t \in Threads, Convert(t)
    PROVE  TypeInv'
<1> DEFINE c == call[t]
<1>1. c \in Calls /\ codes \in Codes
  BY DEF TypeInv
<1>2. c.pc # "idle" => xform \in Transforms /\ xform # Nobody
  BY DEF TypeInv
<1>3. CASE Unroll(t)
  <2> DEFINE p == Head(c.todo)
             w == IF xform.from = xform.in THEN p ELSE Junk
             next == IF xform.routine \in NullRoutine THEN "pack"
                     ELSE IF xform.routine = "Cached" THEN "look" ELSE "eval"
             d == [c EXCEPT !.given = p, !.wIn = w, !.todo = Tail(@),
                            !.wOut = IF next = "pack" THEN Same(w) ELSE @]
  <2>1. c.todo \in Seq(Colours) /\ c.todo # <<>> /\ c.pc # "idle"
    BY <1>1, <1>3 DEF Unroll, Calls
  <2>2. p \in Colours /\ Tail(c.todo) \in Seq(Colours) /\ w \in Colours \cup {Junk}
    BY <2>1
  <2>3. Same(w) \in Results /\ c.wOut \in Results
    BY <2>2, <1>1, ValueTypes DEF Calls
  <2>4. d \in Calls
    <3> HIDE DEF w, p
    <3> QED  BY <1>1, <2>2, <2>3 DEF Calls
  <2>5. next \in Places
    BY DEF Places
  <2>6. Go(t, next, d)
    BY <1>3 DEF Unroll
  <2> HIDE DEF d, next
  <2> QED  BY <1>2, <2>1, <2>4, <2>5, <2>6, GoType
<1>4. CASE Look(t)
  <2>1. [c EXCEPT !.wOut = c.cacheOut] \in Calls
    BY <1>1 DEF Calls
  <2>2. "pack" \in Places /\ "eval" \in Places
    BY DEF Places
  <2>3. xform # Nobody
    BY <1>2, <1>4 DEF Look
  <2>4. Go(t, "pack", [c EXCEPT !.wOut = c.cacheOut]) \/ Go(t, "eval", c)
    BY <1>4 DEF Look
  <2> QED  BY <1>1, <2>1, <2>2, <2>3, <2>4, GoType
<1>5. CASE Evaluate(t)
  <2> DEFINE next == IF xform.routine = "Cached" THEN "keepIn" ELSE "pack"
             marked == [c EXCEPT !.wOut = WithGamutCheck(xform, c.wIn, codes)]
             plain  == [c EXCEPT !.wOut = Lut(xform, c.wIn)]
  <2>1. c.wIn \in Colours \cup {Junk}
    BY <1>1 DEF Calls
  <2>2. WithGamutCheck(xform, c.wIn, codes) \in Results /\ Lut(xform, c.wIn) \in Results
    BY <1>1, <2>1, LutTypes
  <2>3. marked \in Calls /\ plain \in Calls
    BY <1>1, <2>2 DEF Calls
  <2>4. next \in Places
    BY DEF Places
  <2>5. xform # Nobody
    BY <1>2, <1>5 DEF Evaluate
  <2>6. Go(t, next, marked) \/ Go(t, next, plain) \/ Crash
    BY <1>5 DEF Evaluate
  <2>7. ASSUME Crash PROVE TypeInv'
    BY <2>7, IdleType DEF Crash, TypeInv
  <2> HIDE DEF next, marked, plain
  <2> QED  BY <2>3, <2>4, <2>5, <2>6, <2>7, GoType
<1>6. CASE Keep(t)
  <2>1. Kept(c) \in Calls
    BY <1>1 DEF Kept, Calls
  <2>2. AfterKeep(c.pc) \in Places
    BY DEF AfterKeep, Places
  <2>3. xform # Nobody
    BY <1>2, <1>6 DEF Keep
  <2>4. Go(t, AfterKeep(c.pc), Kept(c))
    BY <1>6 DEF Keep
  <2> QED  BY <2>1, <2>2, <2>3, <2>4, GoType
<1>7. CASE Pack(t)
  <2> DEFINE d == [c EXCEPT !.got = c.wOut, !.fmt = xform.to]
  <2>1. xform # Nobody /\ xform.to \in Usable
    BY <1>2, <1>7 DEF Pack, Transforms
  <2>2. d \in Calls
    BY <1>1, <2>1 DEF Calls
  <2>3. Go(t, "unroll", d) /\ "unroll" \in Places
    BY <1>7 DEF Pack, Places
  <2> HIDE DEF d
  <2> QED  BY <2>1, <2>2, <2>3, GoType
<1>8. CASE End(t)
  <2>1. xform # Nobody
    BY <1>2, <1>8 DEF End
  <2>2. Go(t, "idle", Idle) /\ "idle" \in Places
    BY <1>8 DEF End, Places
  <2> QED  BY <2>1, <2>2, IdleType, GoType
<1> QED  BY <1>3, <1>4, <1>5, <1>6, <1>7, <1>8 DEF Convert

\* So do the calls that begin, and those that change the transform.
LEMMA BeginType ==
    ASSUME TypeInv, NEW t \in Threads, NEW b \in Buffers, Begin(t, b)
    PROVE  TypeInv'
<1> DEFINE d == [Idle EXCEPT !.todo = b, !.cacheIn = xform.cacheIn, !.cacheOut = xform.cacheOut]
<1>1. xform \in Transforms /\ xform # Nobody
  BY DEF Begin, TypeInv
<1>2. xform.cacheIn \in Colours \cup {Junk} /\ xform.cacheOut \in Results
  BY <1>1 DEF Transforms
<1>3. b \in Seq(Colours)
  BY ColourAssumption
<1>4. d \in Calls
  BY <1>2, <1>3, IdleType DEF Calls
<1>5. Go(t, "unroll", d) /\ "unroll" \in Places
  BY DEF Begin, Places
<1> HIDE DEF d
<1> QED  BY <1>1, <1>4, <1>5, GoType

LEMMA ChangeFormatsType ==
    ASSUME TypeInv, NEW in \in Formats, NEW out \in Formats, ChangeFormats(in, out)
    PROVE  TypeInv'
<1>1. xform \in Transforms /\ xform # Nobody /\ in \in Usable /\ out \in Usable
  BY DEF ChangeFormats, TypeInv, Usable
<1>2. xform' \in Transforms
  BY <1>1 DEF ChangeFormats, Transforms
<1> QED  BY <1>2 DEF ChangeFormats, TypeInv, NoCalls

LEMMA TypeInvStep ==
    ASSUME TypeInv, [Next]_vars
    PROVE  TypeInv'
<1>1. CASE \E flags \in FlagSets, in \in Formats, out \in Formats, gamutProfile \in BOOLEAN :
             Create(flags, in, out, gamutProfile)
  BY <1>1, CreateType
<1>2. CASE \E m \in Codes : SetAlarmCodes(m)
  BY <1>2 DEF SetAlarmCodes, TypeInv
<1>3. CASE \E in \in Formats, out \in Formats : ChangeFormats(in, out)
  BY <1>3, ChangeFormatsType
<1>4. CASE Delete
  BY <1>4, IdleType DEF Delete, TypeInv
<1>5. CASE \E t \in Threads : Convert(t)
  BY <1>5, ConvertType
<1>6. CASE \E t \in Threads, b \in Buffers : Begin(t, b)
  BY <1>6, BeginType
<1>7. CASE UNCHANGED vars
  BY <1>7 DEF vars, TypeInv
<1> QED  BY <1>1, <1>2, <1>3, <1>4, <1>5, <1>6, <1>7 DEF Next

LEMMA TypeInvariance == Spec => []TypeInv
<1>1. Init => TypeInv
  BY IdleType DEF Init, TypeInv
<1> QED  BY <1>1, TypeInvStep, PTL DEF Spec

\* Whatever the client asks for, careful or not, every variable keeps its type,
\* and a transform only has formats that have formatters.
THEOREM TypeCorrect == Spec => []TypeOK
<1>1. TypeInv => TypeOK
  BY DEF TypeInv, TypeOK, Transforms, Calls, Usable
<1> QED  BY <1>1, TypeInvariance, PTL

(***************************************************************************)
(* What makes every pixel right: the transform's cache holds a colour and  *)
(* what became of it when the transform was created, and each call's cache *)
(* a colour and what may become of it, except between its two halves.      *)
(***************************************************************************)
XformInv ==
    xform # Nobody =>
      /\ Careful => xform.from = xform.in /\ xform.to = xform.out
      /\ xform.eight => /\ Bytes[xform.in] = 1
                        /\ "CAN_CHANGE_FORMATTER" \notin xform.flags
      /\ xform.gamut => "GAMUTCHECK" \in xform.flags
      /\ xform.routine = "Cached" =>
           xform.cacheOut = IF xform.gamut /\ xform.cacheIn \in OutOfGamut
                            THEN Mark(xform.born) ELSE Image(xform.cacheIn)

\* A call, at each of its places.
CallRight(c) ==
    /\ c.pc # "idle" => \A n \in DOMAIN c.todo : Holds(xform.in, c.todo[n])
    /\ c.pc \in {"look", "eval", "keepIn", "keepOut", "pack"} =>
         c.wIn = c.given /\ Holds(xform.in, c.given)
    /\ c.pc = "eval" => xform.routine \notin NullRoutine
    /\ c.pc \in {"look", "keepIn", "keepOut"} => xform.routine = "Cached"
    /\ c.pc \in {"keepIn", "keepOut", "pack"} => c.wOut \in Right(c.given)
    /\ c.pc = "keepOut" => c.cacheIn = c.given
    /\ c.pc \notin {"idle", "keepOut"} /\ xform.routine = "Cached" => c.cacheOut \in Right(c.cacheIn)
    /\ c.pc = "unroll" /\ c.got # Empty => c.fmt = xform.out /\ c.got \in Right(c.given)

AnswerInv ==
    /\ TypeInv /\ XformInv
    /\ Careful => \A t \in Threads : CallRight(call[t])

\* The transform that is created satisfies it, and no call is in progress.
LEMMA CreateRight ==
    ASSUME TypeInv, NEW flags \in FlagSets, NEW in \in Formats, NEW out \in Formats,
           NEW gamutProfile \in BOOLEAN, Create(flags, in, out, gamutProfile)
    PROVE  XformInv' /\ \A t \in Threads : CallRight(call[t])'
<1> DEFINE f == Effective(flags, in, out, gamutProfile)
           g == f \cup IF Changeable(in, out) THEN {"CAN_CHANGE_FORMATTER"} ELSE {}
           wants == "GAMUTCHECK" \in f /\ "NULLTRANSFORM" \notin f
<1>1. PICK eight \in {FALSE} \cup (IF MayBeEight(f, in, out) THEN {TRUE} ELSE {}),
           gamut \in {wants} \cup (IF Faults THEN {FALSE} ELSE {}) :
           xform' = WithCache(Transform(g, in, out, eight, gamut))
  BY DEF Create
<1> DEFINE x == Transform(g, in, out, eight, gamut)
<1>2. x.eight => Bytes[in] = 1 /\ "CAN_CHANGE_FORMATTER" \notin g
  <2> SUFFICES ASSUME eight = TRUE PROVE Bytes[in] = 1 /\ "CAN_CHANGE_FORMATTER" \notin g
    BY <1>1 DEF Transform
  <2>1. Bytes[in] = 1 /\ ~IsFloat(in, out)
    BY <1>1 DEF MayBeEight
  <2>2. ~Changeable(in, out)
    BY <2>1 DEF Changeable
  <2>3. "CAN_CHANGE_FORMATTER" \notin f
    BY OptionAssumption DEF Effective
  <2> QED  BY <2>1, <2>2, <2>3
<1>3. x.gamut => "GAMUTCHECK" \in g
  BY <1>1 DEF Transform
<1>4. x.routine = "Cached" => Cached(x)
  BY DEF Transform, Routine, Cached
<1>5. x.cacheIn = Zero /\ x.born = codes /\ x.from = x.in /\ x.to = x.out /\ x.in = in /\ x.flags = g
  BY DEF Transform
<1>6. Lut(x, Zero) = Image(Zero)
  BY ColourAssumption DEF Lut
<1>7. \E v : xform' = [x EXCEPT !.cacheOut = v]
              /\ (Cached(x) => v = IF x.gamut /\ Zero \in OutOfGamut THEN Mark(codes) ELSE Image(Zero))
  <2>1. CASE Cached(x)
    BY <1>1, <1>6, <2>1 DEF WithCache, WithGamutCheck
  <2>2. CASE ~Cached(x)
    <3>1. x = [x EXCEPT !.cacheOut = x.cacheOut]
      BY DEF Transform
    <3> HIDE DEF x
    <3> QED  BY <1>1, <2>2, <3>1 DEF WithCache, x
  <2> QED  BY <2>1, <2>2
<1>8. PICK v : xform' = [x EXCEPT !.cacheOut = v]
               /\ (Cached(x) => v = IF x.gamut /\ Zero \in OutOfGamut THEN Mark(codes) ELSE Image(Zero))
  BY <1>7
<1>9. /\ xform'.in = x.in /\ xform'.out = x.out /\ xform'.from = x.from /\ xform'.to = x.to
      /\ xform'.flags = x.flags /\ xform'.eight = x.eight /\ xform'.gamut = x.gamut
      /\ xform'.routine = x.routine /\ xform'.cacheIn = x.cacheIn /\ xform'.born = x.born
      /\ xform'.cacheOut = v
  BY <1>8 DEF Transform
<1> HIDE DEF x, g
<1>10. XformInv'
  BY <1>2, <1>3, <1>4, <1>5, <1>8, <1>9 DEF XformInv
<1>11. \A t \in Threads : call'[t].pc = "idle"
  BY DEF Create, TypeInv
<1> QED  BY <1>10, <1>11 DEF CallRight

\* A pixel that its format can hold is answered rightly by the pipeline, with
\* the gamut check where there is one.
LEMMA EvaluateRight ==
    ASSUME TypeInv, XformInv, xform # Nobody, xform.routine \notin NullRoutine,
           NEW c \in Colours, Holds(xform.in, c)
    PROVE  /\ xform.gamut => WithGamutCheck(xform, c, codes) \in Right(c)
           /\ ~xform.gamut => Lut(xform, c) \in Right(c)
<1>1. Lut(xform, c) = Image(c)
  BY ColourAssumption DEF Lut, XformInv, Holds
<1> QED  BY <1>1 DEF WithGamutCheck, Right

\* A step of one thread preserves the invariant if that thread's call satisfies it.
LEMMA GoRight ==
    ASSUME TypeInv, XformInv, NEW t \in Threads, NEW pc, NEW c \in Calls, Go(t, pc, c),
           \A u \in Threads : CallRight(call[u]),
           CallRight([c EXCEPT !.pc = pc])
    PROVE  XformInv' /\ \A u \in Threads : CallRight(call[u])'
<1>1. UNCHANGED <<xform, codes>> /\ call' = [call EXCEPT ![t] = [c EXCEPT !.pc = pc]]
  BY DEF Go
<1>2. XformInv'
  BY <1>1 DEF XformInv
<1>3. \A u \in Threads : call'[u] = IF u = t THEN [c EXCEPT !.pc = pc] ELSE call[u]
  BY <1>1 DEF TypeInv
<1>4. \A u \in Threads : CallRight(call'[u])
  BY <1>3
<1>5. \A u \in Threads : CallRight(call[u])' <=> CallRight(call'[u])
  BY <1>1 DEF CallRight, Right
<1> QED  BY <1>2, <1>4, <1>5

\* Every step of the loop over the pixels keeps the call right: what is found in
\* the cache was kept for that very colour, and key and value are looked at
\* only when both were kept.
LEMMA ConvertRight ==
    ASSUME TypeInv, XformInv, Careful, NEW t \in Threads, Convert(t),
           \A u \in Threads : CallRight(call[u])
    PROVE  XformInv' /\ \A u \in Threads : CallRight(call[u])'
<1> DEFINE c == call[t]
<1>1. c \in Calls /\ codes \in Codes /\ CallRight(c)
  BY DEF TypeInv
<1>2. c.pc # "idle" => xform \in Transforms /\ xform # Nobody
  BY DEF TypeInv
<1>3. CASE Unroll(t)
  <2> DEFINE p == Head(c.todo)
             w == IF xform.from = xform.in THEN p ELSE Junk
             next == IF xform.routine \in NullRoutine THEN "pack"
                     ELSE IF xform.routine = "Cached" THEN "look" ELSE "eval"
             d == [c EXCEPT !.given = p, !.wIn = w, !.todo = Tail(@),
                            !.wOut = IF next = "pack" THEN Same(w) ELSE @]
             e == [d EXCEPT !.pc = next]
  <2>1. c.todo \in Seq(Colours) /\ c.todo # <<>> /\ c.pc = "unroll"
    BY <1>1, <1>3 DEF Unroll, Calls
  <2>2. p \in Colours /\ Tail(c.todo) \in Seq(Colours)
    BY <2>1
  <2>3. w = p
    BY <1>2, <2>1 DEF XformInv
  <2>4. Holds(xform.in, p)
    <3>1. 1 \in DOMAIN c.todo /\ p = c.todo[1]
      BY <2>1
    <3> QED  BY <1>1, <2>1, <3>1 DEF CallRight
  <2>5. \A n \in DOMAIN Tail(c.todo) : Holds(xform.in, Tail(c.todo)[n])
    <3>1. \A n \in DOMAIN Tail(c.todo) :
            n + 1 \in DOMAIN c.todo /\ Tail(c.todo)[n] = c.todo[n + 1]
      BY <2>1
    <3> QED  BY <1>1, <2>1, <3>1 DEF CallRight
  <2>6. c.wOut \in Results /\ Same(p) \in Results
    BY <1>1, <2>2, ValueTypes DEF Calls
  <2>7. d \in Calls
    <3> HIDE DEF w, p
    <3> QED  BY <1>1, <2>2, <2>3, <2>6 DEF Calls
  <2>8. /\ e.pc = next /\ e.todo = Tail(c.todo) /\ e.given = p /\ e.wIn = p
        /\ e.cacheIn = c.cacheIn /\ e.cacheOut = c.cacheOut
        /\ next = "pack" => e.wOut = Same(p)
    <3> HIDE DEF next, p, w
    <3> QED  BY <1>1, <2>3 DEF Calls
  <2>9. CallRight(e)
    <3>1. next = "pack" => Same(p) \in Right(p)
      BY DEF Right
    <3>2. xform.routine = "Cached" => c.cacheOut \in Right(c.cacheIn)
      BY <1>1, <2>1 DEF CallRight
    <3>3. /\ next \in {"pack", "look", "eval"}
          /\ next = "eval" => xform.routine \notin NullRoutine
          /\ next = "look" => xform.routine = "Cached"
      OBVIOUS
    <3> HIDE DEF e, next, p
    <3> QED  BY <2>4, <2>5, <2>8, <3>1, <3>2, <3>3 DEF CallRight
  <2>10. Go(t, next, d)
    BY <1>3 DEF Unroll
  <2> HIDE DEF d, next
  <2> QED  BY <2>7, <2>9, <2>10, GoRight
<1>4. CASE Look(t)
  <2> DEFINE d == [c EXCEPT !.wOut = c.cacheOut]
  <2>1. c.pc = "look" /\ xform.routine = "Cached" /\ c.wIn = c.given
    BY <1>1, <1>4 DEF Look, CallRight
  <2>2. CASE c.wIn = c.cacheIn
    <3>1. c.cacheOut \in Right(c.given)
      BY <1>1, <2>1, <2>2 DEF CallRight
    <3>2. Go(t, "pack", d) /\ d \in Calls
      BY <1>1, <1>4, <2>2 DEF Look, Calls
    <3>3. CallRight([d EXCEPT !.pc = "pack"])
      BY <1>1, <2>1, <3>1 DEF CallRight, Calls
    <3> HIDE DEF d
    <3> QED  BY <3>2, <3>3, GoRight
  <2>3. CASE c.wIn # c.cacheIn
    <3>1. Go(t, "eval", c)
      BY <1>4, <2>3 DEF Look
    <3>2. CallRight([c EXCEPT !.pc = "eval"])
      BY <1>1, <2>1 DEF CallRight, Calls, NullRoutine
    <3> QED  BY <1>1, <3>1, <3>2, GoRight
  <2> QED  BY <2>2, <2>3
<1>5. CASE Evaluate(t)
  <2> DEFINE next == IF xform.routine = "Cached" THEN "keepIn" ELSE "pack"
             kept(v) == [c EXCEPT !.wOut = v]
  <2>1. /\ c.pc = "eval" /\ c.wIn = c.given /\ c.given \in Colours /\ Holds(xform.in, c.given)
        /\ xform.routine \notin NullRoutine /\ xform # Nobody
    BY <1>1, <1>2, <1>5 DEF Evaluate, CallRight, Calls
  <2>2. ASSUME NEW v \in Right(c.given), v \in Results, Go(t, next, kept(v))
        PROVE  XformInv' /\ \A u \in Threads : CallRight(call[u])'
    <3>1. kept(v) \in Calls
      BY <1>1, <2>2 DEF Calls
    <3>2. CallRight([kept(v) EXCEPT !.pc = next])
      BY <1>1, <2>1, <2>2 DEF CallRight, Calls
    <3> HIDE DEF kept, next
    <3> QED  BY <2>2, <3>1, <3>2, GoRight
  <2>3. ASSUME Crash PROVE XformInv' /\ \A u \in Threads : CallRight(call[u])'
    BY <2>3, IdleType DEF Crash, XformInv, CallRight
  <2>4. /\ WithGamutCheck(xform, c.wIn, codes) \in Results
        /\ Lut(xform, c.wIn) \in Results
    BY <1>1, LutTypes DEF Calls
  <2>5. ~ChecksGamut => ~xform.gamut
    BY <2>1 DEF ChecksGamut, XformInv
  <2> QED  BY <1>5, <2>1, <2>2, <2>3, <2>4, <2>5, EvaluateRight DEF Evaluate
<1>6. CASE Keep(t)
  <2>1. c.pc \in {"keepIn", "keepOut"} /\ Go(t, AfterKeep(c.pc), Kept(c))
    BY <1>6 DEF Keep
  <2>2. Kept(c) \in Calls
    BY <1>1 DEF Kept, Calls
  <2>3. CallRight([Kept(c) EXCEPT !.pc = AfterKeep(c.pc)])
    <3>1. CASE c.pc = "keepIn"
      BY <1>1, <3>1 DEF CallRight, Kept, AfterKeep, Calls
    <3>2. CASE c.pc = "keepOut"
      BY <1>1, <3>2 DEF CallRight, Kept, AfterKeep, Calls
    <3> QED  BY <2>1, <3>1, <3>2
  <2> QED  BY <2>1, <2>2, <2>3, GoRight
<1>7. CASE Pack(t)
  <2> DEFINE d == [c EXCEPT !.got = c.wOut, !.fmt = xform.to]
  <2>1. c.pc = "pack" /\ xform \in Transforms /\ xform.to = xform.out /\ xform # Nobody
    BY <1>2, <1>7 DEF Pack, XformInv
  <2>2. d \in Calls /\ Go(t, "unroll", d)
    BY <1>1, <1>7, <2>1 DEF Calls, Pack, Transforms
  <2>3. CallRight([d EXCEPT !.pc = "unroll"])
    BY <1>1, <2>1 DEF CallRight, Calls
  <2> HIDE DEF d
  <2> QED  BY <2>2, <2>3, GoRight
<1>8. CASE End(t)
  <2>1. Go(t, "idle", Idle)
    BY <1>8 DEF End
  <2>2. CallRight([Idle EXCEPT !.pc = "idle"])
    BY IdleType DEF CallRight, Calls
  <2> QED  BY <2>1, <2>2, IdleType, GoRight
<1> QED  BY <1>3, <1>4, <1>5, <1>6, <1>7, <1>8 DEF Convert

\* A call starts with the transform's cache, which is right for it.
LEMMA BeginRight ==
    ASSUME TypeInv, XformInv, NEW t \in Threads, NEW b \in Buffers, Begin(t, b),
           \A u \in Threads : CallRight(call[u])
    PROVE  XformInv' /\ \A u \in Threads : CallRight(call[u])'
<1> DEFINE d == [Idle EXCEPT !.todo = b, !.cacheIn = xform.cacheIn, !.cacheOut = xform.cacheOut]
<1>1. xform \in Transforms /\ xform # Nobody /\ b \in Seq(Colours)
  BY ColourAssumption DEF Begin, TypeInv
<1>2. xform.cacheIn \in Colours \cup {Junk} /\ xform.cacheOut \in Results
  BY <1>1 DEF Transforms
<1>3. /\ d \in Calls
      /\ d.todo = b /\ d.cacheIn = xform.cacheIn /\ d.cacheOut = xform.cacheOut /\ d.got = Empty
  <2>1. Idle \in Calls /\ Idle.got = Empty
    BY IdleType DEF Idle
  <2> QED  BY <1>1, <1>2, <2>1 DEF Calls
<1>4. xform.routine = "Cached" => xform.cacheOut \in Right(xform.cacheIn)
  BY <1>1 DEF XformInv, Right, NullRoutine
<1>5. \A n \in DOMAIN b : Holds(xform.in, b[n])
  BY DEF Begin
<1>6. Go(t, "unroll", d)
  BY DEF Begin
<1> HIDE DEF d
<1>7. CallRight([d EXCEPT !.pc = "unroll"])
  BY <1>3, <1>4, <1>5 DEF CallRight, Calls
<1> QED  BY <1>3, <1>6, <1>7, GoRight

\* Between calls formats and alarm codes may change: what the transform's cache
\* holds remains what it was when the transform was created.
LEMMA ChangeRight ==
    ASSUME TypeInv, XformInv,
           \/ \E m \in Codes : SetAlarmCodes(m)
           \/ \E in \in Formats, out \in Formats : ChangeFormats(in, out)
           \/ Delete
    PROVE  XformInv' /\ (Careful => \A u \in Threads : CallRight(call[u])')
<1>1. CASE \E m \in Codes : SetAlarmCodes(m)
  BY <1>1 DEF SetAlarmCodes, NoCalls, XformInv, CallRight
<1>2. CASE \E in \in Formats, out \in Formats : ChangeFormats(in, out)
  <2>1. PICK in \in Formats, out \in Formats : ChangeFormats(in, out)
    BY <1>2
  <2>2. xform \in Transforms /\ xform # Nobody
    BY <2>1 DEF ChangeFormats, TypeInv
  <2>3. /\ xform'.flags = xform.flags /\ xform'.eight = xform.eight
        /\ xform'.gamut = xform.gamut /\ xform'.routine = xform.routine
        /\ xform'.born = xform.born
        /\ xform'.cacheIn = xform.cacheIn /\ xform'.cacheOut = xform.cacheOut
        /\ Careful => xform'.from = xform'.in /\ xform'.to = xform'.out
    BY <2>1, <2>2 DEF ChangeFormats, Transforms
  <2>4. ~xform.eight
    BY <2>1, <2>2 DEF ChangeFormats, XformInv, Transforms
  <2>5. XformInv'
    BY <2>2, <2>3, <2>4 DEF XformInv
  <2>6. \A u \in Threads : call'[u].pc = "idle"
    BY <2>1 DEF ChangeFormats, NoCalls
  <2> QED  BY <2>5, <2>6 DEF CallRight
<1>3. CASE Delete
  BY <1>3, IdleType DEF Delete, XformInv, CallRight
<1> QED  BY <1>1, <1>2, <1>3

\* While TypeInv and XformInv hold of any client, calls are right for a careful one.
LEMMA XformInvStep ==
    ASSUME TypeInv, XformInv, [Next]_vars
    PROVE  XformInv'
<1>1. CASE \E flags \in FlagSets, in \in Formats, out \in Formats, gamutProfile \in BOOLEAN :
             Create(flags, in, out, gamutProfile)
  BY <1>1, CreateRight
<1>2. CASE \E m \in Codes : SetAlarmCodes(m)
  BY <1>2, ChangeRight
<1>3. CASE \E in \in Formats, out \in Formats : ChangeFormats(in, out)
  BY <1>3, ChangeRight
<1>4. CASE Delete
  BY <1>4, ChangeRight
<1>5. CASE \E t \in Threads : Convert(t) \/ \E b \in Buffers : Begin(t, b)
  <2>1. UNCHANGED xform \/ xform' = Nobody
    BY <1>5 DEF Convert, Unroll, Look, Evaluate, Keep, Pack, End, Begin, Go, Crash
  <2> QED  BY <2>1 DEF XformInv
<1>6. CASE UNCHANGED vars
  BY <1>6 DEF vars, XformInv
<1> QED  BY <1>1, <1>2, <1>3, <1>4, <1>5, <1>6 DEF Next

LEMMA CallsRightStep ==
    ASSUME TypeInv, XformInv, Careful, [Next]_vars, \A t \in Threads : CallRight(call[t])
    PROVE  \A t \in Threads : CallRight(call[t])'
<1>1. CASE \E flags \in FlagSets, in \in Formats, out \in Formats, gamutProfile \in BOOLEAN :
             Create(flags, in, out, gamutProfile)
  BY <1>1, CreateRight
<1>2. CASE \/ \E m \in Codes : SetAlarmCodes(m)
           \/ \E in \in Formats, out \in Formats : ChangeFormats(in, out)
           \/ Delete
  BY <1>2, ChangeRight
<1>3. CASE \E t \in Threads : Convert(t)
  BY <1>3, ConvertRight
<1>4. CASE \E t \in Threads, b \in Buffers : Begin(t, b)
  BY <1>4, BeginRight
<1>5. CASE UNCHANGED vars
  BY <1>5 DEF vars, CallRight, Right
<1> QED  BY <1>1, <1>2, <1>3, <1>4, <1>5 DEF Next

LEMMA AnswerInvariance == Spec => []AnswerInv
<1>1. Init => AnswerInv
  <2>1. Init => TypeInv
    BY IdleType DEF Init, TypeInv
  <2> QED  BY <2>1, IdleType DEF Init, AnswerInv, XformInv, CallRight
<1>2. AnswerInv /\ [Next]_vars => AnswerInv'
  BY TypeInvStep, XformInvStep, CallsRightStep DEF AnswerInv
<1> QED  BY <1>1, <1>2, PTL DEF Spec

\* cmsChangeBuffersFormat can only reach transforms whose pipeline is right for
\* every colour that any format holds, whatever the client asked for at creation.
THEOREM ChangeableTransformsAreExact == Spec => []ChangeableIsExact
<1>1. AnswerInv => ChangeableIsExact
  BY DEF AnswerInv, XformInv, ChangeableIsExact
<1> QED  BY <1>1, AnswerInvariance, PTL

\* Each pixel comes from its own input pixel, whatever threads share the cache of
\* the transform, for any colours, formats, flags and buffers; unless the formats
\* of a float transform are changed.
THEOREM EveryPixelConverted ==
    ASSUME Careful
    PROVE  Spec => []PixelsConverted
<1>1. AnswerInv => PixelsConverted
  BY DEF AnswerInv, CallRight, PixelsConverted, Packed
<1> QED  BY <1>1, AnswerInvariance, PTL

=============================================================================
